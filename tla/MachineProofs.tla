----------------------------- MODULE MachineProofs -----------------------------
(***************************************************************************)
(* Proofs about what runs on one machine: HostLaunch with the Client of    *)
(* ClientHost, for any hosts, ports, displays and callers, and Container,  *)
(* for any commands run at once, any jobs and whatever was there before.   *)
(*                                                                         *)
(* Hosts.  That nothing is left behind is not inductive: a step that ends  *)
(* a launch drops what the host owns, so the invariant says in which       *)
(* stages a host owns what (ProcsInStage, DisplayInStage, TmpInStage,      *)
(* HolderInStage); a live browser is moreover the last attempt's, because  *)
(* each attempt that fails kills its own.  A port has one listener         *)
(* (OneListens) because binds fail on a taken one.  Every step of Next is  *)
(* one of a few kinds for the hosts (CoreStep): the callers only ask for a *)
(* launch, let one go, or leave the hosts alone.                           *)
(*                                                                         *)
(* The Client.  Its mutexes are held exactly while a call is between       *)
(* taking and leaving them (LocksHeld); so one caller opens a connection,  *)
(* and only when none is open (OneConnection), and one launches            *)
(* (InlineFollows), which is why a cancelled launch is over at once.       *)
(*                                                                         *)
(* Commands.  A command past the check saw its own (CheckedOwn); the port  *)
(* it talks to was read from the container or given to `run` (PortsKnown); *)
(* a container it made is what it asked for, since a tag spells its image  *)
(* (ImagesAsTagged, MadeAsAsked), and what a takeover host must have was   *)
(* looked at before the install was called one (TakeoverWhole); a purge    *)
(* that nobody disturbs knows the image as long as it needs it.            *)
(***************************************************************************)
EXTENDS ClientHost, Container, FiniteSetTheorems, TLAPS

-------------------------------------------------------------------------------
(* Hosts and the Client: the inductive invariant.                          *)

Stages == {"idle", "crashed", "serving"} \cup Launching \cup Ended
Early == {"idle", "display", "screen", "web", "profile"}
Spawned == {"waiting", "asking", "naming", "bound", "serving"}

HostTypes ==
  /\ args \in Setups /\ stage \in [Hosts -> Stages] /\ try \in [Hosts -> 0 .. Tries]
  /\ port \in [Hosts -> Ports \cup {0}] /\ at \in [Procs -> Ports \cup {0}]
  /\ proc \in [Procs -> {"none", "gone"} \cup Exists]
  /\ backs \in [Hosts -> {"none", "own", "browser", "plain"}]
  /\ display \in [Hosts -> {"none", "starting", "up", "dying"}]
  /\ number \in [Hosts -> Screens \cup {0}] /\ screen \in [Screens -> Hosts \cup {NoHost}]
  /\ tmp \in [Hosts -> BOOLEAN] /\ holder \in [Profiles -> Hosts \cup {NoHost}]
  /\ stranger \in [Ports -> {"no", "plain", "browser"}]

\* A port has one listener.
OneListens ==
  \A p \in Ports :
    /\ \A q, r \in Procs : at[q] = p /\ at[r] = p => q = r
    /\ stranger[p] # "no" => \A q \in Procs : at[q] # p

AttemptsCounted ==
  \A h \in Hosts :
    /\ stage[h] \in Early \cup Ended \cup {"crashed"} => try[h] = 0
    /\ stage[h] \in {"pick", "spawn"} => try[h] < Tries
    /\ stage[h] \in {"spawn"} \cup Spawned => port[h] \in Ports

\* What a host owns it owns in the stages in which the code holds it.
ProcsInStage ==
  \A h \in Hosts : stage[h] # "crashed" =>
    \A k \in Nth : proc[<<h, k>>] \in Alive => stage[h] \in Spawned /\ k = try[h]
DisplayInStage ==
  \A h \in Hosts :
    display[h] \in {"starting", "up"} => stage[h] \notin {"idle", "display"} \cup Ended
TmpInStage == \A h \in Hosts : tmp[h] => stage[h] \in Working \cup {"crashed"}
HolderInStage == \A h \in Hosts : \A p \in Profiles : holder[p] = h => stage[h] \in Working

NamedByABrowser ==
  \A h \in Hosts : Chromium(h) /\ stage[h] \in {"naming", "bound", "serving"} => backs[h] # "plain"

ScreensFollow ==
  \A h \in Hosts :
    /\ display[h] \in {"starting", "up"} => number[h] \in Screens
    /\ display[h] = "up" => screen[number[h]] = h

Busy == {"endpoint", "launching", "request"}

ClientTypes ==
  /\ held \in BOOLEAN /\ info \in BOOLEAN /\ launched \in BOOLEAN
  /\ op \in [Callers -> Ops] /\ cpc \in [Callers -> {"idle", "want"} \cup Busy]
  /\ lock \in [Locks -> Callers \cup {NoCaller}] /\ cached \in {"none", "open", "closed"}

\* A mutex is held exactly by the call that is between taking and leaving it.
LocksHeld ==
  \A c \in Callers :
    /\ cpc[c] \in Busy => lock[lockOf(c)] = c /\ op[c] # "close"
    /\ cpc[c] = "launching" <=> lock["launched"] = c
    /\ \A l \in Locks : lock[l] = c => cpc[c] \in Busy

OneConnection ==
  /\ open = IF cached = "open" THEN 1 ELSE 0
  /\ \A c \in Callers : cpc[c] \in Busy /\ op[c] = "cdp" => cached # "open"

SomeoneLaunches == \E c \in Callers : cpc[c] = "launching"

\* The inline host does what the Client knows of it.
InlineFollows ==
  /\ \A h \in Inline :
       /\ stage[h] # "crashed"
       /\ stage[h] \in Launching \/ (stage[h] = "idle" /\ h \in asked) => SomeoneLaunches
       /\ stage[h] = "serving" => launched \/ SomeoneLaunches
       /\ launched => stage[h] = "serving"
       /\ stage[h] = "down" => ~held
  /\ launched => ~SomeoneLaunches
  /\ ~held => \A c \in Callers : cpc[c] = "idle"

HostsInv ==
  /\ HostTypes /\ OneListens /\ AttemptsCounted
  /\ ProcsInStage /\ DisplayInStage /\ TmpInStage /\ HolderInStage
  /\ NamedByABrowser /\ ScreensFollow
ClientInv == ClientTypes /\ LocksHeld /\ OneConnection /\ InlineFollows
MachineInv == HostsInv /\ ClientInv


-------------------------------------------------------------------------------
(* Hosts: what a step of the machine may be.                               *)

core == <<args, stage, try, port, proc, at, backs, display, number, screen, tmp, holder, stranger>>

\* An attempt that fails is followed by another, or everything is let go.
Retries(h) ==
  /\ lost(h) /\ Chromium(h) /\ try[h] < Tries
  /\ proc' = Killed(h) /\ Goto(h, "pick")
  /\ backs' = [backs EXCEPT ![h] = "none"] /\ port' = [port EXCEPT ![h] = 0]
  /\ UNCHANGED <<args, at, try, display, number, screen, tmp, holder, stranger>>
LetsGo(h) == \E place \in Ended : Drops(h, place) /\ UNCHANGED <<args, at, screen, stranger>>
\* The inline host is told to launch, once more if its last launch failed.
Relaunches(h) ==
  /\ stage[h] \in {"idle", "failed"} /\ Goto(h, "idle")
  /\ UNCHANGED <<args, try, port, proc, at, backs, display, number, screen, tmp, holder, stranger>>

HostMoves(h) ==
  \/ LaunchStarts(h) \/ PicksDisplay(h) \/ SeesDisplay(h) \/ DisplayIsUp(h) \/ ResolvesProfile(h)
  \/ PicksPort(h) \/ Spawns(h) \/ Accepts(h) \/ NamesItself(h) \/ Connects(h) \/ Retries(h)
  \/ Serves(h) \/ LetsGo(h) \/ Crashes(h) \/ Relaunches(h)

CoreStep == (\E h \in Hosts : HostMoves(h)) \/ Machine \/ UNCHANGED core

\* Progress of a launch is one of these (AppState::launch, serve).
LEMMA ProgressKinds == ASSUME NEW h \in Hosts, HostProgress(h) PROVE HostMoves(h)
<1>1. ASSUME NoDisplay(h) \/ LaunchRefused(h) \/ CannotStart(h) \/ CannotListen(h) PROVE LetsGo(h)
  BY <1>1 DEF NoDisplay, LaunchRefused, CannotStart, CannotListen, LetsGo, Ended
<1>2. ASSUME LosesAttempt(h) PROVE Retries(h) \/ LetsGo(h)
  <2>1. CASE Chromium(h) /\ try[h] < Tries
    BY <1>2, <2>1 DEF LosesAttempt, again, retries, Retries
  <2>2. CASE ~(Chromium(h) /\ try[h] < Tries)
    BY <1>2, <2>2 DEF LosesAttempt, LetsGo, Ended
  <2> QED BY <2>1, <2>2
<1> QED BY <1>1, <1>2 DEF HostProgress, HostMoves, Names

\* Every step is one of these for the hosts, whatever the callers do
\* (AppState::launch, InlineHost::endpoint).
LEMMA StepKinds == ASSUME MachineInv, [Next]_vars PROVE CoreStep
<1> USE DEF CoreStep
<1>1. CASE UNCHANGED vars BY <1>1 DEF vars, hostVars, xVars, dirs, core
<1>2. ASSUME NEW h \in Hosts, HostProgress(h) PROVE CoreStep
  BY <1>2, ProgressKinds
<1>3. ASSUME NEW h \in Hosts, Stops(h) \/ Crashes(h) PROVE CoreStep
  BY <1>3 DEF Stops, LetsGo, Ended, HostMoves
<1>4. ASSUME UNCHANGED hostVars PROVE CoreStep
  BY <1>4 DEF hostVars, xVars, dirs, core
<1>5. ASSUME NEW c \in Callers, Launches(c) PROVE CoreStep
  <2>1. PICK h \in Inline : Goto(h, "idle") BY <1>5 DEF Launches
  <2>2. h \in Hosts /\ ~launched /\ held
    BY <1>5, <2>1 DEF Launches, Inline, MachineInv, ClientInv, InlineFollows
  <2>3. ~SomeoneLaunches
    BY <1>5, CallersAssumption
       DEF Launches, MachineInv, ClientInv, LocksHeld, SomeoneLaunches, NoCaller
  <2>4. stage[h] \in {"idle", "failed"}
    BY <2>1, <2>2, <2>3
       DEF MachineInv, ClientInv, InlineFollows, HostsInv, HostTypes, Stages, Ended
  <2>5. Relaunches(h)
    BY <1>5, <2>1, <2>4 DEF Launches, Relaunches, xVars, dirs
  <2> QED BY <2>2, <2>5 DEF HostMoves
<1>6. ASSUME NEW c \in Callers, LaunchFailed(c) PROVE CoreStep
  BY <1>6 DEF LaunchFailed, core, xVars, dirs
<1>7. ASSUME NEW c \in Callers, Cancelled(c) PROVE CoreStep
  <2>1. CASE carries(c)
    <3>1. PICK h \in Inline : Drops(h, "failed") /\ UNCHANGED <<args, at, screen, stranger>>
      BY <1>7, <2>1 DEF Cancelled, dropsLaunch
    <3> QED BY <3>1 DEF Inline, LetsGo, Ended, HostMoves
  <2>2. CASE ~carries(c) BY <1>4, <1>7, <2>2 DEF Cancelled, dropsLaunch
  <2> QED BY <2>1, <2>2
<1>8. ASSUME NEW c \in Callers, CallerStep(c) PROVE CoreStep
  BY <1>4, <1>5, <1>6, <1>8
     DEF CallerStep, FindsCached, NeedsHost, Closes, FindsLaunched, HostIsReady, Opens, Answers,
         RequestFails
<1>9. ASSUME NEW c \in Callers, NEW what \in Ops, Calls(c, what) PROVE CoreStep
  BY <1>4, <1>9 DEF Calls
<1>10. CASE ConnDies \/ DropsClient
  BY <1>4, <1>10 DEF ConnDies, DropsClient
<1>11. CASE InlineEnds BY <1>3, <1>11 DEF InlineEnds, Inline
<1>12. CASE \/ \E h \in Hosts : HostProgress(h)
            \/ \E h \in Hosts \ Inline : Stops(h) \/ Crashes(h)
            \/ Machine
  BY <1>2, <1>3, <1>12
<1>13. ASSUME NEW h \in Hosts, FoxStarts(h) \/ FoxEnds(h) PROVE CoreStep
  BY <1>13 DEF FoxStarts, FoxEnds, core, xVars
<1> QED BY <1>1, <1>7, <1>8, <1>9, <1>10, <1>11, <1>12, <1>13 DEF Next

\* What is persistent has a name (ProfileRef).
LEMMA ProfileNamed ==
  ASSUME HostTypes, NEW h \in Hosts, Persistent(h) PROVE args[h].profile \in Profiles
BY DEF HostTypes, Persistent, Profiles

\* A connect to a port nobody listens on is refused (wait_for_tcp_ready).
LEMMA FreePort ==
  ASSUME NEW p \in Ports, ~Bound(p) PROVE stranger[p] = "no" /\ \A q \in Procs : at[q] # p
<1>1. stranger[p] = "no" BY DEF Bound, Owner
<1>2. ASSUME NEW q \in Procs, at[q] = p PROVE FALSE
  <2>1. args[q[1]].family \in {args[r[1]].family : r \in {x \in Procs : at[x] = p}} BY <1>2
  <2>2. Owner(p) # {} BY <1>1, <2>1 DEF Owner
  <2> QED BY <2>2 DEF Bound
<1> QED BY <1>1, <1>2

-------------------------------------------------------------------------------
(* Hosts: the invariant, part by part.                                     *)

\* Every variable of the hosts keeps its type (AppState::launch).
LEMMA TypesStep ==
  ASSUME HostTypes, AttemptsCounted, DisplayInStage, ScreensFollow, CoreStep
  PROVE  HostTypes'
<1> USE DEF HostTypes, Stages, Launching, Ended, Exists, Alive
<1>1. ASSUME NEW h \in Hosts, HostMoves(h) PROVE HostTypes'
  <2>1. CASE LaunchStarts(h) BY <2>1 DEF LaunchStarts, Goto, xVars, dirs
  <2>2. CASE PicksDisplay(h) BY <2>2 DEF PicksDisplay, Goto, xVars, dirs
  <2>3. CASE SeesDisplay(h) BY <2>3 DEF SeesDisplay, Goto, xVars, dirs
  <2>4. CASE DisplayIsUp(h) BY <2>4 DEF DisplayIsUp, Goto, xVars, dirs
  <2>5. CASE ResolvesProfile(h) BY <2>5, ProfileNamed DEF ResolvesProfile, Goto, xVars, dirs
  <2>6. CASE PicksPort(h) BY <2>6 DEF PicksPort, Goto, xVars, dirs
  <2>7. CASE Spawns(h) BY <2>7, TriesAssumption
                          DEF Spawns, Goto, xVars, dirs, AttemptsCounted, Procs, Nth
  <2>8. CASE Accepts(h) BY <2>8 DEF Accepts, Goto, xVars, dirs, Seen, Owner, AttemptsCounted, Spawned
  <2>9. CASE NamesItself(h) BY <2>9 DEF NamesItself, Goto, xVars, dirs, Seen, Owner, AttemptsCounted,
                                        Spawned
  <2>10. CASE Connects(h) BY <2>10 DEF Connects, Goto, xVars, dirs
  <2>11. CASE Retries(h) BY <2>11 DEF Retries, Goto, Killed
  <2>12. CASE Serves(h) BY <2>12 DEF Serves, Goto, xVars, dirs
  <2>13. CASE LetsGo(h) BY <2>13, TriesAssumption DEF LetsGo, Drops, ProviderKilled, Goto, Killed
  <2>14. CASE Crashes(h) BY <2>14, TriesAssumption DEF Crashes, Goto, xVars, dirs
  <2>15. CASE Relaunches(h) BY <2>15 DEF Relaunches, Goto, xVars, dirs
  <2> QED
    BY <1>1, <2>1, <2>2, <2>3, <2>4, <2>5, <2>6, <2>7, <2>8, <2>9, <2>10, <2>11, <2>12, <2>13,
       <2>14, <2>15 DEF HostMoves
<1>2. ASSUME NEW q \in Procs, ProcStarts(q) \/ ProcEnds(q) PROVE HostTypes'
  <2>1. CASE ProcStarts(q) BY <2>1 DEF ProcStarts, xVars, dirs, Procs
  <2>2. CASE ProcEnds(q) BY <2>2 DEF ProcEnds, xVars, dirs
  <2> QED BY <1>2, <2>1, <2>2
<1>3. ASSUME NEW h \in Hosts, ProviderStarts(h) \/ ProviderEnds(h) PROVE HostTypes'
  <2>1. CASE ProviderStarts(h) BY <2>1 DEF ProviderStarts, xVars, dirs, ScreensFollow
  <2>2. CASE ProviderEnds(h) BY <2>2 DEF ProviderEnds, xVars, dirs
  <2> QED BY <1>3, <2>1, <2>2
<1>4. ASSUME NEW p \in Ports, NEW kind \in {"plain", "browser"}, StrangerListens(p, kind)
      PROVE HostTypes'
  BY <1>4 DEF StrangerListens, xVars, dirs
<1>5. CASE UNCHANGED core BY <1>5 DEF core
<1> QED BY <1>1, <1>2, <1>3, <1>4, <1>5 DEF CoreStep, Machine

\* Nobody listens on a port that is taken (pick_ephemeral_port, bind).
LEMMA ListenersStep ==
  ASSUME HostTypes, OneListens, CoreStep
  PROVE  OneListens'
<1> USE DEF OneListens
<1>1. ASSUME NEW h \in Hosts, HostMoves(h) PROVE OneListens'
  <2>1. CASE LaunchStarts(h) BY <2>1 DEF LaunchStarts, Goto, xVars, dirs
  <2>2. CASE PicksDisplay(h) BY <2>2 DEF PicksDisplay, Goto, xVars, dirs
  <2>3. CASE SeesDisplay(h) BY <2>3 DEF SeesDisplay, Goto, xVars, dirs
  <2>4. CASE DisplayIsUp(h) BY <2>4 DEF DisplayIsUp, Goto, xVars, dirs
  <2>5. CASE ResolvesProfile(h) BY <2>5 DEF ResolvesProfile, Goto, xVars, dirs
  <2>6. CASE PicksPort(h) BY <2>6 DEF PicksPort, Goto, xVars, dirs
  <2>7. CASE Spawns(h) BY <2>7 DEF Spawns, Goto, xVars, dirs
  <2>8. CASE Accepts(h) BY <2>8 DEF Accepts, Goto, xVars, dirs
  <2>9. CASE NamesItself(h) BY <2>9 DEF NamesItself, Goto, xVars, dirs
  <2>10. CASE Connects(h) BY <2>10 DEF Connects, Goto, xVars, dirs
  <2>11. CASE Retries(h) BY <2>11 DEF Retries, Goto, Killed
  <2>12. CASE Serves(h) BY <2>12 DEF Serves, Goto, xVars, dirs
  <2>13. CASE LetsGo(h) BY <2>13 DEF LetsGo, Drops, ProviderKilled, Goto, Killed
  <2>14. CASE Crashes(h) BY <2>14 DEF Crashes, Goto, xVars, dirs
  <2>15. CASE Relaunches(h) BY <2>15 DEF Relaunches, Goto, xVars, dirs
  <2> QED
    BY <1>1, <2>1, <2>2, <2>3, <2>4, <2>5, <2>6, <2>7, <2>8, <2>9, <2>10, <2>11, <2>12, <2>13,
       <2>14, <2>15 DEF HostMoves
<1>2. ASSUME NEW q \in Procs, ProcStarts(q) \/ ProcEnds(q) PROVE OneListens'
  <2>1. CASE ProcStarts(q) BY <2>1, PortsAssumption, FreePort DEF ProcStarts, xVars, dirs, HostTypes
  <2>2. CASE ProcEnds(q) BY <2>2, PortsAssumption DEF ProcEnds, xVars, dirs, HostTypes
  <2> QED BY <1>2, <2>1, <2>2
<1>3. ASSUME NEW h \in Hosts, ProviderStarts(h) \/ ProviderEnds(h) PROVE OneListens'
  <2>1. CASE ProviderStarts(h) BY <2>1 DEF ProviderStarts, xVars, dirs
  <2>2. CASE ProviderEnds(h) BY <2>2 DEF ProviderEnds, xVars, dirs
  <2> QED BY <1>3, <2>1, <2>2
<1>4. ASSUME NEW p \in Ports, NEW kind \in {"plain", "browser"}, StrangerListens(p, kind)
      PROVE OneListens'
  BY <1>4, FreePort DEF StrangerListens, xVars, dirs, HostTypes
<1>5. CASE UNCHANGED core BY <1>5 DEF core
<1> QED BY <1>1, <1>2, <1>3, <1>4, <1>5 DEF CoreStep, Machine

\* Attempts are counted up to their bound (launch_chromium).
LEMMA AttemptsStep ==
  ASSUME HostTypes, AttemptsCounted, CoreStep
  PROVE  AttemptsCounted'
<1> USE DEF AttemptsCounted, HostTypes, Stages, Early, Spawned, Launching, Ended
<1>1. ASSUME NEW h \in Hosts, HostMoves(h) PROVE AttemptsCounted'
  <2>1. CASE LaunchStarts(h) BY <2>1 DEF LaunchStarts, Goto, xVars, dirs
  <2>2. CASE PicksDisplay(h) BY <2>2 DEF PicksDisplay, Goto, xVars, dirs
  <2>3. CASE SeesDisplay(h) BY <2>3 DEF SeesDisplay, Goto, xVars, dirs
  <2>4. CASE DisplayIsUp(h) BY <2>4 DEF DisplayIsUp, Goto, xVars, dirs
  <2>5. CASE ResolvesProfile(h) BY <2>5, TriesAssumption DEF ResolvesProfile, Goto, xVars, dirs
  <2>6. CASE PicksPort(h) BY <2>6 DEF PicksPort, Goto, xVars, dirs
  <2>7. CASE Spawns(h) BY <2>7, TriesAssumption DEF Spawns, Goto, xVars, dirs
  <2>8. CASE Accepts(h) BY <2>8 DEF Accepts, Goto, xVars, dirs
  <2>9. CASE NamesItself(h) BY <2>9 DEF NamesItself, Goto, xVars, dirs
  <2>10. CASE Connects(h) BY <2>10 DEF Connects, Goto, xVars, dirs
  <2>11. CASE Retries(h) BY <2>11 DEF Retries, Goto, Killed
  <2>12. CASE Serves(h) BY <2>12 DEF Serves, Goto, xVars, dirs
  <2>13. CASE LetsGo(h) BY <2>13 DEF LetsGo, Drops, ProviderKilled, Goto, Killed
  <2>14. CASE Crashes(h) BY <2>14 DEF Crashes, Goto, xVars, dirs
  <2>15. CASE Relaunches(h) BY <2>15 DEF Relaunches, Goto, xVars, dirs
  <2> QED
    BY <1>1, <2>1, <2>2, <2>3, <2>4, <2>5, <2>6, <2>7, <2>8, <2>9, <2>10, <2>11, <2>12, <2>13,
       <2>14, <2>15 DEF HostMoves
<1>2. ASSUME NEW q \in Procs, ProcStarts(q) \/ ProcEnds(q) PROVE AttemptsCounted'
  <2>1. CASE ProcStarts(q) BY <2>1 DEF ProcStarts, xVars, dirs
  <2>2. CASE ProcEnds(q) BY <2>2 DEF ProcEnds, xVars, dirs
  <2> QED BY <1>2, <2>1, <2>2
<1>3. ASSUME NEW h \in Hosts, ProviderStarts(h) \/ ProviderEnds(h) PROVE AttemptsCounted'
  <2>1. CASE ProviderStarts(h) BY <2>1 DEF ProviderStarts, xVars, dirs
  <2>2. CASE ProviderEnds(h) BY <2>2 DEF ProviderEnds, xVars, dirs
  <2> QED BY <1>3, <2>1, <2>2
<1>4. ASSUME NEW p \in Ports, NEW kind \in {"plain", "browser"}, StrangerListens(p, kind)
      PROVE AttemptsCounted'
  BY <1>4 DEF StrangerListens, xVars, dirs
<1>5. CASE UNCHANGED core BY <1>5 DEF core
<1> QED BY <1>1, <1>2, <1>3, <1>4, <1>5 DEF CoreStep, Machine

\* A host's browser lives in the stages that hold it (Drop of the handle).
LEMMA ProcsStep ==
  ASSUME HostTypes, AttemptsCounted, ProcsInStage, CoreStep
  PROVE  ProcsInStage'
<1> USE DEF ProcsInStage, HostTypes, Procs, Spawned, Alive, Exists
<1>1. ASSUME NEW h \in Hosts, HostMoves(h) PROVE ProcsInStage'
  <2>1. CASE LaunchStarts(h) BY <2>1 DEF LaunchStarts, Goto, xVars, dirs
  <2>2. CASE PicksDisplay(h) BY <2>2 DEF PicksDisplay, Goto, xVars, dirs
  <2>3. CASE SeesDisplay(h) BY <2>3 DEF SeesDisplay, Goto, xVars, dirs
  <2>4. CASE DisplayIsUp(h) BY <2>4 DEF DisplayIsUp, Goto, xVars, dirs
  <2>5. CASE ResolvesProfile(h) BY <2>5 DEF ResolvesProfile, Goto, xVars, dirs
  <2>6. CASE PicksPort(h) BY <2>6 DEF PicksPort, Goto, xVars, dirs
  <2>7. CASE Spawns(h) BY <2>7, TriesAssumption DEF Spawns, Goto, xVars, dirs, AttemptsCounted, Nth
  <2>8. CASE Accepts(h) BY <2>8 DEF Accepts, Goto, xVars, dirs
  <2>9. CASE NamesItself(h) BY <2>9 DEF NamesItself, Goto, xVars, dirs
  <2>10. CASE Connects(h) BY <2>10 DEF Connects, Goto, xVars, dirs
  <2>11. CASE Retries(h) BY <2>11 DEF Retries, Goto, Killed
  <2>12. CASE Serves(h) BY <2>12 DEF Serves, Goto, xVars, dirs
  <2>13. CASE LetsGo(h) BY <2>13 DEF LetsGo, Drops, ProviderKilled, Goto, Killed
  <2>14. CASE Crashes(h) BY <2>14 DEF Crashes, Goto, xVars, dirs
  <2>15. CASE Relaunches(h) BY <2>15 DEF Relaunches, Goto, xVars, dirs
  <2> QED
    BY <1>1, <2>1, <2>2, <2>3, <2>4, <2>5, <2>6, <2>7, <2>8, <2>9, <2>10, <2>11, <2>12, <2>13,
       <2>14, <2>15 DEF HostMoves
<1>2. ASSUME NEW q \in Procs, ProcStarts(q) \/ ProcEnds(q) PROVE ProcsInStage'
  <2>1. CASE ProcStarts(q) BY <2>1 DEF ProcStarts, xVars, dirs
  <2>2. CASE ProcEnds(q) BY <2>2 DEF ProcEnds, xVars, dirs
  <2> QED BY <1>2, <2>1, <2>2
<1>3. ASSUME NEW h \in Hosts, ProviderStarts(h) \/ ProviderEnds(h) PROVE ProcsInStage'
  <2>1. CASE ProviderStarts(h) BY <2>1 DEF ProviderStarts, xVars, dirs
  <2>2. CASE ProviderEnds(h) BY <2>2 DEF ProviderEnds, xVars, dirs
  <2> QED BY <1>3, <2>1, <2>2
<1>4. ASSUME NEW p \in Ports, NEW kind \in {"plain", "browser"}, StrangerListens(p, kind)
      PROVE ProcsInStage'
  BY <1>4 DEF StrangerListens, xVars, dirs
<1>5. CASE UNCHANGED core BY <1>5 DEF core
<1> QED BY <1>1, <1>2, <1>3, <1>4, <1>5 DEF CoreStep, Machine

\* A display provider is let go with its launch (takeover/mod.rs, Drop).
LEMMA DisplaysStep ==
  ASSUME HostTypes, DisplayInStage, CoreStep
  PROVE  DisplayInStage'
<1> USE DEF DisplayInStage, HostTypes, Ended
<1>1. ASSUME NEW h \in Hosts, HostMoves(h) PROVE DisplayInStage'
  <2>1. CASE LaunchStarts(h) BY <2>1 DEF LaunchStarts, Goto, xVars, dirs
  <2>2. CASE PicksDisplay(h) BY <2>2 DEF PicksDisplay, Goto, xVars, dirs
  <2>3. CASE SeesDisplay(h) BY <2>3 DEF SeesDisplay, Goto, xVars, dirs
  <2>4. CASE DisplayIsUp(h) BY <2>4 DEF DisplayIsUp, Goto, xVars, dirs
  <2>5. CASE ResolvesProfile(h) BY <2>5 DEF ResolvesProfile, Goto, xVars, dirs
  <2>6. CASE PicksPort(h) BY <2>6 DEF PicksPort, Goto, xVars, dirs
  <2>7. CASE Spawns(h) BY <2>7 DEF Spawns, Goto, xVars, dirs
  <2>8. CASE Accepts(h) BY <2>8 DEF Accepts, Goto, xVars, dirs
  <2>9. CASE NamesItself(h) BY <2>9 DEF NamesItself, Goto, xVars, dirs
  <2>10. CASE Connects(h) BY <2>10 DEF Connects, Goto, xVars, dirs
  <2>11. CASE Retries(h) BY <2>11 DEF Retries, Goto, Killed
  <2>12. CASE Serves(h) BY <2>12 DEF Serves, Goto, xVars, dirs
  <2>13. CASE LetsGo(h) BY <2>13 DEF LetsGo, Drops, ProviderKilled, Goto, Killed
  <2>14. CASE Crashes(h) BY <2>14 DEF Crashes, Goto, xVars, dirs
  <2>15. CASE Relaunches(h) BY <2>15 DEF Relaunches, Goto, xVars, dirs
  <2> QED
    BY <1>1, <2>1, <2>2, <2>3, <2>4, <2>5, <2>6, <2>7, <2>8, <2>9, <2>10, <2>11, <2>12, <2>13,
       <2>14, <2>15 DEF HostMoves
<1>2. ASSUME NEW q \in Procs, ProcStarts(q) \/ ProcEnds(q) PROVE DisplayInStage'
  <2>1. CASE ProcStarts(q) BY <2>1 DEF ProcStarts, xVars, dirs
  <2>2. CASE ProcEnds(q) BY <2>2 DEF ProcEnds, xVars, dirs
  <2> QED BY <1>2, <2>1, <2>2
<1>3. ASSUME NEW h \in Hosts, ProviderStarts(h) \/ ProviderEnds(h) PROVE DisplayInStage'
  <2>1. CASE ProviderStarts(h) BY <2>1 DEF ProviderStarts, xVars, dirs
  <2>2. CASE ProviderEnds(h) BY <2>2 DEF ProviderEnds, xVars, dirs
  <2> QED BY <1>3, <2>1, <2>2
<1>4. ASSUME NEW p \in Ports, NEW kind \in {"plain", "browser"}, StrangerListens(p, kind)
      PROVE DisplayInStage'
  BY <1>4 DEF StrangerListens, xVars, dirs
<1>5. CASE UNCHANGED core BY <1>5 DEF core
<1> QED BY <1>1, <1>2, <1>3, <1>4, <1>5 DEF CoreStep, Machine

\* A temporary directory goes with its host (browser.rs, TempDir).
LEMMA TmpsStep ==
  ASSUME HostTypes, TmpInStage, CoreStep
  PROVE  TmpInStage'
<1> USE DEF TmpInStage, HostTypes, Working
<1>1. ASSUME NEW h \in Hosts, HostMoves(h) PROVE TmpInStage'
  <2>1. CASE LaunchStarts(h) BY <2>1 DEF LaunchStarts, Goto, xVars, dirs
  <2>2. CASE PicksDisplay(h) BY <2>2 DEF PicksDisplay, Goto, xVars, dirs
  <2>3. CASE SeesDisplay(h) BY <2>3 DEF SeesDisplay, Goto, xVars, dirs
  <2>4. CASE DisplayIsUp(h) BY <2>4 DEF DisplayIsUp, Goto, xVars, dirs
  <2>5. CASE ResolvesProfile(h) BY <2>5 DEF ResolvesProfile, Goto, xVars, dirs
  <2>6. CASE PicksPort(h) BY <2>6 DEF PicksPort, Goto, xVars, dirs
  <2>7. CASE Spawns(h) BY <2>7 DEF Spawns, Goto, xVars, dirs
  <2>8. CASE Accepts(h) BY <2>8 DEF Accepts, Goto, xVars, dirs
  <2>9. CASE NamesItself(h) BY <2>9 DEF NamesItself, Goto, xVars, dirs
  <2>10. CASE Connects(h) BY <2>10 DEF Connects, Goto, xVars, dirs
  <2>11. CASE Retries(h) BY <2>11 DEF Retries, Goto, Killed
  <2>12. CASE Serves(h) BY <2>12 DEF Serves, Goto, xVars, dirs
  <2>13. CASE LetsGo(h) BY <2>13 DEF LetsGo, Drops, ProviderKilled, Goto, Killed
  <2>14. CASE Crashes(h) BY <2>14 DEF Crashes, Goto, xVars, dirs
  <2>15. CASE Relaunches(h) BY <2>15 DEF Relaunches, Goto, xVars, dirs
  <2> QED
    BY <1>1, <2>1, <2>2, <2>3, <2>4, <2>5, <2>6, <2>7, <2>8, <2>9, <2>10, <2>11, <2>12, <2>13,
       <2>14, <2>15 DEF HostMoves
<1>2. ASSUME NEW q \in Procs, ProcStarts(q) \/ ProcEnds(q) PROVE TmpInStage'
  <2>1. CASE ProcStarts(q) BY <2>1 DEF ProcStarts, xVars, dirs
  <2>2. CASE ProcEnds(q) BY <2>2 DEF ProcEnds, xVars, dirs
  <2> QED BY <1>2, <2>1, <2>2
<1>3. ASSUME NEW h \in Hosts, ProviderStarts(h) \/ ProviderEnds(h) PROVE TmpInStage'
  <2>1. CASE ProviderStarts(h) BY <2>1 DEF ProviderStarts, xVars, dirs
  <2>2. CASE ProviderEnds(h) BY <2>2 DEF ProviderEnds, xVars, dirs
  <2> QED BY <1>3, <2>1, <2>2
<1>4. ASSUME NEW p \in Ports, NEW kind \in {"plain", "browser"}, StrangerListens(p, kind)
      PROVE TmpInStage'
  BY <1>4 DEF StrangerListens, xVars, dirs
<1>5. CASE UNCHANGED core BY <1>5 DEF core
<1> QED BY <1>1, <1>2, <1>3, <1>4, <1>5 DEF CoreStep, Machine

\* A profile's lock goes with its host (profile_launch.rs).
LEMMA HoldersStep ==
  ASSUME HostTypes, HolderInStage, CoreStep
  PROVE  HolderInStage'
<1> USE DEF HolderInStage, HostTypes, Working
<1>1. ASSUME NEW h \in Hosts, HostMoves(h) PROVE HolderInStage'
  <2>1. CASE LaunchStarts(h) BY <2>1 DEF LaunchStarts, Goto, xVars, dirs
  <2>2. CASE PicksDisplay(h) BY <2>2 DEF PicksDisplay, Goto, xVars, dirs
  <2>3. CASE SeesDisplay(h) BY <2>3 DEF SeesDisplay, Goto, xVars, dirs
  <2>4. CASE DisplayIsUp(h) BY <2>4 DEF DisplayIsUp, Goto, xVars, dirs
  <2>5. CASE ResolvesProfile(h) BY <2>5, NobodyAssumption DEF ResolvesProfile, Goto, xVars, dirs
  <2>6. CASE PicksPort(h) BY <2>6 DEF PicksPort, Goto, xVars, dirs
  <2>7. CASE Spawns(h) BY <2>7 DEF Spawns, Goto, xVars, dirs
  <2>8. CASE Accepts(h) BY <2>8 DEF Accepts, Goto, xVars, dirs
  <2>9. CASE NamesItself(h) BY <2>9 DEF NamesItself, Goto, xVars, dirs
  <2>10. CASE Connects(h) BY <2>10 DEF Connects, Goto, xVars, dirs
  <2>11. CASE Retries(h) BY <2>11 DEF Retries, Goto, Killed
  <2>12. CASE Serves(h) BY <2>12 DEF Serves, Goto, xVars, dirs
  <2>13. CASE LetsGo(h) BY <2>13, NobodyAssumption DEF LetsGo, Drops, ProviderKilled, Goto, Killed
  <2>14. CASE Crashes(h) BY <2>14, NobodyAssumption DEF Crashes, Goto, xVars, dirs
  <2>15. CASE Relaunches(h) BY <2>15 DEF Relaunches, Goto, xVars, dirs
  <2> QED
    BY <1>1, <2>1, <2>2, <2>3, <2>4, <2>5, <2>6, <2>7, <2>8, <2>9, <2>10, <2>11, <2>12, <2>13,
       <2>14, <2>15 DEF HostMoves
<1>2. ASSUME NEW q \in Procs, ProcStarts(q) \/ ProcEnds(q) PROVE HolderInStage'
  <2>1. CASE ProcStarts(q) BY <2>1 DEF ProcStarts, xVars, dirs
  <2>2. CASE ProcEnds(q) BY <2>2 DEF ProcEnds, xVars, dirs
  <2> QED BY <1>2, <2>1, <2>2
<1>3. ASSUME NEW h \in Hosts, ProviderStarts(h) \/ ProviderEnds(h) PROVE HolderInStage'
  <2>1. CASE ProviderStarts(h) BY <2>1 DEF ProviderStarts, xVars, dirs
  <2>2. CASE ProviderEnds(h) BY <2>2 DEF ProviderEnds, xVars, dirs
  <2> QED BY <1>3, <2>1, <2>2
<1>4. ASSUME NEW p \in Ports, NEW kind \in {"plain", "browser"}, StrangerListens(p, kind)
      PROVE HolderInStage'
  BY <1>4 DEF StrangerListens, xVars, dirs
<1>5. CASE UNCHANGED core BY <1>5 DEF core
<1> QED BY <1>1, <1>2, <1>3, <1>4, <1>5 DEF CoreStep, Machine

\* Only a DevTools endpoint names a Chromium's address (read_chromium_ws_url).
LEMMA NamedStep ==
  ASSUME HostTypes, NamedByABrowser, CoreStep
  PROVE  NamedByABrowser'
<1> USE DEF NamedByABrowser, HostTypes, Chromium
<1>1. ASSUME NEW h \in Hosts, HostMoves(h) PROVE NamedByABrowser'
  <2>1. CASE LaunchStarts(h) BY <2>1 DEF LaunchStarts, Goto, xVars, dirs
  <2>2. CASE PicksDisplay(h) BY <2>2 DEF PicksDisplay, Goto, xVars, dirs
  <2>3. CASE SeesDisplay(h) BY <2>3 DEF SeesDisplay, Goto, xVars, dirs
  <2>4. CASE DisplayIsUp(h) BY <2>4 DEF DisplayIsUp, Goto, xVars, dirs
  <2>5. CASE ResolvesProfile(h) BY <2>5 DEF ResolvesProfile, Goto, xVars, dirs
  <2>6. CASE PicksPort(h) BY <2>6 DEF PicksPort, Goto, xVars, dirs
  <2>7. CASE Spawns(h) BY <2>7 DEF Spawns, Goto, xVars, dirs
  <2>8. CASE Accepts(h) BY <2>8 DEF Accepts, Goto, xVars, dirs
  <2>9. CASE NamesItself(h) BY <2>9 DEF NamesItself, Goto, xVars, dirs
  <2>10. CASE Connects(h) BY <2>10 DEF Connects, Goto, xVars, dirs
  <2>11. CASE Retries(h) BY <2>11 DEF Retries, Goto, Killed
  <2>12. CASE Serves(h) BY <2>12 DEF Serves, Goto, xVars, dirs
  <2>13. CASE LetsGo(h) BY <2>13 DEF LetsGo, Drops, ProviderKilled, Goto, Killed, Ended
  <2>14. CASE Crashes(h) BY <2>14 DEF Crashes, Goto, xVars, dirs
  <2>15. CASE Relaunches(h) BY <2>15 DEF Relaunches, Goto, xVars, dirs
  <2> QED
    BY <1>1, <2>1, <2>2, <2>3, <2>4, <2>5, <2>6, <2>7, <2>8, <2>9, <2>10, <2>11, <2>12, <2>13,
       <2>14, <2>15 DEF HostMoves
<1>2. ASSUME NEW q \in Procs, ProcStarts(q) \/ ProcEnds(q) PROVE NamedByABrowser'
  <2>1. CASE ProcStarts(q) BY <2>1 DEF ProcStarts, xVars, dirs
  <2>2. CASE ProcEnds(q) BY <2>2 DEF ProcEnds, xVars, dirs
  <2> QED BY <1>2, <2>1, <2>2
<1>3. ASSUME NEW h \in Hosts, ProviderStarts(h) \/ ProviderEnds(h) PROVE NamedByABrowser'
  <2>1. CASE ProviderStarts(h) BY <2>1 DEF ProviderStarts, xVars, dirs
  <2>2. CASE ProviderEnds(h) BY <2>2 DEF ProviderEnds, xVars, dirs
  <2> QED BY <1>3, <2>1, <2>2
<1>4. ASSUME NEW p \in Ports, NEW kind \in {"plain", "browser"}, StrangerListens(p, kind)
      PROVE NamedByABrowser'
  BY <1>4 DEF StrangerListens, xVars, dirs
<1>5. CASE UNCHANGED core BY <1>5 DEF core
<1> QED BY <1>1, <1>2, <1>3, <1>4, <1>5 DEF CoreStep, Machine

\* A provider that is up has the number it picked (launch_kasmvnc_unix).
LEMMA ScreensStep ==
  ASSUME HostTypes, ScreensFollow, CoreStep
  PROVE  ScreensFollow'
<1> USE DEF ScreensFollow, HostTypes
<1>1. ASSUME NEW h \in Hosts, HostMoves(h) PROVE ScreensFollow'
  <2>1. CASE LaunchStarts(h) BY <2>1 DEF LaunchStarts, Goto, xVars, dirs
  <2>2. CASE PicksDisplay(h) BY <2>2 DEF PicksDisplay, Goto, xVars, dirs
  <2>3. CASE SeesDisplay(h) BY <2>3 DEF SeesDisplay, Goto, xVars, dirs
  <2>4. CASE DisplayIsUp(h) BY <2>4 DEF DisplayIsUp, Goto, xVars, dirs
  <2>5. CASE ResolvesProfile(h) BY <2>5 DEF ResolvesProfile, Goto, xVars, dirs
  <2>6. CASE PicksPort(h) BY <2>6 DEF PicksPort, Goto, xVars, dirs
  <2>7. CASE Spawns(h) BY <2>7 DEF Spawns, Goto, xVars, dirs
  <2>8. CASE Accepts(h) BY <2>8 DEF Accepts, Goto, xVars, dirs
  <2>9. CASE NamesItself(h) BY <2>9 DEF NamesItself, Goto, xVars, dirs
  <2>10. CASE Connects(h) BY <2>10 DEF Connects, Goto, xVars, dirs
  <2>11. CASE Retries(h) BY <2>11 DEF Retries, Goto, Killed
  <2>12. CASE Serves(h) BY <2>12 DEF Serves, Goto, xVars, dirs
  <2>13. CASE LetsGo(h) BY <2>13 DEF LetsGo, Drops, ProviderKilled, Goto, Killed
  <2>14. CASE Crashes(h) BY <2>14 DEF Crashes, Goto, xVars, dirs
  <2>15. CASE Relaunches(h) BY <2>15 DEF Relaunches, Goto, xVars, dirs
  <2> QED
    BY <1>1, <2>1, <2>2, <2>3, <2>4, <2>5, <2>6, <2>7, <2>8, <2>9, <2>10, <2>11, <2>12, <2>13,
       <2>14, <2>15 DEF HostMoves
<1>2. ASSUME NEW q \in Procs, ProcStarts(q) \/ ProcEnds(q) PROVE ScreensFollow'
  <2>1. CASE ProcStarts(q) BY <2>1 DEF ProcStarts, xVars, dirs
  <2>2. CASE ProcEnds(q) BY <2>2 DEF ProcEnds, xVars, dirs
  <2> QED BY <1>2, <2>1, <2>2
<1>3. ASSUME NEW h \in Hosts, ProviderStarts(h) \/ ProviderEnds(h) PROVE ScreensFollow'
  <2>1. CASE ProviderStarts(h) BY <2>1, NobodyAssumption DEF ProviderStarts, xVars, dirs
  <2>2. CASE ProviderEnds(h) BY <2>2, NobodyAssumption DEF ProviderEnds, xVars, dirs
  <2> QED BY <1>3, <2>1, <2>2
<1>4. ASSUME NEW p \in Ports, NEW kind \in {"plain", "browser"}, StrangerListens(p, kind)
      PROVE ScreensFollow'
  BY <1>4 DEF StrangerListens, xVars, dirs
<1>5. CASE UNCHANGED core BY <1>5 DEF core
<1> QED BY <1>1, <1>2, <1>3, <1>4, <1>5 DEF CoreStep, Machine

-------------------------------------------------------------------------------
(* The Client: the invariant, part by part.                                *)

\* The Client's state keeps its type (cdp_connection, profile_info).
LEMMA ClientTypesStep ==
  ASSUME ClientTypes, LocksHeld, [Next]_vars
  PROVE  ClientTypes'
<1> USE DEF ClientTypes, Busy, Locks, Ops
<1>1. ASSUME NEW c \in Callers, CallerStep(c) PROVE ClientTypes'
  <2>1. CASE FindsCached(c) BY <2>1 DEF FindsCached, Returns, Moves, gets, waits
  <2>2. CASE NeedsHost(c) BY <2>2 DEF NeedsHost, Returns, Moves, gets, waits, lockOf
  <2>3. CASE Closes(c) BY <2>3 DEF Closes, Returns, Moves, gets, waits
  <2>4. CASE FindsLaunched(c) BY <2>4 DEF FindsLaunched, Returns, Moves, gets, waits
  <2>5. CASE Launches(c) BY <2>5 DEF Launches, Returns, Moves, gets, waits
  <2>6. CASE HostIsReady(c) BY <2>6 DEF HostIsReady, Returns, Moves, gets, waits
  <2>7. CASE LaunchFailed(c) BY <2>7 DEF LaunchFailed, Returns, Moves, gets, waits
  <2>8. CASE Opens(c) BY <2>8 DEF Opens, Returns, Moves, gets, waits
  <2>9. CASE Answers(c) BY <2>9 DEF Answers, Returns, Moves, gets, waits
  <2>10. CASE RequestFails(c) BY <2>10 DEF RequestFails, Returns, Moves, gets, waits
  <2> QED
    BY <1>1, <2>1, <2>2, <2>3, <2>4, <2>5, <2>6, <2>7, <2>8, <2>9, <2>10 DEF CallerStep
<1>2. ASSUME NEW c \in Callers, Cancelled(c) PROVE ClientTypes'
  BY <1>2 DEF Cancelled, Returns, Moves
<1>3. ASSUME NEW c \in Callers, NEW what \in Ops, Calls(c, what) PROVE ClientTypes'
  BY <1>3 DEF Calls, Moves
<1>4. CASE ConnDies BY <1>4 DEF ConnDies
<1>5. CASE DropsClient BY <1>5 DEF DropsClient
<1>6. CASE InlineEnds BY <1>6 DEF InlineEnds
<1>7. CASE UNCHANGED vars BY <1>7 DEF vars, clientVars
<1>8. CASE UNCHANGED clientVars BY <1>8 DEF clientVars
<1> QED BY <1>1, <1>2, <1>3, <1>4, <1>5, <1>6, <1>7, <1>8 DEF Next

\* A guard is dropped with its call (cdp_connection, InlineHost::endpoint).
LEMMA LocksStep ==
  ASSUME ClientTypes, LocksHeld, [Next]_vars
  PROVE  LocksHeld'
<1> USE DEF LocksHeld, ClientTypes, Busy, Locks, lockOf, Ops
<1>1. ASSUME NEW c \in Callers, CallerStep(c) PROVE LocksHeld'
  <2>1. CASE FindsCached(c) BY <2>1, CallersAssumption
                               DEF FindsCached, Returns, Moves, gets, waits, NoCaller
  <2>2. CASE NeedsHost(c) BY <2>2, CallersAssumption
                             DEF NeedsHost, Returns, Moves, gets, waits, NoCaller
  <2>3. CASE Closes(c) BY <2>3, CallersAssumption
                          DEF Closes, Returns, Moves, gets, waits, NoCaller
  <2>4. CASE FindsLaunched(c) BY <2>4, CallersAssumption
                                 DEF FindsLaunched, Returns, Moves, gets, waits, NoCaller
  <2>5. CASE Launches(c) BY <2>5, CallersAssumption
                            DEF Launches, Returns, Moves, gets, waits, NoCaller
  <2>6. CASE HostIsReady(c) BY <2>6, CallersAssumption
                               DEF HostIsReady, Returns, Moves, gets, waits, NoCaller
  <2>7. CASE LaunchFailed(c) BY <2>7, CallersAssumption
                                DEF LaunchFailed, Returns, Moves, gets, waits, NoCaller
  <2>8. CASE Opens(c) BY <2>8, CallersAssumption
                         DEF Opens, Returns, Moves, gets, waits, NoCaller
  <2>9. CASE Answers(c) BY <2>9, CallersAssumption
                           DEF Answers, Returns, Moves, gets, waits, NoCaller
  <2>10. CASE RequestFails(c) BY <2>10, CallersAssumption
                                 DEF RequestFails, Returns, Moves, gets, waits, NoCaller
  <2> QED
    BY <1>1, <2>1, <2>2, <2>3, <2>4, <2>5, <2>6, <2>7, <2>8, <2>9, <2>10 DEF CallerStep
<1>2. ASSUME NEW c \in Callers, Cancelled(c) PROVE LocksHeld'
  BY <1>2, CallersAssumption DEF Cancelled, Returns, Moves, NoCaller
<1>3. ASSUME NEW c \in Callers, NEW what \in Ops, Calls(c, what) PROVE LocksHeld'
  BY <1>3, CallersAssumption DEF Calls, Moves, NoCaller
<1>4. CASE ConnDies BY <1>4 DEF ConnDies
<1>5. CASE DropsClient BY <1>5 DEF DropsClient
<1>6. CASE InlineEnds BY <1>6 DEF InlineEnds
<1>7. CASE UNCHANGED vars BY <1>7 DEF vars, clientVars
<1>8. CASE UNCHANGED clientVars BY <1>8 DEF clientVars
<1> QED BY <1>1, <1>2, <1>3, <1>4, <1>5, <1>6, <1>7, <1>8 DEF Next

\* Only the holder of its mutex opens a connection (cdp_connection).
LEMMA ConnectionStep ==
  ASSUME ClientTypes, LocksHeld, OneConnection, [Next]_vars
  PROVE  OneConnection'
<1> USE DEF OneConnection, LocksHeld, ClientTypes, Busy, Locks, lockOf, Ops
<1>1. ASSUME NEW c \in Callers, CallerStep(c) PROVE OneConnection'
  <2>1. CASE FindsCached(c) BY <2>1, CallersAssumption
                               DEF FindsCached, Returns, Moves, gets, waits, NoCaller
  <2>2. CASE NeedsHost(c) BY <2>2, CallersAssumption
                             DEF NeedsHost, Returns, Moves, gets, waits, NoCaller
  <2>3. CASE Closes(c) BY <2>3, CallersAssumption
                          DEF Closes, Returns, Moves, gets, waits, NoCaller
  <2>4. CASE FindsLaunched(c) BY <2>4, CallersAssumption
                                 DEF FindsLaunched, Returns, Moves, gets, waits, NoCaller
  <2>5. CASE Launches(c) BY <2>5, CallersAssumption
                            DEF Launches, Returns, Moves, gets, waits, NoCaller
  <2>6. CASE HostIsReady(c) BY <2>6, CallersAssumption
                               DEF HostIsReady, Returns, Moves, gets, waits, NoCaller
  <2>7. CASE LaunchFailed(c) BY <2>7, CallersAssumption
                                DEF LaunchFailed, Returns, Moves, gets, waits, NoCaller
  <2>8. CASE Opens(c) BY <2>8, CallersAssumption
                         DEF Opens, Returns, Moves, gets, waits, NoCaller
  <2>9. CASE Answers(c) BY <2>9, CallersAssumption
                           DEF Answers, Returns, Moves, gets, waits, NoCaller
  <2>10. CASE RequestFails(c) BY <2>10, CallersAssumption
                                 DEF RequestFails, Returns, Moves, gets, waits, NoCaller
  <2> QED
    BY <1>1, <2>1, <2>2, <2>3, <2>4, <2>5, <2>6, <2>7, <2>8, <2>9, <2>10 DEF CallerStep
<1>2. ASSUME NEW c \in Callers, Cancelled(c) PROVE OneConnection'
  BY <1>2, CallersAssumption DEF Cancelled, Returns, Moves, NoCaller
<1>3. ASSUME NEW c \in Callers, NEW what \in Ops, Calls(c, what) PROVE OneConnection'
  BY <1>3, CallersAssumption DEF Calls, Moves, NoCaller
<1>4. CASE ConnDies BY <1>4 DEF ConnDies
<1>5. CASE DropsClient BY <1>5 DEF DropsClient
<1>6. CASE InlineEnds BY <1>6 DEF InlineEnds
<1>7. CASE UNCHANGED vars BY <1>7 DEF vars, clientVars
<1>8. CASE UNCHANGED clientVars BY <1>8 DEF clientVars
<1> QED BY <1>1, <1>2, <1>3, <1>4, <1>5, <1>6, <1>7, <1>8 DEF Next

\* A launch goes on only where one was begun or asked for (AppState::launch).
LEMMA ProgressMoves ==
  ASSUME HostTypes, NEW h \in Hosts, HostProgress(h)
  PROVE  /\ stage[h] \in Launching \/ (stage[h] = "idle" /\ h \in asked)
         /\ args' = args /\ asked' = asked
         /\ \E s \in Launching \cup {"serving", "failed"} : stage' = [stage EXCEPT ![h] = s]
<1> USE DEF Launching, Goto, Drops, ProviderKilled, HostTypes
<1>1. CASE LaunchStarts(h) BY <1>1 DEF LaunchStarts
<1>2. CASE PicksDisplay(h) BY <1>2 DEF PicksDisplay
<1>3. CASE SeesDisplay(h) BY <1>3 DEF SeesDisplay
<1>4. CASE DisplayIsUp(h) BY <1>4 DEF DisplayIsUp
<1>5. CASE NoDisplay(h) BY <1>5 DEF NoDisplay
<1>6. CASE LaunchRefused(h) BY <1>6 DEF LaunchRefused
<1>7. CASE ResolvesProfile(h) BY <1>7 DEF ResolvesProfile
<1>8. CASE PicksPort(h) BY <1>8 DEF PicksPort
<1>9. CASE Spawns(h) BY <1>9 DEF Spawns
<1>10. CASE CannotStart(h) BY <1>10 DEF CannotStart
<1>11. CASE Accepts(h) BY <1>11 DEF Accepts
<1>12. CASE Names(h) BY <1>12 DEF Names, NamesItself
<1>13. CASE Connects(h) BY <1>13 DEF Connects
<1>14. CASE LosesAttempt(h) BY <1>14 DEF LosesAttempt, lost
<1>15. CASE Serves(h) BY <1>15 DEF Serves
<1>16. CASE CannotListen(h) BY <1>16 DEF CannotListen
<1> QED
  BY <1>1, <1>2, <1>3, <1>4, <1>5, <1>6, <1>7, <1>8, <1>9, <1>10, <1>11, <1>12, <1>13, <1>14,
     <1>15,
     <1>16 DEF HostProgress

\* One Client has one inline host (InlineHost).
LEMMA OneInline == ASSUME HostTypes, NEW g \in Inline, NEW h \in Inline PROVE g = h
BY InlineAssumption DEF HostTypes, Inline

\* The inline host is launched for a caller that waits and kept while the Client
\* is (InlineHost::endpoint, InlineHostGuard).
LEMMA InlineStep ==
  ASSUME HostTypes, ClientTypes, LocksHeld, InlineFollows, [Next]_vars PROVE InlineFollows'
<1> USE DEF InlineFollows, SomeoneLaunches, ClientTypes, LocksHeld, Busy
<1>0. \A c, d \in Callers : cpc[c] = "launching" /\ cpc[d] = "launching" => c = d OBVIOUS
<1>1. ASSUME NEW c \in Callers, CallerStep(c) PROVE InlineFollows'
  <2>1. CASE FindsCached(c)
    <3>1. UNCHANGED <<args, stage, asked, held, launched>> BY <2>1 DEF FindsCached, hostVars
    <3>2. Inline' = Inline BY <3>1 DEF Inline
    <3>3. cpc[c] # "idle" /\ \E s \in {"idle", "endpoint", "request"} : cpc' = [cpc EXCEPT ![c] = s]
      BY <2>1 DEF FindsCached, Returns, Moves, gets, waits
    <3>4. cpc[c] # "launching" BY <2>1 DEF FindsCached, gets, waits
    <3> QED BY <3>1, <3>2, <3>3, <3>4
  <2>2. CASE NeedsHost(c)
    <3>1. UNCHANGED <<args, stage, asked, held, launched>> BY <2>2 DEF NeedsHost, hostVars
    <3>2. Inline' = Inline BY <3>1 DEF Inline
    <3>3. cpc[c] # "idle" /\ \E s \in {"idle", "endpoint", "request"} : cpc' = [cpc EXCEPT ![c] = s]
      BY <2>2 DEF NeedsHost, Returns, Moves, gets, waits
    <3>4. cpc[c] # "launching" BY <2>2 DEF NeedsHost, gets, waits
    <3> QED BY <3>1, <3>2, <3>3, <3>4
  <2>3. CASE Closes(c)
    <3>1. UNCHANGED <<args, stage, asked, held, launched>> BY <2>3 DEF Closes, hostVars
    <3>2. Inline' = Inline BY <3>1 DEF Inline
    <3>3. cpc[c] # "idle" /\ \E s \in {"idle", "endpoint", "request"} : cpc' = [cpc EXCEPT ![c] = s]
      BY <2>3 DEF Closes, Returns, Moves, gets, waits
    <3>4. cpc[c] # "launching" BY <2>3 DEF Closes, gets, waits
    <3> QED BY <3>1, <3>2, <3>3, <3>4
  <2>4. CASE FindsLaunched(c)
    <3>1. UNCHANGED <<args, stage, asked, held, launched>> BY <2>4 DEF FindsLaunched, hostVars
    <3>2. Inline' = Inline BY <3>1 DEF Inline
    <3>3. cpc[c] # "idle" /\ \E s \in {"idle", "endpoint", "request"} : cpc' = [cpc EXCEPT ![c] = s]
      BY <2>4 DEF FindsLaunched, Returns, Moves, gets, waits
    <3>4. cpc[c] # "launching" BY <2>4 DEF FindsLaunched, gets, waits
    <3> QED BY <3>1, <3>2, <3>3, <3>4
  <2>5. CASE Launches(c)
    <3>1. PICK h \in Inline : asked' = asked \cup {h} /\ Goto(h, "idle") BY <2>5 DEF Launches
    <3>2. \A g \in Inline : g = h BY OneInline
    <3>3. Inline' = Inline /\ launched' = launched /\ held' = held BY <2>5 DEF Launches, Inline
    <3>4. cpc' = [cpc EXCEPT ![c] = "launching"] /\ ~launched BY <2>5 DEF Launches, Moves
    <3>5. stage'[h] = "idle" BY <3>1 DEF Goto, HostTypes, Inline
    <3>6. held BY <2>5 DEF Launches
    <3> QED BY <3>2, <3>3, <3>4, <3>5, <3>6 DEF Launching
  <2>6. CASE HostIsReady(c)
    <3>1. PICK h \in Inline : stage[h] = "serving" BY <2>6 DEF HostIsReady
    <3>2. \A g \in Inline : g = h BY OneInline
    <3>3. Inline' = Inline /\ stage' = stage /\ launched' /\ held' = held
      BY <2>6 DEF HostIsReady, Inline, hostVars
    <3>4. cpc' = [cpc EXCEPT ![c] = "request"] BY <2>6 DEF HostIsReady, Moves
    <3>5. ~SomeoneLaunches' BY <1>0, <2>6, <3>4 DEF HostIsReady
    <3>6. held BY <2>6 DEF HostIsReady
    <3> QED BY <3>1, <3>2, <3>3, <3>4, <3>5, <3>6 DEF Launching
  <2>7. CASE LaunchFailed(c)
    <3>1. PICK h \in Inline : stage[h] = "failed" BY <2>7 DEF LaunchFailed
    <3>2. \A g \in Inline : g = h BY OneInline
    <3>3. Inline' = Inline /\ stage' = stage /\ launched' = launched /\ held' = held
      BY <2>7 DEF LaunchFailed, Inline
    <3>4. cpc' = [cpc EXCEPT ![c] = "idle"] BY <2>7 DEF LaunchFailed, Returns, Moves
    <3>5. held /\ ~launched BY <2>7 DEF LaunchFailed
    <3> QED BY <3>1, <3>2, <3>3, <3>4, <3>5 DEF Launching
  <2>8. CASE Opens(c)
    <3>1. UNCHANGED <<args, stage, asked, held, launched>> BY <2>8 DEF Opens, hostVars
    <3>2. Inline' = Inline BY <3>1 DEF Inline
    <3>3. cpc[c] # "idle" /\ \E s \in {"idle", "endpoint", "request"} : cpc' = [cpc EXCEPT ![c] = s]
      BY <2>8 DEF Opens, Returns, Moves, gets, waits
    <3>4. cpc[c] # "launching" BY <2>8 DEF Opens, gets, waits
    <3> QED BY <3>1, <3>2, <3>3, <3>4
  <2>9. CASE Answers(c)
    <3>1. UNCHANGED <<args, stage, asked, held, launched>> BY <2>9 DEF Answers, hostVars
    <3>2. Inline' = Inline BY <3>1 DEF Inline
    <3>3. cpc[c] # "idle" /\ \E s \in {"idle", "endpoint", "request"} : cpc' = [cpc EXCEPT ![c] = s]
      BY <2>9 DEF Answers, Returns, Moves, gets, waits
    <3>4. cpc[c] # "launching" BY <2>9 DEF Answers, gets, waits
    <3> QED BY <3>1, <3>2, <3>3, <3>4
  <2>10. CASE RequestFails(c)
    <3>1. UNCHANGED <<args, stage, asked, held, launched>> BY <2>10 DEF RequestFails, hostVars
    <3>2. Inline' = Inline BY <3>1 DEF Inline
    <3>3. cpc[c] # "idle" /\ \E s \in {"idle", "endpoint", "request"} : cpc' = [cpc EXCEPT ![c] = s]
      BY <2>10 DEF RequestFails, Returns, Moves, gets, waits
    <3>4. cpc[c] # "launching" BY <2>10 DEF RequestFails, gets, waits
    <3> QED BY <3>1, <3>2, <3>3, <3>4
  <2> QED
    BY <1>1, <2>1, <2>2, <2>3, <2>4, <2>5, <2>6, <2>7, <2>8, <2>9, <2>10 DEF CallerStep
<1>2. ASSUME NEW c \in Callers, Cancelled(c) PROVE InlineFollows'
  <2>1. /\ cpc' = [cpc EXCEPT ![c] = "idle"] /\ cpc[c] # "idle"
        /\ UNCHANGED <<held, launched>> /\ args' = args
    BY <1>2 DEF Cancelled, Returns, Moves, dropsLaunch, hostVars
  <2>2. Inline' = Inline BY <2>1 DEF Inline
  <2>3. CASE carries(c)
    <3>1. PICK h \in Inline : Drops(h, "failed") /\ asked' = asked \ {h}
      BY <1>2, <2>3 DEF Cancelled, dropsLaunch
    <3>2. \A g \in Inline : g = h BY OneInline
    <3>3. stage'[h] = "failed" BY <3>1 DEF Drops, ProviderKilled, Goto, HostTypes, Inline
    <3>4. ~launched /\ held BY <2>1, <2>3 DEF carries
    <3> QED BY <2>1, <2>2, <3>2, <3>3, <3>4 DEF Launching
  <2>4. CASE ~carries(c)
    <3>1. stage' = stage /\ asked' = asked /\ cpc[c] # "launching"
      BY <1>2, <2>4 DEF Cancelled, dropsLaunch, hostVars
    <3> QED BY <2>1, <2>2, <3>1
  <2> QED BY <2>3, <2>4
<1>3. ASSUME NEW c \in Callers, NEW what \in Ops, Calls(c, what) PROVE InlineFollows'
  BY <1>3 DEF Calls, Moves, hostVars, Inline
<1>4. CASE ConnDies BY <1>4 DEF ConnDies, hostVars, Inline
<1>5. CASE DropsClient BY <1>5 DEF DropsClient, hostVars, Inline
<1>6. CASE InlineEnds
  <2>1. PICK h \in Inline : Stops(h) BY <1>6 DEF InlineEnds
  <2>2. \A g \in Inline : g = h BY OneInline
  <2>3. args' = args /\ stage' = [stage EXCEPT ![h] = "down"] /\ asked' = asked
    BY <2>1 DEF Stops, Drops, ProviderKilled, Goto
  <2>4. Inline' = Inline BY <2>3 DEF Inline
  <2>5. stage'[h] = "down" BY <2>3 DEF HostTypes, Inline
  <2> QED BY <1>6, <2>2, <2>4, <2>5 DEF InlineEnds, Launching
<1>7. ASSUME NEW h \in Hosts, HostProgress(h), UNCHANGED clientVars PROVE InlineFollows'
  <2>1. PICK s \in Launching \cup {"serving", "failed"} : stage' = [stage EXCEPT ![h] = s]
    BY <1>7, ProgressMoves
  <2>2. /\ stage[h] \in Launching \/ (stage[h] = "idle" /\ h \in asked)
        /\ Inline' = Inline /\ asked' = asked
    BY <1>7, ProgressMoves DEF Inline
  <2>3. UNCHANGED <<held, cpc, launched>> BY <1>7 DEF clientVars
  <2> QED BY <2>1, <2>2, <2>3 DEF HostTypes, Inline, Launching
<1>8. ASSUME NEW h \in Hosts \ Inline, Stops(h) \/ Crashes(h), UNCHANGED clientVars
      PROVE  InlineFollows'
  <2>1. /\ \A g \in Inline : stage'[g] = stage[g]
        /\ args' = args /\ asked' = asked
    BY <1>8 DEF Stops, Crashes, Drops, ProviderKilled, Goto, HostTypes, Inline
  <2>2. Inline' = Inline BY <2>1 DEF Inline
  <2> QED BY <1>8, <2>1, <2>2 DEF clientVars
<1>9. ASSUME Machine, UNCHANGED clientVars PROVE InlineFollows'
  <2>1. UNCHANGED <<args, stage, asked>>
    BY <1>9 DEF Machine, ProcStarts, ProcEnds, ProviderStarts, ProviderEnds, StrangerListens
  <2> QED BY <1>9, <2>1 DEF clientVars, Inline
<1>10. CASE UNCHANGED vars BY <1>10 DEF vars, hostVars, clientVars, Inline
<1>11. ASSUME NEW h \in Hosts, FoxStarts(h) \/ FoxEnds(h), UNCHANGED clientVars
       PROVE  InlineFollows'
  BY <1>11 DEF FoxStarts, FoxEnds, clientVars, Inline
<1> QED
  BY <1>1, <1>2, <1>3, <1>4, <1>5, <1>6, <1>7, <1>8, <1>9, <1>10, <1>11 DEF Next

-------------------------------------------------------------------------------
(* Hosts and the Client: the theorems.                                     *)

\* What the machine's hosts and the Client's callers keep (AppState::launch,
\* InlineHost::endpoint).
THEOREM MachineInvariant == Spec => []MachineInv
<1>1. Init => MachineInv
  <2> SUFFICES ASSUME Init PROVE MachineInv OBVIOUS
  <2> USE DEF Init, HostInit, ClientInit
  <2>1. HostTypes
    BY TriesAssumption DEF HostTypes, Stages, Procs
  <2>2. OneListens
    BY PortsAssumption DEF OneListens
  <2>3. AttemptsCounted BY DEF AttemptsCounted, Spawned
  <2>4. ProcsInStage BY DEF ProcsInStage, Alive, Procs
  <2>5. DisplayInStage /\ TmpInStage
    BY DEF DisplayInStage, TmpInStage
  <2>6. HolderInStage BY NobodyAssumption DEF HolderInStage
  <2>7. NamedByABrowser /\ ScreensFollow BY DEF NamedByABrowser, ScreensFollow
  <2>8. ClientTypes BY DEF ClientTypes, Ops
  <2>9. LocksHeld BY CallersAssumption DEF LocksHeld, Locks, Busy, NoCaller
  <2>10. OneConnection BY DEF OneConnection, Busy
  <2>11. InlineFollows BY DEF InlineFollows, SomeoneLaunches, Inline, Launching
  <2> QED
    BY <2>1, <2>2, <2>3, <2>4, <2>5, <2>6, <2>7, <2>8, <2>9, <2>10, <2>11
       DEF MachineInv, HostsInv, ClientInv
<1>2. MachineInv /\ [Next]_vars => MachineInv'
  <2> SUFFICES ASSUME MachineInv, [Next]_vars PROVE MachineInv' OBVIOUS
  <2>1. CoreStep BY StepKinds
  <2>2. HostsInv'
    BY <2>1, TypesStep, ListenersStep, AttemptsStep, ProcsStep, DisplaysStep, TmpsStep,
       HoldersStep,
       NamedStep, ScreensStep DEF MachineInv, HostsInv
  <2>3. ClientInv'
    BY ClientTypesStep, LocksStep, ConnectionStep, InlineStep
       DEF MachineInv, HostsInv, ClientInv
  <2> QED BY <2>2, <2>3 DEF MachineInv
<1> QED BY <1>1, <1>2, PTL DEF Spec

\* A launch that failed or a host that ended leaves no process it spawned that was
\* not told to die, no directory it did not try to delete and no lock, and no attempt
\* its browser to the next (chromium.rs, Drop of the handle).
THEOREM NothingIsLeft == Spec => []NothingLeftRunning
<1>1. HostsInv => NothingLeftRunning
  <2> SUFFICES ASSUME HostsInv, NEW h \in Hosts
               PROVE  /\ stage[h] \in Ended =>
                            /\ \A k \in Nth : proc[<<h, k>>] \notin Alive
                            /\ display[h] \notin {"starting", "up"} /\ ~tmp[h]
                            /\ \A p \in Profiles : holder[p] # h
                      /\ stage[h] \in Launching =>
                            \A k \in 1 .. try[h] - 1 : proc[<<h, k>>] \notin Alive
    BY DEF NothingLeftRunning
  <2>1. ASSUME stage[h] \in Ended
        PROVE  /\ \A k \in Nth : proc[<<h, k>>] \notin Alive
               /\ display[h] \notin {"starting", "up"} /\ ~tmp[h]
               /\ \A p \in Profiles : holder[p] # h
    BY <2>1 DEF HostsInv, ProcsInStage, DisplayInStage, TmpInStage, HolderInStage, Ended,
                Spawned,
                Working
  <2>2. ASSUME stage[h] \in Launching, NEW k \in 1 .. try[h] - 1
        PROVE  proc[<<h, k>>] \notin Alive
    <3>1. try[h] \in 0 .. Tries BY DEF HostsInv, HostTypes
    <3>2. k \in Nth /\ k # try[h] BY <2>2, <3>1, TriesAssumption DEF Nth
    <3> QED BY <2>2, <3>2 DEF HostsInv, ProcsInStage, Launching
  <2> QED BY <2>1, <2>2
<1> QED BY <1>1, MachineInvariant, PTL DEF MachineInv

\* A launch goes on to the profile only when its own display is up
\* (launch_kasmvnc_unix).
LEMMA ProfileAfterDisplay ==
  ASSUME HostTypes, CoreStep, NEW h \in Hosts, stage[h] = "web", stage'[h] = "profile"
  PROVE  display[h] = "up"
<1> USE DEF HostTypes, Goto
<1>1. ASSUME NEW g \in Hosts, HostMoves(g) PROVE display[h] = "up"
  <2>1. CASE LaunchStarts(g) BY <2>1 DEF LaunchStarts
  <2>2. CASE PicksDisplay(g) BY <2>2 DEF PicksDisplay
  <2>3. CASE SeesDisplay(g) BY <2>3 DEF SeesDisplay
  <2>4. CASE DisplayIsUp(g) BY <2>4 DEF DisplayIsUp
  <2>5. CASE ResolvesProfile(g) BY <2>5 DEF ResolvesProfile
  <2>6. CASE PicksPort(g) BY <2>6 DEF PicksPort
  <2>7. CASE Spawns(g) BY <2>7 DEF Spawns
  <2>8. CASE Accepts(g) BY <2>8 DEF Accepts
  <2>9. CASE NamesItself(g) BY <2>9 DEF NamesItself
  <2>10. CASE Connects(g) BY <2>10 DEF Connects
  <2>11. CASE Retries(g) BY <2>11 DEF Retries, lost
  <2>12. CASE Serves(g) BY <2>12 DEF Serves
  <2>13. CASE LetsGo(g) BY <2>13 DEF LetsGo, Drops, ProviderKilled, Ended
  <2>14. CASE Crashes(g) BY <2>14 DEF Crashes
  <2>15. CASE Relaunches(g) BY <2>15 DEF Relaunches
  <2> QED
    BY <1>1, <2>1, <2>2, <2>3, <2>4, <2>5, <2>6, <2>7, <2>8, <2>9,
       <2>10, <2>11, <2>12, <2>13, <2>14, <2>15 DEF HostMoves
<1>2. ASSUME Machine \/ UNCHANGED core PROVE FALSE
  BY <1>2
     DEF Machine, ProcStarts, ProcEnds, ProviderStarts, ProviderEnds, StrangerListens, core
<1> QED BY <1>1, <1>2 DEF CoreStep

\* A Chromium host serves no listener that speaks no DevTools, and no launch goes on
\* with a display another host got first (read_chromium_ws_url, launch_kasmvnc_unix).
THEOREM StrangersAreTold == Spec => LaunchesTellStrangers
<1>1. MachineInv' => NoPlainStrangerServed'
  BY DEF MachineInv, HostsInv, NamedByABrowser, NoPlainStrangerServed
<1>2. MachineInv /\ [Next]_vars => GoesOnWithItsScreen
  <2> SUFFICES ASSUME MachineInv, [Next]_vars, NEW h \in Hosts,
                      stage[h] = "web", stage'[h] = "profile"
               PROVE  screen[number[h]] = h
    BY DEF GoesOnWithItsScreen
  <2>1. CoreStep BY StepKinds
  <2>2. display[h] = "up" BY <2>1, ProfileAfterDisplay DEF MachineInv, HostsInv
  <2> QED BY <2>2 DEF MachineInv, HostsInv, ScreensFollow
<1>3. MachineInv /\ MachineInv' /\ [Next]_vars
        => [NoPlainStrangerServed' /\ GoesOnWithItsScreen]_vars
  BY <1>1, <1>2
<1> QED BY <1>3, MachineInvariant, PTL DEF Spec, LaunchesTellStrangers

\* Callers share one connection and one host, and neither is without a caller
\* (cdp_connection, InlineHost::endpoint).
THEOREM CallersShare == Spec => []CallersShareOne
<1>1. MachineInv => ClientTypeOK
  <2> SUFFICES ASSUME MachineInv PROVE ClientTypeOK OBVIOUS
  <2>1. HostTypeOK
    <3>1. ASSUME NEW p \in Ports
          PROVE  Cardinality({q \in Procs : at[q] = p}) + (IF stranger[p] = "no" THEN 0 ELSE 1) <= 1
      <4> DEFINE L == {q \in Procs : at[q] = p}
      <4>1. Cardinality(L) \in {0, 1}
        <5>1. CASE L = {} BY <5>1, FS_EmptySet
        <5>2. CASE L # {}
          <6>1. PICK q \in Procs : q \in L BY <5>2
          <6>2. L = {q} BY <6>1 DEF MachineInv, HostsInv, OneListens
          <6> QED BY <6>2, FS_Singleton
        <5> QED BY <5>1, <5>2
      <4>2. CASE stranger[p] = "no" BY <4>1, <4>2
      <4>3. CASE stranger[p] # "no"
        <5>1. L = {} BY <4>3 DEF MachineInv, HostsInv, OneListens
        <5>2. Cardinality(L) = 0 BY <5>1, FS_EmptySet
        <5> QED BY <4>3, <5>2
      <4> QED BY <4>2, <4>3
    <3>2. \A h \in Hosts : stage[h] \in Launching => try[h] \in 0 .. Tries
      BY DEF MachineInv, HostsInv, HostTypes
    <3> QED BY <3>1, <3>2 DEF HostTypeOK, MachineInv, HostsInv, HostTypes, Stages
  <2>2. open \in 0 .. 2 BY DEF MachineInv, ClientInv, OneConnection
  <2>3. ASSUME NEW l \in Locks PROVE lock[l] = NoCaller \/ cpc[lock[l]] \in Busy
    BY DEF MachineInv, ClientInv, ClientTypes, LocksHeld
  <2> QED BY <2>1, <2>2, <2>3 DEF ClientTypeOK, MachineInv, ClientInv, ClientTypes, Busy
<1>2. MachineInv => OneOpenConnection /\ LaunchHasItsCaller
  BY DEF MachineInv, ClientInv, OneConnection, OneOpenConnection, InlineFollows,
         LaunchHasItsCaller,
         SomeoneLaunches
<1> QED BY <1>1, <1>2, MachineInvariant, PTL DEF CallersShareOne

-------------------------------------------------------------------------------
(* Commands about the container: the inductive invariant.                  *)

Places ==
  {"start", "context", "build", "image", "check", "purge", "stop", "rm", "unimage", "chown", "run",
   "token", "health", "site", "caps", "over"}

ContTypes ==
  /\ runtime \in {"apple", "docker"} /\ con \in ContainerRecord /\ handmade \subseteq Tags
  /\ images \in [Tags -> (SUBSET Components) \cup {NoImage}]
  /\ volume \in [made : BOOLEAN, owned : BOOLEAN, token : BOOLEAN]
  /\ cmd \in [Commands -> Asked]
  /\ \A p \in Commands : cmd[p].kind = "install" => cmd[p].port # None
  /\ where \in [Commands -> Places] /\ tries \in [Commands -> 0 .. TokenTries + HealthTries]
  /\ saw \in [Commands -> ContainerRecord] /\ checked \in [Commands -> ContainerRecord]
  /\ talksTo \in [Commands -> Published] /\ events \in Nat
  /\ sentTo \in [Commands -> SUBSET Published] /\ published \in [Commands -> SUBSET Published]
  /\ outcome = [p \in Commands |-> outcome[p]]

OverHasOutcome == \A p \in Commands : outcome[p] # None <=> where[p] = "over"

InstallPlaces ==
  \A p \in Commands :
    where[p] \in {"context", "build", "image", "chown", "run"} => cmd[p].kind = "install"

\* Whom a command talks to published that port while it ran.
PortsKnown ==
  \A p \in Commands :
    /\ sentTo[p] \subseteq published[p] \ {None}
    /\ con.port # None => con.port \in published[p]
    /\ talksTo[p] # None => talksTo[p] \in published[p]
    /\ where[p] \in {"site", "caps"} => talksTo[p] # None
    /\ where[p] \in {"token", "health"} /\ cmd[p].kind = "install" => talksTo[p] # None

\* An image that afhttp built holds what its tag says.
ImagesAsTagged == \A t \in Tags \ handmade : images[t] \in {t, NoImage}

\* A container that a command made is what it asked for.
MadeAsAsked ==
  \A p \in Commands : con.by = p =>
    /\ where[p] \in {"token", "health", "site", "caps", "over"}
    /\ con.browser = browserOf(cmd[p])
    /\ con.own => con.content = wanted(cmd[p])

TakeoverWhole ==
  \A p \in Commands : outcome[p] = "installed" /\ con.by = p /\ cmd[p].takeover =>
    {browserOf(cmd[p]), "kasmvnc"} \subseteq con.content

\* Who is past the check saw no other program's container.
CheckedOwn ==
  \A p \in Commands : where[p] \in {"purge", "stop", "rm"} => ~checked[p].foreign

\* Undisturbed, a purge knows the image of what it removes until it has removed it.
PurgeKnows ==
  \A p \in Commands : Alone(p) /\ cmd[p].purge /\ checked[p] # NoCon =>
    /\ where[p] = "purge" => con # NoCon /\ con.image = checked[p].image
    /\ where[p] \in {"stop", "rm", "unimage"} =>
         /\ con # NoCon => con.image = checked[p].image
         /\ saw[p] # NoCon => saw[p].image = checked[p].image
    /\ outcome[p] = "removed" /\ con = NoCon /\ saw[p] # NoCon => images[checked[p].image] = NoImage

ContInv ==
  /\ ContTypes /\ OverHasOutcome /\ InstallPlaces /\ PortsKnown /\ ImagesAsTagged /\ MadeAsAsked
  /\ TakeoverWhole /\ CheckedOwn /\ PurgeKnows

-------------------------------------------------------------------------------
(* Commands: the invariant, part by part.                                  *)

SameBox(d, c) ==
  /\ d.image = c.image /\ d.content = c.content /\ d.own = c.own /\ d.port = c.port
  /\ d.foreign = c.foreign /\ d.browser = c.browser /\ d.by = c.by
Stopped(c) == [c EXCEPT !.running = FALSE]
Healthy(c, h) == [c EXCEPT !.health = h]
PeoplesBox == [Settled EXCEPT !.foreign = TRUE, !.by = "people"]

\* What there may be is a container's record (inspection.rs).
LEMMA KnownRecords ==
  /\ NoCon \in ContainerRecord /\ NoCon.by = None /\ NoCon.port = None /\ ~NoCon.foreign
  /\ PeoplesBox \in ContainerRecord /\ PeoplesBox.by = "people" /\ PeoplesBox.port = "9222"
BY DEF NoCon, Settled, PeoplesBox, Usual, ContainerRecord, Tags, Components, TakeoverBrowsers,
       Published, Browsers,
       Healths, Makers, None

\* What happens to a container leaves it one and what it was made of
\* (inspection.rs).
LEMMA RecordKept ==
  ASSUME NEW c \in ContainerRecord
  PROVE  /\ Stopped(c) \in ContainerRecord /\ SameBox(Stopped(c), c)
         /\ \A h \in Healths \ {None} :
              Healthy(c, h) \in ContainerRecord /\ SameBox(Healthy(c, h), c)
         /\ c.port \in Published /\ c.image \in Tags /\ SameBox(c, c)
BY DEF ContainerRecord, Stopped, Healthy, SameBox

\* What has run is not nothing (inspection.rs).
LEMMA HasRun ==
  ASSUME NEW c \in ContainerRecord
  PROVE  /\ c # NoCon => Stopped(c) # NoCon
         /\ c.health # None => Stopped(c) # NoCon
         /\ \A h \in Healths \ {None} : Healthy(c, h) # NoCon
<1>1. c.health # None => Stopped(c) # NoCon BY DEF ContainerRecord, Stopped, NoCon
<1>2. \A h \in Healths \ {None} : Healthy(c, h) # NoCon BY DEF ContainerRecord, Healthy, NoCon
<1>3. c.health = None => Stopped(c) = c BY DEF ContainerRecord, Stopped
<1> QED BY <1>1, <1>2, <1>3

\* What is asked for are components, and a browser (validate_install_args).
LEMMA WantedIsTag ==
  ASSUME NEW c \in Asked
  PROVE  wanted(c) \in Tags /\ image_tag(c) \in Tags /\ browserOf(c) \in Browsers
<1>1. selected_takeover_backend(c) \in TakeoverBrowsers
  BY DEF selected_takeover_backend, TakeoverBrowsers
<1>2. wanted(c) \in Tags BY <1>1 DEF wanted, Tags, Components, Asked, TakeoverBrowsers
<1>3. browserOf(c) \in Browsers BY <1>1 DEF browserOf, Browsers, Asked, TakeoverBrowsers
<1> QED BY <1>2, <1>3 DEF image_tag

\* What run is told makes a container (run_args).
LEMMA RunRecord ==
  ASSUME ContTypes, NEW p \in Commands, image_exists(image_tag(cmd[p]))
  PROVE  /\ run_args(p) \in ContainerRecord
         /\ run_args(p).by = p /\ run_args(p).port = cmd[p].port
         /\ run_args(p).browser = browserOf(cmd[p])
         /\ run_args(p).content = images[image_tag(cmd[p])]
         /\ run_args(p).own <=> image_tag(cmd[p]) \notin handmade
<1>1. cmd[p] \in Asked /\ cmd[p].port \in Published BY DEF ContTypes, Asked
<1>2. image_tag(cmd[p]) \in Tags /\ browserOf(cmd[p]) \in Browsers BY <1>1, WantedIsTag
<1>3. images[image_tag(cmd[p])] \in (SUBSET Components) \cup {NoImage} BY <1>2 DEF ContTypes
<1> QED
  BY <1>1, <1>2, <1>3
     DEF run_args, NoCon, ContainerRecord, Published, Healths, NoImage, Makers, None

\* What happens to the container keeps the types (podman, docker or container).
LEMMA HappensTypes ==
  ASSUME ContTypes, NEW c \in ContainerRecord, Happens(c) PROVE ContTypes'
<1>1. c.port \in Published BY RecordKept
<1> QED BY <1>1 DEF ContTypes, Happens, Publishes, engine, procs

\* What the runtime and the commands keep keeps its type (container.rs).
LEMMA ContTypesStep ==
  ASSUME ContTypes, [ContNext]_contVars
  PROVE  ContTypes'
<1> USE DEF ContTypes, Places, Published, None, engine, procs, Goes, Ends
<1>1. ASSUME NEW p \in Commands, Acts(p) PROVE ContTypes'
  <2>1. CASE InstallStarts(p) BY <2>1 DEF InstallStarts
  <2>2. CASE WritesContext(p) BY <2>2 DEF WritesContext
  <2>3. CASE Builds(p)
    <3>1. image_tag(cmd[p]) \in Tags /\ wanted(cmd[p]) \in SUBSET Components
      BY WantedIsTag DEF Tags
    <3>2. images' \in [Tags -> (SUBSET Components) \cup {NoImage}] BY <2>3, <3>1 DEF Builds
    <3> QED BY <2>3, <3>2 DEF Builds
  <2>4. CASE ChecksImage(p) BY <2>4 DEF ChecksImage
  <2>5. CASE UninstallStarts(p) BY <2>5 DEF UninstallStarts
  <2>6. CASE ChecksForeign(p) BY <2>6, KnownRecords DEF ChecksForeign, Inspected, Refuses
  <2>7. CASE LooksUpImage(p) BY <2>7, KnownRecords DEF LooksUpImage, Inspected
  <2>8. CASE StopsContainer(p) BY <2>8, RecordKept DEF StopsContainer, Stopped
  <2>9. CASE Removes(p) BY <2>9, KnownRecords DEF Removes
  <2>10. CASE RemovesImage(p) BY <2>10 DEF RemovesImage
  <2>11. CASE GivesVolume(p)
    <3>1. volume' \in [made : BOOLEAN, owned : BOOLEAN, token : BOOLEAN]
      BY <2>11 DEF GivesVolume
    <3> QED BY <2>11, <3>1 DEF GivesVolume
  <2>12. CASE Runs(p)
    <3>1. CASE where'[p] = "token"
      <4>1. /\ con' = run_args(p) /\ image_exists(image_tag(cmd[p]))
            /\ published' = [q \in Commands |-> published[q] \cup {con'.port}]
            /\ talksTo' = [talksTo EXCEPT ![p] = cmd[p].port] /\ outcome' = outcome
        BY <2>12, <3>1 DEF Runs, Publishes
      <4>2. con' \in ContainerRecord /\ con'.port \in Published BY <4>1, RunRecord, RecordKept
      <4>3. cmd[p].port \in Published BY DEF Asked
      <4>4. volume' \in [made : BOOLEAN, owned : BOOLEAN, token : BOOLEAN] BY <2>12 DEF Runs
      <4> QED BY <2>12, <4>1, <4>2, <4>3, <4>4 DEF Runs
    <3>2. CASE where'[p] # "token" BY <2>12, <3>2 DEF Runs
    <3> QED BY <3>1, <3>2
  <2>13. CASE ReadsToken(p)
    <3>1. tries' \in [Commands -> 0 .. TokenTries + HealthTries]
      BY <2>13, RoundsAssumption DEF ReadsToken, Waits, Next1, noToken
    <3> QED BY <2>13, <3>1 DEF ReadsToken, Waits, Next1, noToken
  <2>14. CASE AwaitsHealth(p)
    <3>1. tries' \in [Commands -> 0 .. TokenTries + HealthTries]
      BY <2>14, RoundsAssumption DEF AwaitsHealth, Waits, Next1, Unhappy
    <3>2. sentTo' \in [Commands -> SUBSET Published] BY <2>14 DEF AwaitsHealth, Asks
    <3> QED BY <2>14, <3>1, <3>2 DEF AwaitsHealth, Waits, Next1, Unhappy
  <2>15. CASE ChecksSite(p) BY <2>15 DEF ChecksSite, Asks
  <2>16. CASE LooksUp(p)
    <3>1. PICK c \in {con, NoCon} : /\ saw' = [saw EXCEPT ![p] = c]
                                    /\ talksTo' = [talksTo EXCEPT ![p] = c.port]
      BY <2>16 DEF LooksUp, Inspected, publishedPort
    <3>2. c \in ContainerRecord /\ c.port \in Published BY KnownRecords, RecordKept
    <3>3. where' \in [Commands -> Places] /\ outcome' = [q \in Commands |-> outcome'[q]]
      BY <2>16 DEF LooksUp
    <3> QED BY <2>16, <3>1, <3>2, <3>3 DEF LooksUp
  <2>17. CASE AsksOnce(p) BY <2>17, KnownRecords DEF AsksOnce, Asks
  <2>18. CASE AsksCapabilities(p) BY <2>18 DEF AsksCapabilities, Asks
  <2>19. CASE ReadsHostToken(p) BY <2>19 DEF ReadsHostToken
  <2> QED
    BY <1>1, <2>1, <2>2, <2>3, <2>4, <2>5, <2>6, <2>7, <2>8, <2>9,
       <2>10, <2>11, <2>12, <2>13, <2>14, <2>15, <2>16, <2>17, <2>18, <2>19 DEF Acts
<1>2. CASE HostBoots
  <2>0. con' = Healthy(con, "starting") \/ con' = Stopped(con)
    BY <1>2 DEF HostBoots, Healthy, Stopped
  <2>1. con' \in ContainerRecord
    <3>1. con \in ContainerRecord OBVIOUS
    <3>2. Healthy(con, "starting") \in ContainerRecord /\ Stopped(con) \in ContainerRecord
      BY <3>1, RecordKept DEF Healths
    <3> QED BY <2>0, <3>2
  <2>2. volume' \in [made : BOOLEAN, owned : BOOLEAN, token : BOOLEAN] BY <1>2 DEF HostBoots
  <2> QED BY <1>2, <2>1, <2>2 DEF HostBoots
<1>3. CASE BrowserComes BY <1>3, RecordKept DEF BrowserComes, Healthy, Healths, None
<1>4. CASE ProbeMissed
  <2>1. Happens(Healthy(con, "degraded")) BY <1>4 DEF ProbeMissed, Healthy
  <2>2. Healthy(con, "degraded") \in ContainerRecord BY RecordKept DEF Healths
  <2> QED BY <2>1, <2>2, HappensTypes
<1>5. CASE HostExits
  <2>1. Happens(Stopped(con)) BY <1>5 DEF HostExits, Stopped
  <2>2. Stopped(con) \in ContainerRecord BY RecordKept
  <2> QED BY <2>1, <2>2, HappensTypes
<1>6. CASE SomeoneRuns
  <2>1. Happens(PeoplesBox) BY <1>6 DEF SomeoneRuns, PeoplesBox
  <2> QED BY <2>1, KnownRecords, HappensTypes
<1>7. CASE SomeoneRemoves
  <2>1. Happens(NoCon) BY <1>7 DEF SomeoneRemoves
  <2> QED BY <2>1, KnownRecords, HappensTypes
<1>8. CASE UNCHANGED contVars BY <1>8 DEF contVars
<1> QED BY <1>1, <1>2, <1>3, <1>4, <1>5, <1>6, <1>7, <1>8 DEF ContNext

\* A command that is over has an outcome, and only that (container.rs).
LEMMA OutcomeStep ==
  ASSUME ContTypes, OverHasOutcome, [ContNext]_contVars
  PROVE  OverHasOutcome'
<1> USE DEF OverHasOutcome, ContTypes, None, engine, procs, Goes, Ends
<1>1. ASSUME NEW p \in Commands, Acts(p) PROVE OverHasOutcome'
  <2>1. CASE InstallStarts(p) BY <2>1 DEF InstallStarts
  <2>2. CASE WritesContext(p) BY <2>2 DEF WritesContext
  <2>3. CASE Builds(p) BY <2>3 DEF Builds
  <2>4. CASE ChecksImage(p) BY <2>4 DEF ChecksImage
  <2>5. CASE UninstallStarts(p) BY <2>5 DEF UninstallStarts
  <2>6. CASE ChecksForeign(p) BY <2>6 DEF ChecksForeign, Inspected, Refuses
  <2>7. CASE LooksUpImage(p) BY <2>7 DEF LooksUpImage, Inspected
  <2>8. CASE StopsContainer(p) BY <2>8 DEF StopsContainer
  <2>9. CASE Removes(p) BY <2>9 DEF Removes
  <2>10. CASE RemovesImage(p) BY <2>10 DEF RemovesImage
  <2>11. CASE GivesVolume(p) BY <2>11 DEF GivesVolume
  <2>12. CASE Runs(p) BY <2>12 DEF Runs, run_args, Publishes
  <2>13. CASE ReadsToken(p) BY <2>13 DEF ReadsToken, Waits, Next1, noToken
  <2>14. CASE AwaitsHealth(p) BY <2>14 DEF AwaitsHealth, Waits, Next1, Unhappy, Asks
  <2>15. CASE ChecksSite(p) BY <2>15 DEF ChecksSite, Asks
  <2>16. CASE LooksUp(p) BY <2>16 DEF LooksUp, Inspected, publishedPort
  <2>17. CASE AsksOnce(p) BY <2>17 DEF AsksOnce, Asks
  <2>18. CASE AsksCapabilities(p) BY <2>18 DEF AsksCapabilities, Asks
  <2>19. CASE ReadsHostToken(p) BY <2>19 DEF ReadsHostToken
  <2> QED
    BY <1>1, <2>1, <2>2, <2>3, <2>4, <2>5, <2>6, <2>7, <2>8, <2>9,
       <2>10, <2>11, <2>12, <2>13, <2>14, <2>15, <2>16, <2>17, <2>18, <2>19 DEF Acts
<1>2. CASE HostBoots BY <1>2 DEF HostBoots
<1>3. CASE BrowserComes BY <1>3 DEF BrowserComes
<1>4. CASE ProbeMissed BY <1>4 DEF ProbeMissed, Happens, Publishes
<1>5. CASE HostExits BY <1>5 DEF HostExits, Happens, Publishes
<1>6. CASE SomeoneRuns BY <1>6 DEF SomeoneRuns, Happens, Publishes
<1>7. CASE SomeoneRemoves BY <1>7 DEF SomeoneRemoves, Happens, Publishes
<1>8. CASE UNCHANGED contVars BY <1>8 DEF contVars
<1> QED BY <1>1, <1>2, <1>3, <1>4, <1>5, <1>6, <1>7, <1>8 DEF ContNext

\* Only install makes images and containers (run_install).
LEMMA InstallStep ==
  ASSUME ContTypes, InstallPlaces, [ContNext]_contVars
  PROVE  InstallPlaces'
<1> USE DEF InstallPlaces, ContTypes, engine, procs, Goes, Ends
<1>1. ASSUME NEW p \in Commands, Acts(p) PROVE InstallPlaces'
  <2>1. CASE InstallStarts(p) BY <2>1 DEF InstallStarts
  <2>2. CASE WritesContext(p) BY <2>2 DEF WritesContext
  <2>3. CASE Builds(p) BY <2>3 DEF Builds
  <2>4. CASE ChecksImage(p) BY <2>4 DEF ChecksImage
  <2>5. CASE UninstallStarts(p) BY <2>5 DEF UninstallStarts
  <2>6. CASE ChecksForeign(p) BY <2>6 DEF ChecksForeign, Inspected, Refuses
  <2>7. CASE LooksUpImage(p) BY <2>7 DEF LooksUpImage, Inspected
  <2>8. CASE StopsContainer(p) BY <2>8 DEF StopsContainer
  <2>9. CASE Removes(p) BY <2>9 DEF Removes
  <2>10. CASE RemovesImage(p) BY <2>10 DEF RemovesImage
  <2>11. CASE GivesVolume(p) BY <2>11 DEF GivesVolume
  <2>12. CASE Runs(p) BY <2>12 DEF Runs, run_args, Publishes
  <2>13. CASE ReadsToken(p) BY <2>13 DEF ReadsToken, Waits, Next1, noToken
  <2>14. CASE AwaitsHealth(p) BY <2>14 DEF AwaitsHealth, Waits, Next1, Unhappy, Asks
  <2>15. CASE ChecksSite(p) BY <2>15 DEF ChecksSite, Asks
  <2>16. CASE LooksUp(p) BY <2>16 DEF LooksUp, Inspected, publishedPort
  <2>17. CASE AsksOnce(p) BY <2>17 DEF AsksOnce, Asks
  <2>18. CASE AsksCapabilities(p) BY <2>18 DEF AsksCapabilities, Asks
  <2>19. CASE ReadsHostToken(p) BY <2>19 DEF ReadsHostToken
  <2> QED
    BY <1>1, <2>1, <2>2, <2>3, <2>4, <2>5, <2>6, <2>7, <2>8, <2>9,
       <2>10, <2>11, <2>12, <2>13, <2>14, <2>15, <2>16, <2>17, <2>18, <2>19 DEF Acts
<1>2. CASE HostBoots BY <1>2 DEF HostBoots
<1>3. CASE BrowserComes BY <1>3 DEF BrowserComes
<1>4. CASE ProbeMissed BY <1>4 DEF ProbeMissed, Happens, Publishes
<1>5. CASE HostExits BY <1>5 DEF HostExits, Happens, Publishes
<1>6. CASE SomeoneRuns BY <1>6 DEF SomeoneRuns, Happens, Publishes
<1>7. CASE SomeoneRemoves BY <1>7 DEF SomeoneRemoves, Happens, Publishes
<1>8. CASE UNCHANGED contVars BY <1>8 DEF contVars
<1> QED BY <1>1, <1>2, <1>3, <1>4, <1>5, <1>6, <1>7, <1>8 DEF ContNext

\* A command talks to a published port (published_port).
LEMMA PortsStep ==
  ASSUME ContTypes, InstallPlaces, PortsKnown, [ContNext]_contVars
  PROVE  PortsKnown'
<1> USE DEF PortsKnown, InstallPlaces, ContTypes, engine, procs, Goes, Ends
<1>1. ASSUME NEW p \in Commands, Acts(p) PROVE PortsKnown'
  <2>1. CASE InstallStarts(p) BY <2>1 DEF InstallStarts
  <2>2. CASE WritesContext(p) BY <2>2 DEF WritesContext
  <2>3. CASE Builds(p) BY <2>3 DEF Builds
  <2>4. CASE ChecksImage(p) BY <2>4 DEF ChecksImage
  <2>5. CASE UninstallStarts(p) BY <2>5 DEF UninstallStarts
  <2>6. CASE ChecksForeign(p) BY <2>6 DEF ChecksForeign, Inspected, Refuses
  <2>7. CASE LooksUpImage(p) BY <2>7 DEF LooksUpImage, Inspected
  <2>8. CASE StopsContainer(p)
    <3>1. SameBox(con', con) BY <2>8, RecordKept DEF StopsContainer, Stopped
    <3> QED BY <2>8, <3>1 DEF StopsContainer, SameBox
  <2>9. CASE Removes(p) BY <2>9, KnownRecords, CommandsAssumption DEF Removes, Makers
  <2>10. CASE RemovesImage(p) BY <2>10 DEF RemovesImage
  <2>11. CASE GivesVolume(p) BY <2>11 DEF GivesVolume
  <2>12. CASE Runs(p)
    <3>1. CASE where'[p] = "token"
      <4>1. /\ con' = run_args(p) /\ image_exists(image_tag(cmd[p]))
            /\ published' = [q \in Commands |-> published[q] \cup {con'.port}]
            /\ talksTo' = [talksTo EXCEPT ![p] = cmd[p].port]
            /\ where' = [where EXCEPT ![p] = "token"]
        BY <2>12, <3>1 DEF Runs, Publishes
      <4>2. con'.port = cmd[p].port BY <4>1, RunRecord
      <4>3. cmd[p].port # None BY <2>12 DEF Runs
      <4> QED BY <2>12, <4>1, <4>2, <4>3 DEF Runs
    <3>2. CASE where'[p] # "token" BY <2>12, <3>2 DEF Runs
    <3> QED BY <3>1, <3>2
  <2>13. CASE ReadsToken(p) BY <2>13 DEF ReadsToken, Waits, Next1, noToken
  <2>14. CASE AwaitsHealth(p) BY <2>14 DEF AwaitsHealth, Waits, Next1, Unhappy, Asks
  <2>15. CASE ChecksSite(p) BY <2>15 DEF ChecksSite, Asks
  <2>16. CASE LooksUp(p) BY <2>16, KnownRecords DEF LooksUp, Inspected, publishedPort
  <2>17. CASE AsksOnce(p) BY <2>17 DEF AsksOnce, Asks
  <2>18. CASE AsksCapabilities(p) BY <2>18 DEF AsksCapabilities, Asks
  <2>19. CASE ReadsHostToken(p) BY <2>19 DEF ReadsHostToken
  <2> QED
    BY <1>1, <2>1, <2>2, <2>3, <2>4, <2>5, <2>6, <2>7, <2>8, <2>9,
       <2>10, <2>11, <2>12, <2>13, <2>14, <2>15, <2>16, <2>17, <2>18, <2>19 DEF Acts
<1>2. CASE HostBoots
  <2>0. con' = Healthy(con, "starting") \/ con' = Stopped(con)
    BY <1>2 DEF HostBoots, Healthy, Stopped
  <2>1. SameBox(con', con) BY <2>0, RecordKept DEF Healths, None
  <2> QED BY <1>2, <2>1 DEF HostBoots, SameBox
<1>3. CASE BrowserComes
  <2>1. SameBox(con', con) BY <1>3, RecordKept DEF BrowserComes, Healthy, Healths, None
  <2> QED BY <1>3, <2>1 DEF BrowserComes, SameBox
<1>4. CASE ProbeMissed
  <2>1. SameBox(con', con) BY <1>4, RecordKept DEF ProbeMissed, Happens, Healthy, Healths, None
  <2> QED BY <1>4, <2>1 DEF ProbeMissed, Happens, Publishes, SameBox
<1>5. CASE HostExits
  <2>1. SameBox(con', con) BY <1>5, RecordKept DEF HostExits, Happens, Stopped
  <2> QED BY <1>5, <2>1 DEF HostExits, Happens, Publishes, SameBox
<1>6. CASE SomeoneRuns
  <2>1. con' = PeoplesBox BY <1>6 DEF SomeoneRuns, Happens, PeoplesBox
  <2> QED
    BY <1>6, <2>1, KnownRecords, CommandsAssumption DEF SomeoneRuns, Happens, Publishes, Makers
<1>7. CASE SomeoneRemoves BY <1>7, KnownRecords, CommandsAssumption
                             DEF SomeoneRemoves, Happens, Publishes, Makers
<1>8. CASE UNCHANGED contVars BY <1>8 DEF contVars
<1> QED BY <1>1, <1>2, <1>3, <1>4, <1>5, <1>6, <1>7, <1>8 DEF ContNext

\* A tag spells what its image was built with (image_tag).
LEMMA TaggedStep ==
  ASSUME ContTypes, ImagesAsTagged, [ContNext]_contVars
  PROVE  ImagesAsTagged'
<1> USE DEF ImagesAsTagged, ContTypes, engine, procs, Goes, Ends
<1>1. ASSUME NEW p \in Commands, Acts(p) PROVE ImagesAsTagged'
  <2>1. CASE InstallStarts(p) BY <2>1 DEF InstallStarts
  <2>2. CASE WritesContext(p) BY <2>2 DEF WritesContext
  <2>3. CASE Builds(p) BY <2>3 DEF Builds, image_tag
  <2>4. CASE ChecksImage(p) BY <2>4 DEF ChecksImage
  <2>5. CASE UninstallStarts(p) BY <2>5 DEF UninstallStarts
  <2>6. CASE ChecksForeign(p) BY <2>6 DEF ChecksForeign, Inspected, Refuses
  <2>7. CASE LooksUpImage(p) BY <2>7 DEF LooksUpImage, Inspected
  <2>8. CASE StopsContainer(p) BY <2>8 DEF StopsContainer
  <2>9. CASE Removes(p) BY <2>9 DEF Removes
  <2>10. CASE RemovesImage(p) BY <2>10 DEF RemovesImage
  <2>11. CASE GivesVolume(p) BY <2>11 DEF GivesVolume
  <2>12. CASE Runs(p) BY <2>12 DEF Runs, run_args, Publishes
  <2>13. CASE ReadsToken(p) BY <2>13 DEF ReadsToken, Waits, Next1, noToken
  <2>14. CASE AwaitsHealth(p) BY <2>14 DEF AwaitsHealth, Waits, Next1, Unhappy, Asks
  <2>15. CASE ChecksSite(p) BY <2>15 DEF ChecksSite, Asks
  <2>16. CASE LooksUp(p) BY <2>16 DEF LooksUp, Inspected, publishedPort
  <2>17. CASE AsksOnce(p) BY <2>17 DEF AsksOnce, Asks
  <2>18. CASE AsksCapabilities(p) BY <2>18 DEF AsksCapabilities, Asks
  <2>19. CASE ReadsHostToken(p) BY <2>19 DEF ReadsHostToken
  <2> QED
    BY <1>1, <2>1, <2>2, <2>3, <2>4, <2>5, <2>6, <2>7, <2>8, <2>9,
       <2>10, <2>11, <2>12, <2>13, <2>14, <2>15, <2>16, <2>17, <2>18, <2>19 DEF Acts
<1>2. CASE HostBoots BY <1>2 DEF HostBoots
<1>3. CASE BrowserComes BY <1>3 DEF BrowserComes
<1>4. CASE ProbeMissed BY <1>4 DEF ProbeMissed, Happens, Publishes
<1>5. CASE HostExits BY <1>5 DEF HostExits, Happens, Publishes
<1>6. CASE SomeoneRuns BY <1>6 DEF SomeoneRuns, Happens, Publishes
<1>7. CASE SomeoneRemoves BY <1>7 DEF SomeoneRemoves, Happens, Publishes
<1>8. CASE UNCHANGED contVars BY <1>8 DEF contVars
<1> QED BY <1>1, <1>2, <1>3, <1>4, <1>5, <1>6, <1>7, <1>8 DEF ContNext

\* A container is what run was told (run_args).
LEMMA MadeStep ==
  ASSUME ContTypes, ImagesAsTagged, MadeAsAsked, [ContNext]_contVars
  PROVE  MadeAsAsked'
<1> USE DEF MadeAsAsked, ImagesAsTagged, ContTypes, engine, procs, Goes, Ends
<1>1. ASSUME NEW p \in Commands, Acts(p) PROVE MadeAsAsked'
  <2>1. CASE InstallStarts(p) BY <2>1 DEF InstallStarts
  <2>2. CASE WritesContext(p) BY <2>2 DEF WritesContext
  <2>3. CASE Builds(p) BY <2>3 DEF Builds
  <2>4. CASE ChecksImage(p) BY <2>4 DEF ChecksImage
  <2>5. CASE UninstallStarts(p) BY <2>5 DEF UninstallStarts
  <2>6. CASE ChecksForeign(p) BY <2>6 DEF ChecksForeign, Inspected, Refuses
  <2>7. CASE LooksUpImage(p) BY <2>7 DEF LooksUpImage, Inspected
  <2>8. CASE StopsContainer(p)
    <3>1. SameBox(con', con) BY <2>8, RecordKept DEF StopsContainer, Stopped
    <3> QED BY <2>8, <3>1 DEF StopsContainer, SameBox
  <2>9. CASE Removes(p) BY <2>9, KnownRecords, CommandsAssumption DEF Removes, Makers
  <2>10. CASE RemovesImage(p) BY <2>10 DEF RemovesImage
  <2>11. CASE GivesVolume(p) BY <2>11 DEF GivesVolume
  <2>12. CASE Runs(p)
    <3>1. CASE where'[p] = "token"
      <4>1. /\ con' = run_args(p) /\ image_exists(image_tag(cmd[p])) /\ cmd' = cmd
            /\ where' = [where EXCEPT ![p] = "token"]
        BY <2>12, <3>1 DEF Runs
      <4>2. /\ con'.by = p /\ con'.browser = browserOf(cmd[p])
            /\ con'.content = images[image_tag(cmd[p])]
            /\ con'.own => image_tag(cmd[p]) \in Tags \ handmade
        BY <4>1, RunRecord, WantedIsTag
      <4>3. con'.own => con'.content = wanted(cmd[p])
        BY <4>1, <4>2 DEF image_exists, image_tag
      <4> QED BY <4>1, <4>2, <4>3
    <3>2. CASE where'[p] # "token" BY <2>12, <3>2 DEF Runs
    <3> QED BY <3>1, <3>2
  <2>13. CASE ReadsToken(p) BY <2>13 DEF ReadsToken, Waits, Next1, noToken
  <2>14. CASE AwaitsHealth(p) BY <2>14 DEF AwaitsHealth, Waits, Next1, Unhappy, Asks
  <2>15. CASE ChecksSite(p) BY <2>15 DEF ChecksSite, Asks
  <2>16. CASE LooksUp(p) BY <2>16 DEF LooksUp, Inspected, publishedPort
  <2>17. CASE AsksOnce(p) BY <2>17 DEF AsksOnce, Asks
  <2>18. CASE AsksCapabilities(p) BY <2>18 DEF AsksCapabilities, Asks
  <2>19. CASE ReadsHostToken(p) BY <2>19 DEF ReadsHostToken
  <2> QED
    BY <1>1, <2>1, <2>2, <2>3, <2>4, <2>5, <2>6, <2>7, <2>8, <2>9,
       <2>10, <2>11, <2>12, <2>13, <2>14, <2>15, <2>16, <2>17, <2>18, <2>19 DEF Acts
<1>2. CASE HostBoots
  <2>0. con' = Healthy(con, "starting") \/ con' = Stopped(con)
    BY <1>2 DEF HostBoots, Healthy, Stopped
  <2>1. SameBox(con', con) BY <2>0, RecordKept DEF Healths, None
  <2> QED BY <1>2, <2>1 DEF HostBoots, SameBox
<1>3. CASE BrowserComes
  <2>1. SameBox(con', con) BY <1>3, RecordKept DEF BrowserComes, Healthy, Healths, None
  <2> QED BY <1>3, <2>1 DEF BrowserComes, SameBox
<1>4. CASE ProbeMissed
  <2>1. SameBox(con', con) BY <1>4, RecordKept DEF ProbeMissed, Happens, Healthy, Healths, None
  <2> QED BY <1>4, <2>1 DEF ProbeMissed, Happens, Publishes, SameBox
<1>5. CASE HostExits
  <2>1. SameBox(con', con) BY <1>5, RecordKept DEF HostExits, Happens, Stopped
  <2> QED BY <1>5, <2>1 DEF HostExits, Happens, Publishes, SameBox
<1>6. CASE SomeoneRuns
  <2>1. con' = PeoplesBox BY <1>6 DEF SomeoneRuns, Happens, PeoplesBox
  <2> QED
    BY <1>6, <2>1, KnownRecords, CommandsAssumption DEF SomeoneRuns, Happens, Publishes, Makers
<1>7. CASE SomeoneRemoves BY <1>7, KnownRecords, CommandsAssumption
                             DEF SomeoneRemoves, Happens, Publishes, Makers
<1>8. CASE UNCHANGED contVars BY <1>8 DEF contVars
<1> QED BY <1>1, <1>2, <1>3, <1>4, <1>5, <1>6, <1>7, <1>8 DEF ContNext

\* A takeover host is checked before install succeeds (validate_hard_site_capabilities).
LEMMA WholeStep ==
  ASSUME ContTypes, OverHasOutcome, MadeAsAsked, TakeoverWhole, [ContNext]_contVars
  PROVE  TakeoverWhole'
<1> USE DEF TakeoverWhole, MadeAsAsked, OverHasOutcome, ContTypes, None, engine, procs, Goes, Ends
<1>1. ASSUME NEW p \in Commands, Acts(p) PROVE TakeoverWhole'
  <2>1. CASE InstallStarts(p) BY <2>1 DEF InstallStarts
  <2>2. CASE WritesContext(p) BY <2>2 DEF WritesContext
  <2>3. CASE Builds(p) BY <2>3 DEF Builds
  <2>4. CASE ChecksImage(p) BY <2>4 DEF ChecksImage
  <2>5. CASE UninstallStarts(p) BY <2>5 DEF UninstallStarts
  <2>6. CASE ChecksForeign(p) BY <2>6 DEF ChecksForeign, Inspected, Refuses
  <2>7. CASE LooksUpImage(p) BY <2>7 DEF LooksUpImage, Inspected
  <2>8. CASE StopsContainer(p)
    <3>1. SameBox(con', con) BY <2>8, RecordKept DEF StopsContainer, Stopped
    <3> QED BY <2>8, <3>1 DEF StopsContainer, SameBox
  <2>9. CASE Removes(p) BY <2>9, KnownRecords, CommandsAssumption DEF Removes, Makers
  <2>10. CASE RemovesImage(p) BY <2>10 DEF RemovesImage
  <2>11. CASE GivesVolume(p) BY <2>11 DEF GivesVolume
  <2>12. CASE Runs(p)
    <3>1. CASE where'[p] = "token"
      <4>1. con' = run_args(p) /\ image_exists(image_tag(cmd[p])) /\ outcome' = outcome
        BY <2>12, <3>1 DEF Runs
      <4>2. con'.by = p BY <4>1, RunRecord
      <4>3. outcome[p] = None BY <2>12 DEF Runs
      <4> QED BY <4>1, <4>2, <4>3
    <3>2. CASE where'[p] # "token" BY <2>12, <3>2 DEF Runs
    <3> QED BY <3>1, <3>2
  <2>13. CASE ReadsToken(p) BY <2>13 DEF ReadsToken, Waits, Next1, noToken
  <2>14. CASE AwaitsHealth(p) BY <2>14 DEF AwaitsHealth, Waits, Next1, Unhappy, Asks
  <2>15. CASE ChecksSite(p) BY <2>15 DEF ChecksSite, Asks
  <2>16. CASE LooksUp(p) BY <2>16 DEF LooksUp, Inspected, publishedPort
  <2>17. CASE AsksOnce(p) BY <2>17 DEF AsksOnce, Asks
  <2>18. CASE AsksCapabilities(p) BY <2>18 DEF AsksCapabilities, Asks, takesOver
  <2>19. CASE ReadsHostToken(p) BY <2>19 DEF ReadsHostToken
  <2> QED
    BY <1>1, <2>1, <2>2, <2>3, <2>4, <2>5, <2>6, <2>7, <2>8, <2>9,
       <2>10, <2>11, <2>12, <2>13, <2>14, <2>15, <2>16, <2>17, <2>18, <2>19 DEF Acts
<1>2. CASE HostBoots
  <2>0. con' = Healthy(con, "starting") \/ con' = Stopped(con)
    BY <1>2 DEF HostBoots, Healthy, Stopped
  <2>1. SameBox(con', con) BY <2>0, RecordKept DEF Healths, None
  <2> QED BY <1>2, <2>1 DEF HostBoots, SameBox
<1>3. CASE BrowserComes
  <2>1. SameBox(con', con) BY <1>3, RecordKept DEF BrowserComes, Healthy, Healths, None
  <2> QED BY <1>3, <2>1 DEF BrowserComes, SameBox
<1>4. CASE ProbeMissed
  <2>1. SameBox(con', con) BY <1>4, RecordKept DEF ProbeMissed, Happens, Healthy, Healths, None
  <2> QED BY <1>4, <2>1 DEF ProbeMissed, Happens, Publishes, SameBox
<1>5. CASE HostExits
  <2>1. SameBox(con', con) BY <1>5, RecordKept DEF HostExits, Happens, Stopped
  <2> QED BY <1>5, <2>1 DEF HostExits, Happens, Publishes, SameBox
<1>6. CASE SomeoneRuns
  <2>1. con' = PeoplesBox BY <1>6 DEF SomeoneRuns, Happens, PeoplesBox
  <2> QED
    BY <1>6, <2>1, KnownRecords, CommandsAssumption DEF SomeoneRuns, Happens, Publishes, Makers
<1>7. CASE SomeoneRemoves BY <1>7, KnownRecords, CommandsAssumption
                             DEF SomeoneRemoves, Happens, Publishes, Makers
<1>8. CASE UNCHANGED contVars BY <1>8 DEF contVars
<1> QED BY <1>1, <1>2, <1>3, <1>4, <1>5, <1>6, <1>7, <1>8 DEF ContNext

\* Who goes on saw no other program's container (refuse_foreign_container).
LEMMA CheckedStep ==
  ASSUME ContTypes, CheckedOwn, [ContNext]_contVars
  PROVE  CheckedOwn'
<1> USE DEF CheckedOwn, ContTypes, engine, procs, Goes, Ends
<1>1. ASSUME NEW p \in Commands, Acts(p) PROVE CheckedOwn'
  <2>1. CASE InstallStarts(p) BY <2>1 DEF InstallStarts
  <2>2. CASE WritesContext(p) BY <2>2 DEF WritesContext
  <2>3. CASE Builds(p) BY <2>3 DEF Builds
  <2>4. CASE ChecksImage(p) BY <2>4 DEF ChecksImage
  <2>5. CASE UninstallStarts(p) BY <2>5 DEF UninstallStarts
  <2>6. CASE ChecksForeign(p) BY <2>6 DEF ChecksForeign, Inspected, Refuses
  <2>7. CASE LooksUpImage(p) BY <2>7 DEF LooksUpImage, Inspected
  <2>8. CASE StopsContainer(p) BY <2>8 DEF StopsContainer
  <2>9. CASE Removes(p) BY <2>9 DEF Removes
  <2>10. CASE RemovesImage(p) BY <2>10 DEF RemovesImage
  <2>11. CASE GivesVolume(p) BY <2>11 DEF GivesVolume
  <2>12. CASE Runs(p) BY <2>12 DEF Runs, run_args, Publishes
  <2>13. CASE ReadsToken(p) BY <2>13 DEF ReadsToken, Waits, Next1, noToken
  <2>14. CASE AwaitsHealth(p) BY <2>14 DEF AwaitsHealth, Waits, Next1, Unhappy, Asks
  <2>15. CASE ChecksSite(p) BY <2>15 DEF ChecksSite, Asks
  <2>16. CASE LooksUp(p) BY <2>16 DEF LooksUp, Inspected, publishedPort
  <2>17. CASE AsksOnce(p) BY <2>17 DEF AsksOnce, Asks
  <2>18. CASE AsksCapabilities(p) BY <2>18 DEF AsksCapabilities, Asks
  <2>19. CASE ReadsHostToken(p) BY <2>19 DEF ReadsHostToken
  <2> QED
    BY <1>1, <2>1, <2>2, <2>3, <2>4, <2>5, <2>6, <2>7, <2>8, <2>9,
       <2>10, <2>11, <2>12, <2>13, <2>14, <2>15, <2>16, <2>17, <2>18, <2>19 DEF Acts
<1>2. CASE HostBoots BY <1>2 DEF HostBoots
<1>3. CASE BrowserComes BY <1>3 DEF BrowserComes
<1>4. CASE ProbeMissed BY <1>4 DEF ProbeMissed, Happens, Publishes
<1>5. CASE HostExits BY <1>5 DEF HostExits, Happens, Publishes
<1>6. CASE SomeoneRuns BY <1>6 DEF SomeoneRuns, Happens, Publishes
<1>7. CASE SomeoneRemoves BY <1>7 DEF SomeoneRemoves, Happens, Publishes
<1>8. CASE UNCHANGED contVars BY <1>8 DEF contVars
<1> QED BY <1>1, <1>2, <1>3, <1>4, <1>5, <1>6, <1>7, <1>8 DEF ContNext

\* The image is asked for before its container is removed (run_uninstall).
LEMMA PurgeStep ==
  ASSUME ContTypes, OverHasOutcome, PurgeKnows, [ContNext]_contVars
  PROVE  PurgeKnows'
<1> USE DEF PurgeKnows, OverHasOutcome, ContTypes, Alone, None, engine, procs, Goes, Ends
<1>1. ASSUME NEW p \in Commands, Acts(p) PROVE PurgeKnows'
  <2>1. CASE InstallStarts(p) BY <2>1 DEF InstallStarts
  <2>2. CASE WritesContext(p) BY <2>2 DEF WritesContext
  <2>3. CASE Builds(p) BY <2>3 DEF Builds
  <2>4. CASE ChecksImage(p) BY <2>4 DEF ChecksImage
  <2>5. CASE UninstallStarts(p) BY <2>5 DEF UninstallStarts
  <2>6. CASE ChecksForeign(p) BY <2>6 DEF ChecksForeign, Inspected, Refuses
  <2>7. CASE LooksUpImage(p) BY <2>7 DEF LooksUpImage, Inspected
  <2>8. CASE StopsContainer(p)
    <3>1. SameBox(con', con) /\ (con # NoCon => con' # NoCon)
      BY <2>8, RecordKept, HasRun DEF StopsContainer, Stopped
    <3> QED BY <2>8, <3>1 DEF StopsContainer, SameBox
  <2>9. CASE Removes(p) BY <2>9 DEF Removes
  <2>10. CASE RemovesImage(p)
    <3>1. saw[p].image \in Tags BY RecordKept
    <3>2. con = NoCon => images'[saw[p].image] = NoImage BY <2>10, <3>1 DEF RemovesImage, purged
    <3>3. /\ UNCHANGED <<con, cmd, checked, saw, events>> /\ where[p] = "unimage"
          /\ where' = [where EXCEPT ![p] = "over"] /\ outcome' = [outcome EXCEPT ![p] = "removed"]
      BY <2>10 DEF RemovesImage
    <3> QED BY <3>1, <3>2, <3>3
  <2>11. CASE GivesVolume(p) BY <2>11 DEF GivesVolume
  <2>12. CASE Runs(p) BY <2>12 DEF Runs, run_args, Publishes
  <2>13. CASE ReadsToken(p) BY <2>13 DEF ReadsToken, Waits, Next1, noToken
  <2>14. CASE AwaitsHealth(p) BY <2>14 DEF AwaitsHealth, Waits, Next1, Unhappy, Asks
  <2>15. CASE ChecksSite(p) BY <2>15 DEF ChecksSite, Asks
  <2>16. CASE LooksUp(p) BY <2>16 DEF LooksUp, Inspected, publishedPort
  <2>17. CASE AsksOnce(p) BY <2>17 DEF AsksOnce, Asks
  <2>18. CASE AsksCapabilities(p) BY <2>18 DEF AsksCapabilities, Asks
  <2>19. CASE ReadsHostToken(p) BY <2>19 DEF ReadsHostToken
  <2> QED
    BY <1>1, <2>1, <2>2, <2>3, <2>4, <2>5, <2>6, <2>7, <2>8, <2>9,
       <2>10, <2>11, <2>12, <2>13, <2>14, <2>15, <2>16, <2>17, <2>18, <2>19 DEF Acts
<1>2. CASE HostBoots
  <2>0. con' = Healthy(con, "starting") \/ con' = Stopped(con)
    BY <1>2 DEF HostBoots, Healthy, Stopped
  <2>1. SameBox(con', con) /\ con' # NoCon
    BY <1>2, <2>0, RecordKept, HasRun DEF HostBoots, Healths, None
  <2>2. con # NoCon BY <1>2 DEF HostBoots, NoCon
  <2> QED BY <1>2, <2>1, <2>2 DEF HostBoots, SameBox
<1>3. CASE BrowserComes
  <2>1. SameBox(con', con) /\ con' # NoCon
    BY <1>3, RecordKept, HasRun DEF BrowserComes, Healthy, Healths, None
  <2>2. con # NoCon BY <1>3 DEF BrowserComes, NoCon
  <2> QED BY <1>3, <2>1, <2>2 DEF BrowserComes, SameBox
<1>4. CASE ProbeMissed BY <1>4 DEF ProbeMissed, Happens, Publishes
<1>5. CASE HostExits BY <1>5 DEF HostExits, Happens, Publishes
<1>6. CASE SomeoneRuns BY <1>6 DEF SomeoneRuns, Happens, Publishes
<1>7. CASE SomeoneRemoves BY <1>7 DEF SomeoneRemoves, Happens, Publishes
<1>8. CASE UNCHANGED contVars BY <1>8 DEF contVars
<1> QED BY <1>1, <1>2, <1>3, <1>4, <1>5, <1>6, <1>7, <1>8 DEF ContNext

-------------------------------------------------------------------------------
(* Commands: the theorems.                                                 *)

\* What the commands, the runtime and the container keep (container.rs).
THEOREM ContainerInvariant == ContSpec => []ContInv
<1>1. ContInit => ContInv
  <2> SUFFICES ASSUME ContInit PROVE ContInv OBVIOUS
  <2>1. PICK w \in Worlds : con = w.con /\ images = w.images /\ handmade = w.handmade
    BY DEF ContInit
  <2>2. /\ con \in ContainerRecord /\ con.by \in Makers /\ handmade \subseteq Tags
        /\ images \in [Tags -> (SUBSET Components) \cup {NoImage}]
        /\ \A t \in Tags \ handmade : images[t] \in {t, NoImage}
    BY <2>1, WorldsAssumption
  <2>3. con.port \in Published BY <2>2, RecordKept
  <2>4. /\ cmd \in [Commands -> Asked]
        /\ \A p \in Commands : cmd[p].kind = "install" => cmd[p].port # None
    BY JobsAssumption DEF ContInit
  <2>5. ContTypes
    <3>1. /\ where \in [Commands -> Places] /\ tries \in [Commands -> 0 .. TokenTries + HealthTries]
          /\ saw \in [Commands -> ContainerRecord] /\ checked \in [Commands -> ContainerRecord]
          /\ talksTo \in [Commands -> Published] /\ events \in Nat
          /\ sentTo \in [Commands -> SUBSET Published] /\ published \in [Commands -> SUBSET Published]
          /\ outcome = [p \in Commands |-> outcome[p]]
      BY <2>3, KnownRecords, RoundsAssumption DEF ContInit, Places, Published
    <3>2. volume \in [made : BOOLEAN, owned : BOOLEAN, token : BOOLEAN]
      <4>1. con.foreign \in BOOLEAN BY <2>2 DEF ContainerRecord
      <4> QED BY <4>1 DEF ContInit
    <3>3. runtime \in {"apple", "docker"} BY DEF ContInit
    <3> QED BY <2>2, <2>4, <3>1, <3>2, <3>3 DEF ContTypes
  <2>6. \A p \in Commands : where[p] = "start" /\ outcome[p] = None /\ sentTo[p] = {}
                           /\ talksTo[p] = None /\ published[p] = {con.port} /\ checked[p] = NoCon
    BY DEF ContInit
  <2>7. OverHasOutcome /\ InstallPlaces /\ PortsKnown /\ CheckedOwn
    BY <2>6 DEF OverHasOutcome, InstallPlaces, PortsKnown, CheckedOwn
  <2>8. ImagesAsTagged BY <2>2 DEF ImagesAsTagged
  <2>9. MadeAsAsked /\ TakeoverWhole BY <2>2, <2>6, CommandsAssumption
                                        DEF MadeAsAsked, TakeoverWhole
  <2>10. PurgeKnows BY <2>6 DEF PurgeKnows
  <2> QED BY <2>5, <2>7, <2>8, <2>9, <2>10 DEF ContInv
<1>2. ContInv /\ [ContNext]_contVars => ContInv'
  BY ContTypesStep, OutcomeStep, InstallStep, PortsStep, TaggedStep, MadeStep, WholeStep,
     CheckedStep,
     PurgeStep DEF ContInv
<1> QED BY <1>1, <1>2, PTL DEF ContSpec

\* What a command reports and whom it confides in is the container there is
\* (read_token, validate_running_hard_site).
THEOREM CommandsAreTrue == ContSpec => []CommandsKeepTheirWord
<1>1. ContInv => ContTypeOK
  <2> SUFFICES ASSUME ContInv PROVE ContTypeOK OBVIOUS
  <2>1. /\ con.image \in Tags /\ con.health \in Healths /\ con.port \in Published
        /\ con.running => con.health # None
    BY DEF ContInv, ContTypes, ContainerRecord
  <2> QED BY <2>1 DEF ContTypeOK, ContInv, ContTypes, OverHasOutcome, Healths, Published
<1>2. ContInv => TokenGoesWhereItListens
  BY DEF ContInv, PortsKnown, TokenGoesWhereItListens
<1>3. ContInv => InstalledMeansWhole
  BY DEF ContInv, MadeAsAsked, TakeoverWhole, InstalledMeansWhole
<1> QED BY <1>1, <1>2, <1>3, ContainerInvariant, PTL DEF CommandsKeepTheirWord

\* What a command takes away is afhttp's, and all of it
\* (refuse_foreign_container, run_uninstall).
THEOREM RemovalsAreOwn == ContSpec => RemovalsMindTheirOwn
<1>1. ASSUME ContInv, NEW p \in Commands, Acts(p), con.foreign, con' # con
      PROVE  checked[p] # con
  <2>1. where[p] \in {"stop", "rm"}
    <3>1. con # NoCon BY <1>1, KnownRecords
    <3> QED
      BY <1>1, <3>1
         DEF Acts, InstallStarts, WritesContext, Builds, ChecksImage, UninstallStarts, ChecksForeign,
             LooksUpImage, StopsContainer, Removes, RemovesImage, GivesVolume, Runs, ReadsToken,
             AwaitsHealth, ChecksSite, LooksUp, AsksOnce, AsksCapabilities, ReadsHostToken, engine
  <2> QED BY <1>1, <2>1 DEF ContInv, CheckedOwn
<1>2. ContInv => [\A p \in Commands : Acts(p) /\ con.foreign /\ con' # con
                    => checked[p] # con]_contVars
  BY <1>1
<1>3. ContInv => PurgeTakesItsImage
  BY DEF ContInv, PurgeKnows, PurgeTakesItsImage
<1> QED BY <1>2, <1>3, ContainerInvariant, PTL DEF RemovalsMindTheirOwn, ForeignSpared
===============================================================================
