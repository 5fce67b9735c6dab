------------------------------ MODULE TabReaper ------------------------------
(***************************************************************************)
(* The idle-tab reaper (src/host/reaper.rs) at work on the tabs of         *)
(* TabLedger, with the two things besides drivers that it reads: live      *)
(* takeover credentials and the browser the host currently serves, which a *)
(* profile switch replaces.                                                *)
(*                                                                         *)
(* One sweep is four steps, split where the code awaits the browser or     *)
(* where its answer travels: SweepGate (profile, credentials, client       *)
(* count, orphans: read without an await), SweepList (the browser takes    *)
(* the Target.getTargets snapshot), SweepDecide (the host reads it: clocks,*)
(* retain, expiry), SweepCloses (one target at a time).  Drivers, humans   *)
(* and switches run between any two of them.                               *)
(*                                                                         *)
(* Time is counted in ticks, and a clock saturates at IdleTimeout, since   *)
(* the code only compares it with the timeout.                             *)
(***************************************************************************)
EXTENDS TabLedger, Integers

CONSTANTS
    IdleTimeout,    \* --tab-idle-timeout-s, in ticks
    MaxGeneration   \* bound on browsers launched: 1 + profile switches

ASSUME ReaperBounds ==
    /\ IdleTimeout \in Nat \ {0}
    /\ MaxGeneration \in Nat \ {0}

VARIABLES
    active,         \* the generation of the browser the host serves
    switching,      \* a switch passed its client check, its browser starts
    browserOf,      \* [Conns -> generations], the entry a connection holds
    home,           \* [Targets -> generations], the browser a target is in
    web,            \* the targets showing an http(s) page
    credential,     \* some takeover credential is live
    tracker_url,    \* Tracker.ws_url: the browser the clocks belong to
    idle_since,     \* [Targets -> age or NoClock], Tracker.idle_since
    sweep,          \* the sweep in progress: where it is and what it read
    reaped,         \* history: targets the reaper closed
    heldThrough,    \* history: targets held ever since the sweep's gate
    busyThrough,    \* history: a client connected ever since the gate
    credThrough,    \* history: a credential live ever since the gate
    younger,        \* history: targets opened since the browser's listing
    mislaid         \* history: abandoned pages a sweep forgot unseen

reaperVars == <<active, switching, browserOf, home, web, credential,
                tracker_url, idle_since, sweep, reaped, heldThrough,
                busyThrough, credThrough, younger, mislaid>>
vars == <<ledgerVars, reaperVars>>

NoClock == -1
NoClocks == [t \in Targets |-> NoClock]
Generations == 0..MaxGeneration

\* No sweep: the reaper sleeps its interval.
Sleeping == [at |-> "sleeping", entry |-> 0, driver |-> FALSE,
             orphans |-> {}, ids |-> {}, expired |-> {}]

Init ==
    /\ LedgerInit
    /\ active = 1
    /\ switching = FALSE
    /\ browserOf = [c \in Conns |-> 0]
    /\ home = [t \in Targets |-> 0]
    /\ web = {}
    /\ credential = FALSE
    /\ tracker_url = 0
    /\ idle_since = NoClocks
    /\ sweep = Sleeping
    /\ reaped = {}
    /\ heldThrough = {}
    /\ busyThrough = FALSE
    /\ credThrough = FALSE
    /\ younger = {}
    /\ mislaid = {}

(***************************************************************************)
(* Drivers and the browsers: the steps of TabLedger, now saying which      *)
(* browser each happens in.                                                *)
(***************************************************************************)
notTabs == <<active, switching, credential, tracker_url, idle_since, sweep,
             reaped>>

\* A handler clones the active entry; the connection keeps that browser.
DriverConnects(c) ==
    /\ Connect(c)
    /\ browserOf' = [browserOf EXCEPT ![c] = active]
    /\ UNCHANGED <<home, web, notTabs>>

\* The connection's entry is dropped before its targets are released.
DriverEnds(c) ==
    /\ EndConnection(c)
    /\ browserOf' = [browserOf EXCEPT ![c] = 0]
    /\ UNCHANGED <<home, web, notTabs>>

\* A new target is about:blank, in the browser of the connection asking.
DriverCreates(c, r, t) ==
    /\ BrowserCreates(c, r, t)
    /\ home' = [home EXCEPT ![t] = browserOf[c]]
    /\ UNCHANGED <<browserOf, web, notTabs>>

HumanOpens(t) ==
    /\ TabOpensByItself(t)
    /\ home' = [home EXCEPT ![t] = active]
    /\ UNCHANGED <<browserOf, web, notTabs>>

OtherTabStep ==
    /\ \/ \E c \in Conns :
             \/ UpstreamOpens(c)
             \/ \E r \in ReqIds : RequestCreate(c, r)
             \/ \E t \in Targets : RequestAttach(c, t) \/ RequestClose(c, t)
             \/ \E m \in replies[c] : ResponseCreate(c, m)
             \/ DropGuard(c)
             \/ \E r \in ReqIds : BrowserRefusesCreate(c, r)
             \/ \E t \in Targets : BrowserCloses(c, t)
             \/ FramesLost(c)
       \/ \E t \in Targets : TabClosesByItself(t)
    /\ web' = web \cap pages'
    /\ UNCHANGED <<browserOf, home, notTabs>>

\* A tab goes to a web page, or back to a blank or browser-internal one.
Navigates(t) ==
    /\ t \in pages
    /\ web' \in {web \cup {t}, web \ {t}}
    /\ web' # web
    /\ UNCHANGED <<ledgerVars, browserOf, home, notTabs>>

(***************************************************************************)
(* Takeover credentials and profile switches, as far as the reaper sees    *)
(* them.                                                                   *)
(***************************************************************************)
Mint ==
    /\ ~credential
    /\ credential' = TRUE
    /\ UNCHANGED <<ledgerVars, active, switching, browserOf, home, web,
                   tracker_url, idle_since, sweep, reaped>>

\* The last credential expires or is revoked.
Lapse ==
    /\ credential
    /\ credential' = FALSE
    /\ UNCHANGED <<ledgerVars, active, switching, browserOf, home, web,
                   tracker_url, idle_since, sweep, reaped>>

\* ensure_profile refuses while clients are connected, then launches.
SwitchBegins ==
    /\ ~switching
    /\ active < MaxGeneration
    /\ cdp_client_count = 0
    /\ switching' = TRUE
    /\ UNCHANGED <<ledgerVars, active, browserOf, home, web, credential,
                   tracker_url, idle_since, sweep, reaped>>

\* The launch fails, or the new browser replaces the old one and every
\* takeover credential is revoked.
SwitchEnds ==
    /\ switching
    /\ switching' = FALSE
    /\ \/ UNCHANGED <<active, credential>>
       \/ /\ active' = active + 1
          /\ credential' = FALSE
    /\ UNCHANGED <<ledgerVars, browserOf, home, web, tracker_url, idle_since,
                   sweep, reaped>>

\* Generations something still holds an entry of.
InUse == {active} \cup {sweep.entry}
         \cup {browserOf[c] : c \in Conns}

\* A replaced browser dies with its last holder, taking its tabs along.
BrowserDies(g) ==
    /\ g \notin InUse
    /\ \E t \in pages : home[t] = g
    /\ pages' = {t \in pages : home[t] # g}
    /\ web' = web \cap pages'
    /\ UNCHANGED <<phase, pending_creates, owned, target_holders,
                   orphaned_targets, createWire, closeWire, replies, used,
                   taken, closeAsked, browserOf, home, notTabs>>

(***************************************************************************)
(* The reaper.                                                             *)
(***************************************************************************)

\* Faulty variant of DriverGate below: a connected driver stops the whole
\* sweep, orphans or not.
DriverGateAlways(driver, orphans) == driver

\* Faulty variant: orphans are looked at before credentials are.
liveCredentialsUnlessOrphans == credential /\ orphaned_targets = {}

\* Somebody may be on their way to any tab.
has_live_takeover_credentials == credential

\* Faulty variant: clocks survive a profile switch.
KeptClocksAcrossBrowsers == idle_since

\* Clocks start afresh when the browser is not the one they were kept for.
KeptClocks == IF tracker_url = active THEN idle_since ELSE NoClocks

\* A connected driver pauses everything, unless there are orphans to look at.
DriverGate(driver, orphans) == driver /\ orphans = {}

\* A live credential or a connected driver clears every clock and ends the
\* sweep; otherwise it goes on with what it read.
SweepGate ==
    /\ sweep.at = "sleeping"
    /\ LET driver == cdp_client_count > 0
           orphans == orphaned_targets
       IN \/ /\ has_live_takeover_credentials
             /\ idle_since' = NoClocks
             /\ UNCHANGED <<tracker_url, sweep>>
          \/ /\ ~has_live_takeover_credentials
             /\ tracker_url' = active
             /\ IF DriverGate(driver, orphans)
                THEN /\ idle_since' = NoClocks
                     /\ UNCHANGED sweep
                ELSE /\ idle_since' = KeptClocks
                     /\ sweep' = [Sleeping EXCEPT !.at = "listing",
                                                  !.entry = active,
                                                  !.driver = driver,
                                                  !.orphans = orphans]
    /\ UNCHANGED <<ledgerVars, active, switching, browserOf, home, web,
                   credential, reaped>>

\* The browser answers Target.getTargets.
SweepList ==
    /\ sweep.at = "listing"
    /\ sweep' = [sweep EXCEPT !.at = "deciding",
                              !.ids = {t \in pages : home[t] = sweep.entry}]
    /\ UNCHANGED <<ledgerVars, active, switching, browserOf, home, web,
                   credential, tracker_url, idle_since, reaped>>

\* It does not connect or answer within its timeout: the sweep is given up.
SweepListFails ==
    /\ sweep.at \in {"listing", "deciding"}
    /\ sweep' = Sleeping
    /\ UNCHANGED <<ledgerVars, active, switching, browserOf, home, web,
                   credential, tracker_url, idle_since, reaped>>

\* The listed targets that are nobody's as far as this sweep knows.
Considered ==
    {t \in web \cap sweep.ids : sweep.driver => t \in sweep.orphans}

\* Clocks after the listing: kept or started for what is considered, dropped
\* for everything else, gone targets included.
Clocks ==
    [t \in Targets |->
        IF t \notin Considered THEN NoClock
        ELSE IF idle_since[t] = NoClock THEN 0 ELSE idle_since[t]]

\* The clocks run, orphans the browser no longer lists are forgotten, and
\* what has been idle for the timeout is to be closed.
SweepDecide ==
    /\ sweep.at = "deciding"
    /\ idle_since' = Clocks
    /\ orphaned_targets' = orphaned_targets \cap sweep.ids
    /\ LET expired == {t \in Considered : Clocks[t] >= IdleTimeout}
       IN sweep' = IF expired = {} THEN Sleeping
                   ELSE [sweep EXCEPT !.at = "closing", !.expired = expired]
    /\ UNCHANGED <<phase, pending_creates, owned, target_holders, createWire,
                   closeWire, replies, pages, used, taken, closeAsked, active,
                   switching, browserOf, home, web, credential, tracker_url,
                   reaped>>

\* The rest of the sweep once t has been dealt with.
SweepAfter(t) ==
    LET left == sweep.expired \ {t}
    IN IF left = {} THEN Sleeping ELSE [sweep EXCEPT !.expired = left]

\* The browser confirms that t is closed.
SweepCloses(t) ==
    /\ sweep.at = "closing"
    /\ t \in sweep.expired \cap pages
    /\ pages' = pages \ {t}
    /\ web' = web \ {t}
    /\ reaped' = reaped \cup {t}
    /\ idle_since' = [idle_since EXCEPT ![t] = NoClock]
    /\ sweep' = SweepAfter(t)
    /\ UNCHANGED <<phase, pending_creates, owned, target_holders,
                   orphaned_targets, createWire, closeWire, replies, used,
                   taken, closeAsked, active, switching, browserOf, home,
                   credential, tracker_url>>

\* It does not: the clock stays, and the next sweep tries again.
SweepCloseFails(t) ==
    /\ sweep.at = "closing"
    /\ t \in sweep.expired
    /\ sweep' = SweepAfter(t)
    /\ UNCHANGED <<ledgerVars, active, switching, browserOf, home, web,
                   credential, tracker_url, idle_since, reaped>>

\* Time passes for every running clock.
Tick ==
    /\ idle_since' = [t \in Targets |->
                         IF idle_since[t] \in {NoClock, IdleTimeout}
                         THEN idle_since[t] ELSE idle_since[t] + 1]
    /\ idle_since' # idle_since
    /\ UNCHANGED <<ledgerVars, active, switching, browserOf, home, web,
                   credential, tracker_url, sweep, reaped>>

\* What has been true without a break since the sweep's gate.
Watch ==
    IF sweep.at = "sleeping"
    THEN /\ heldThrough' = {t \in Targets : sweep'.at # "sleeping"
                                            /\ target_holders[t] > 0}
         /\ busyThrough' = (sweep'.at # "sleeping" /\ ClientGuards # {})
         /\ credThrough' = (sweep'.at # "sleeping" /\ credential)
    ELSE /\ heldThrough' = {t \in heldThrough : sweep'.at # "sleeping"
                                               /\ target_holders'[t] > 0}
         /\ busyThrough' = (sweep'.at # "sleeping" /\ busyThrough
                            /\ ClientGuards' # {})
         /\ credThrough' = (sweep'.at # "sleeping" /\ credThrough
                            /\ credential')

\* What the sweep's listing could not name: a target opened after the browser
\* answered, or one in another browser than the one asked.
Unlisted == younger \cup {t \in Targets : home[t] # sweep.entry}

\* An orphan dropped from the set for no better reason than that, until a
\* driver takes it up again or it goes.
WatchOrphans ==
    /\ younger' = IF sweep.at = "deciding" /\ sweep'.at = "deciding"
                  THEN younger \cup (used' \ used) ELSE {}
    /\ mislaid' = {t \in pages' :
                     /\ HoldersOf(t)' = {}
                     /\ \/ t \in mislaid
                        \/ t \in (orphaned_targets \ orphaned_targets')
                                \cap Unlisted}

Watches == Watch /\ WatchOrphans

TabStep ==
    \/ \E c \in Conns : DriverConnects(c) \/ DriverEnds(c)
    \/ \E c \in Conns, r \in ReqIds, t \in Targets : DriverCreates(c, r, t)
    \/ \E t \in Targets : HumanOpens(t) \/ Navigates(t)
    \/ OtherTabStep
    \/ \E g \in Generations : BrowserDies(g)

SweepStep ==
    \/ SweepGate
    \/ SweepList
    \/ SweepListFails
    \/ SweepDecide
    \/ \E t \in Targets : SweepCloses(t) \/ SweepCloseFails(t)

Next ==
    /\ TabStep \/ SweepStep \/ Mint \/ Lapse \/ SwitchBegins \/ SwitchEnds
       \/ Tick
    /\ Watches

\* The reaper's task keeps running and time passes; a browser that answers a
\* listing or a close now and then, answers it eventually.
Fairness ==
    /\ WF_vars(Tick /\ Watches)
    /\ WF_vars(SweepGate /\ Watches)
    /\ SF_vars(SweepList /\ Watches)
    /\ SF_vars(SweepDecide /\ Watches)
    /\ \A t \in Targets : /\ SF_vars(SweepCloses(t) /\ Watches)
                          /\ WF_vars(SweepCloseFails(t) /\ Watches)

Spec == Init /\ [][Next]_vars
FairSpec == Spec /\ Fairness
-----------------------------------------------------------------------------
(***************************************************************************)
(* Properties.                                                             *)
(***************************************************************************)

\* Every variable of the reaper and of the tabs it looks at has its type.
TypeOK ==
    /\ LedgerTypeOK
    /\ active \in Generations
    /\ switching \in BOOLEAN
    /\ browserOf \in [Conns -> Generations]
    /\ home \in [Targets -> Generations]
    /\ web \in SUBSET Targets
    /\ credential \in BOOLEAN
    /\ tracker_url \in Generations
    /\ idle_since \in [Targets -> {NoClock} \cup 0..IdleTimeout]
    /\ sweep \in [at : {"sleeping", "listing", "deciding", "closing"},
                  entry : Generations, driver : BOOLEAN,
                  orphans : SUBSET Targets, ids : SUBSET Targets,
                  expired : SUBSET Targets]
    /\ reaped \in SUBSET Targets
    /\ heldThrough \in SUBSET Targets
    /\ busyThrough \in BOOLEAN
    /\ credThrough \in BOOLEAN
    /\ younger \in SUBSET Targets
    /\ mislaid \in SUBSET Targets

\* A tab some driver has held ever since the sweep looked around is not
\* closed by that sweep, although the sweep reads the holders' effects only
\* through the client count and the orphan set.
HeldTabsSurviveTheSweep ==
    [][(reaped' \ reaped) \cap heldThrough = {}]_vars

\* With a driver connected all along, a sweep closes nothing but what it had
\* read as an orphan: no tab the host cannot attribute goes.
BusyHostKeepsUnattributedTabs ==
    [][busyThrough => reaped' \ reaped \subseteq sweep.orphans]_vars

\* With a takeover credential live all along, a sweep closes nothing at all.
LiveCredentialKeepsEveryTab ==
    [][credThrough => reaped' = reaped]_vars

\* What is in use all through a sweep survives it (sweep; reaper.rs:12: "for a
\* tab the host cannot attribute to anyone, idle means the whole host has been
\* quiet that long"): held tabs, on a busy host whatever it cannot attribute,
\* under a credential everything.
SweepSparesWhatIsUsed ==
    /\ HeldTabsSurviveTheSweep
    /\ BusyHostKeepsUnattributedTabs
    /\ LiveCredentialKeepsEveryTab

\* Idle clocks run only for tabs of the browser they were taken in: nothing
\* of one profile's clocks is left running once a sweep follows another
\* (sweep, Tracker).
ClocksFollowTheBrowser ==
    /\ TypeOK
    /\ \A t \in Targets : idle_since[t] # NoClock => home[t] = tracker_url

\* A page some driver held, that nobody holds any more and no holder asked to
\* close, is in the orphan set: a killed driver's tab is not mislaid
\* (release_targets).  The exception is retain_orphaned_targets, which drops
\* an orphan the sweep's listing does not name: a page that was opened, and
\* abandoned, while the listing was on its way, and one of a browser the
\* listing was not of.  (Its comment, listener/mod.rs:176, says "forget orphans
\* the browser no longer has".)  Nothing else is ever lost.
AbandonedAreOrphans ==
    \A t \in (taken \ closeAsked) \cap pages :
        HoldersOf(t) = {} => t \in orphaned_targets \cup mislaid

\* A web tab that stays an orphan of the browser being served is eventually
\* closed, however busy other drivers keep the host, unless takeover
\* credentials keep coming back.
OrphansAreReclaimed ==
    \A t \in Targets :
        ~<>[](/\ t \in orphaned_targets \cap pages \cap web
              /\ home[t] = active
              /\ ~credential)

(***************************************************************************)
(* What the documentation says and the code does not do.                   *)
(***************************************************************************)

\* "A connection that attaches to an orphan adopts it": the reaper closes no
\* tab a live connection holds.  (It acts on what it read two awaits ago.)
ReaperSparesHeldTabs ==
    [][\A t \in reaped' \ reaped : HoldersOf(t) = {}]_vars
=============================================================================
