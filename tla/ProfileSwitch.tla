----------------------------- MODULE ProfileSwitch -----------------------------
(***************************************************************************)
(* One host, one active profile, switched at runtime: AppState's           *)
(* ensure_profile and get_profile (host/listener/mod.rs), the /cdp handler *)
(* that calls them (cdp_proxy.rs), the recent-requests subscriber that     *)
(* follows the active browser (recent_requests.rs) and the browser handles *)
(* whose last owner ends them (host/browser.rs).  Requests run on several  *)
(* threads; a client that hangs up drops its handler at whatever it        *)
(* awaits.                                                                 *)
(***************************************************************************)
EXTENDS Naturals, Sequences, FiniteSets

CONSTANTS Clients,      \* /cdp requests
          Profiles,     \* names of persistent profiles
          MaxBrowsers,  \* bound on the browsers launched
          Cap           \* recent_requests.cap

ASSUME BoundsAssumption == MaxBrowsers \in Nat \ {0} /\ Cap \in Nat \ {0}

None == "none"             \* no ?profile=, no switcher
Ephemeral == "ephemeral"   \* what the host may have started under

ASSUME NoneIsNobody == None \notin Clients

Browsers == 1 .. MaxBrowsers
Switching == {"launching", "swapped", "revoked", "cleared"}
Holding == {"picked", "upgraded"}
Counted == {"counted", "picked", "upgraded", "leaving"}
Undecided == {"asked", "queued", "ensured", "counted"} \cup Switching

VARIABLES
  profileOf,  \* the profile of each browser launched so far, in order
  active,     \* AppState.profile
  running,    \* browsers whose process runs
  pc, want,   \* where a request is, and its ?profile=
  entry,      \* the ProfileEntry a client picked
  old,        \* the entry a switch replaced and has yet to drop
  switcher,   \* who holds switch_lock
  credentials,\* the browsers live takeover credentials were minted under
  probed,     \* the entry a handler that mints one holds while it probes
  follows,    \* the browser the subscriber listens to
  ring,       \* whose requests the ring holds, oldest first
  overtaken   \* clients counted while a switch was past its count check

vars == <<profileOf, active, running, pc, want, entry, old, switcher, credentials, probed,
          follows, ring, overtaken>>
mints == <<credentials, probed>>
recent == <<follows, ring>>
host == <<profileOf, active, running>>

\* 0 stands for no browser.
Init ==
  /\ \E p \in Profiles \cup {Ephemeral} : profileOf = <<p>>
  /\ active = 1
  /\ running = {1}
  /\ pc = [c \in Clients |-> "idle"]
  /\ want = [c \in Clients |-> None]
  /\ entry = [c \in Clients |-> 0]
  /\ old = 0
  /\ switcher = None
  /\ credentials = {} /\ probed = 0
  /\ follows = 1
  /\ ring = << >>
  /\ overtaken = {}

is_current(p) == profileOf[active] = p

\* Counted before it looks at the profile, until after it let go of its entry.
cdp_clients == {c \in Clients : pc[c] \in Counted}

\* The handles somebody still owns.  The profile lock is a field of the handle.
\* (Variant: a client keeps only its browser's address.)
HeldWithoutClients == {active, old, probed}
Held == {active, old, probed} \cup {entry[c] : c \in Clients}

Locked(p) == \E b \in Held \ {0} : profileOf[b] = p

Goto(c, place) == pc' = [pc EXCEPT ![c] = place]

-------------------------------------------------------------------------------
(* A request reaches the handler; ensure_profile.                          *)

Ask(c) ==
  /\ pc[c] = "idle"
  /\ \E p \in Profiles \cup {None} :
        /\ want' = [want EXCEPT ![c] = p]
        /\ Goto(c, IF p = None THEN "ensured" ELSE "asked")
  /\ overtaken' = overtaken \ {c}
  /\ UNCHANGED <<host, entry, old, switcher, mints, recent>>

LooksUp(c) ==
  /\ pc[c] = "asked"
  /\ Goto(c, IF is_current(want[c]) THEN "ensured" ELSE "queued")
  /\ UNCHANGED <<host, want, entry, old, switcher, mints, recent, overtaken>>

\* Under the switch lock: another switch may have landed first; and nobody
\* switches under a client.
Locks(c) ==
  /\ pc[c] = "queued" /\ switcher = None
  /\ \/ /\ is_current(want[c])
        /\ Goto(c, "ensured")
        /\ UNCHANGED switcher
     \/ /\ ~is_current(want[c]) /\ cdp_clients # {}
        /\ Goto(c, "idle")
        /\ UNCHANGED switcher
     \/ /\ ~is_current(want[c]) /\ cdp_clients = {}
        /\ Goto(c, "launching")
        /\ switcher' = c
  /\ UNCHANGED <<host, want, entry, old, mints, recent, overtaken>>

\* The new browser takes its profile's lock, comes up and is swapped in.
Swaps(c) ==
  /\ pc[c] = "launching"
  /\ ~Locked(want[c])
  /\ Len(profileOf) < MaxBrowsers
  /\ LET b == Len(profileOf) + 1
     IN  /\ profileOf' = Append(profileOf, want[c])
         /\ running' = running \cup {b}
         /\ active' = b
  /\ old' = active
  /\ Goto(c, "swapped")
  /\ UNCHANGED <<want, entry, switcher, mints, recent, overtaken>>

\* A failed launch leaves everything in place.
\* (Variant: the lock is not a guard and stays taken.)
keepsTheLock == switcher
givesUpTheLock == None

LaunchFails(c) ==
  /\ pc[c] = "launching"
  /\ Goto(c, "idle")
  /\ switcher' = givesUpTheLock
  /\ UNCHANGED <<host, want, entry, old, mints, recent, overtaken>>

\* Every credential so far was minted against the browser that is going.
\* (Variant: asking which browser that is after the swap.)
credentialsOfOthers == credentials \ {active}
revoke_takeover_handoffs == {}

Revokes(c) ==
  /\ pc[c] = "swapped"
  /\ credentials' = revoke_takeover_handoffs
  /\ Goto(c, "revoked")
  /\ UNCHANGED <<host, want, entry, old, switcher, probed, recent, overtaken>>

Clears(c) ==
  /\ pc[c] = "revoked"
  /\ ring' = << >>
  /\ Goto(c, "cleared")
  /\ UNCHANGED <<host, want, entry, old, switcher, mints, follows, overtaken>>

\* The subscriber moves on; the old entry is dropped and the lock released.
Follows(c) ==
  /\ pc[c] = "cleared"
  /\ follows' = active
  /\ old' = 0
  /\ switcher' = None
  /\ Goto(c, "ensured")
  /\ UNCHANGED <<host, want, entry, mints, ring, overtaken>>

\* The client hangs up while its handler awaits the lock, the launch or the
\* ring: the handler is dropped there, with the lock and the old entry it held.
HangsUp(c) ==
  /\ pc[c] \in {"queued", "launching", "revoked"}
  /\ Goto(c, "idle")
  /\ switcher' = IF switcher = c THEN None ELSE switcher
  /\ old' = IF switcher = c THEN 0 ELSE old
  /\ UNCHANGED <<host, want, entry, mints, recent, overtaken>>

-------------------------------------------------------------------------------
(* The rest of the handler: the client is on a browser.                    *)

Counts(c) ==
  /\ pc[c] = "ensured"
  /\ Goto(c, "counted")
  /\ overtaken' = IF switcher = None THEN overtaken ELSE overtaken \cup {c}
  /\ UNCHANGED <<host, want, entry, old, switcher, mints, recent>>

\* get_profile: an owned clone of the entry.
Picks(c) ==
  /\ pc[c] = "counted"
  /\ entry' = [entry EXCEPT ![c] = active]
  /\ Goto(c, "picked")
  /\ UNCHANGED <<host, want, old, switcher, mints, recent, overtaken>>

Upgrades(c) ==
  /\ pc[c] = "picked"
  /\ Goto(c, "upgraded")
  /\ UNCHANGED <<host, want, entry, old, switcher, mints, recent, overtaken>>

DropsEntry(c) ==
  /\ pc[c] \in Holding
  /\ entry' = [entry EXCEPT ![c] = 0]
  /\ Goto(c, "leaving")
  /\ UNCHANGED <<host, want, old, switcher, mints, recent, overtaken>>

Leaves(c) ==
  /\ pc[c] = "leaving"
  /\ Goto(c, "idle")
  /\ UNCHANGED <<host, want, entry, old, switcher, mints, recent, overtaken>>

-------------------------------------------------------------------------------
(* Browsers, credentials, the ring.                                        *)

\* A handle nobody owns was dropped: start_kill, which does not wait.
ProcessEnds(b) ==
  /\ b \in running \ Held
  /\ running' = running \ {b}
  /\ UNCHANGED <<profileOf, active, pc, want, entry, old, switcher, mints,
                 recent, overtaken>>

\* A handler asks whether the browser is ready, looking it up twice, and owns
\* what it asks; the credential it mints is for whatever is active by then.
require_takeover_ready ==
  /\ probed' = active
  /\ UNCHANGED <<host, pc, want, entry, old, switcher, credentials, recent, overtaken>>
Mints ==
  /\ probed # 0 /\ probed' = 0
  /\ credentials' = credentials \cup {active}
  /\ UNCHANGED <<host, pc, want, entry, old, switcher, recent, overtaken>>
NotReady ==
  /\ probed # 0 /\ probed' = 0
  /\ UNCHANGED <<host, pc, want, entry, old, switcher, credentials, recent, overtaken>>

Lapses ==
  /\ \E b \in credentials : credentials' = credentials \ {b}
  /\ UNCHANGED <<host, pc, want, entry, old, switcher, probed, recent, overtaken>>

\* A page of the browser the subscriber listens to makes a request.
Records ==
  /\ follows \in running
  /\ ring' = Append(IF Len(ring) >= Cap THEN Tail(ring) ELSE ring, follows)
  /\ UNCHANGED <<host, pc, want, entry, old, switcher, mints, follows, overtaken>>

EnsureStep(c) ==
  \/ LooksUp(c) \/ Locks(c) \/ Swaps(c) \/ LaunchFails(c)
  \/ Revokes(c) \/ Clears(c) \/ Follows(c)

ClientStep(c) ==
  \/ Ask(c) \/ EnsureStep(c) \/ HangsUp(c)
  \/ Counts(c) \/ Picks(c) \/ Upgrades(c) \/ DropsEntry(c) \/ Leaves(c)

Next ==
  \/ \E c \in Clients : ClientStep(c)
  \/ \E b \in Browsers : ProcessEnds(b)
  \/ require_takeover_ready \/ Mints \/ NotReady \/ Lapses \/ Records

Spec == Init /\ [][Next]_vars

\* Handlers keep running, a launch ends one way or the other, and switch_lock is
\* first come, first served.
Fairness ==
  \A c \in Clients :
    /\ WF_vars(\/ LooksUp(c) \/ Swaps(c) \/ LaunchFails(c) \/ Revokes(c)
               \/ Clears(c) \/ Follows(c) \/ Counts(c) \/ Picks(c))
    /\ SF_vars(Locks(c))

-------------------------------------------------------------------------------
(* Properties.                                                             *)

\* Every variable keeps its type; the lock is held by the one request between
\* its count check and the end of its switch (mod.rs:216).
SwitchTypeOK ==
  /\ profileOf \in Seq(Profiles \cup {Ephemeral}) /\ Len(profileOf) \in Browsers
  /\ active \in 1 .. Len(profileOf)
  /\ running \subseteq 1 .. Len(profileOf)
  /\ pc \in [Clients -> Undecided \cup Holding \cup {"idle", "leaving"}]
  /\ want \in [Clients -> Profiles \cup {None}]
  /\ entry \in [Clients -> 0 .. Len(profileOf)]
  /\ old \in 0 .. Len(profileOf)
  /\ credentials \subseteq 1 .. Len(profileOf) /\ probed \in 0 .. Len(profileOf)
  /\ follows \in 1 .. Len(profileOf)
  /\ ring \in Seq(1 .. Len(profileOf)) /\ Len(ring) <= Cap
  /\ overtaken \subseteq Clients
  /\ \A c \in Clients : pc[c] \in {"asked", "queued"} \cup Switching => want[c] \in Profiles
  /\ \A c \in Clients : pc[c] \in Switching <=> switcher = c
  /\ switcher \in Clients \cup {None}

\* A client's browser lives as long as the client, also when a switch lands
\* under it (cdp_proxy.rs:82, "its browser outlives a switch that lands anyway").
ClientsKeepTheirBrowser ==
  \A c \in Clients : pc[c] \in Holding => entry[c] \in running

\* The only switch that lands under a client is one that had counted before the
\* client came (mod.rs:221, "switching under it would kill its session").
OnlyOvertakenClientsAreLeftBehind ==
  \A c \in Clients : pc[c] \in Holding /\ entry[c] # active => c \in overtaken

\* Once a switch has revoked, no credential of an earlier browser is live, not
\* even one minted during the launch (mod.rs:248, "Every panel URL handed out so
\* far pointed at the browser that just went away").
CredentialsDieWithTheirBrowser ==
  (\A c \in Clients : pc[c] # "swapped") => credentials \subseteq {active}

\* Every request is decided: it gets a browser or an error (mod.rs:216).
EveryRequestIsDecided ==
  \A c \in Clients : pc[c] \in Undecided ~> pc[c] \notin Undecided

\* Stated by comments, each refuted by a run of its own.

===============================================================================
