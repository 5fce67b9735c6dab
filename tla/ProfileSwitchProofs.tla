-------------------------- MODULE ProfileSwitchProofs --------------------------
(***************************************************************************)
(* Proofs about ProfileSwitch, for every set of requests and profiles and  *)
(* every bound.  What carries the argument: while a switch launches its    *)
(* browser, every client there is has been counted after the switch looked *)
(* (LaunchesOverNobody); and every handle somebody owns has its process    *)
(* (OwnedBrowsersRun).                                                     *)
(***************************************************************************)
EXTENDS ProfileSwitch, TLAPS

OwnedBrowsersRun == Held \ {0} \subseteq running

HoldersHaveAnEntry == \A c \in Clients : pc[c] \in Holding => entry[c] # 0

LaunchesOverNobody ==
  \A d \in Clients : pc[d] = "launching" => cdp_clients \subseteq overtaken

SwitchInv ==
  /\ SwitchTypeOK
  /\ OwnedBrowsersRun
  /\ HoldersHaveAnEntry
  /\ LaunchesOverNobody
  /\ OnlyOvertakenClientsAreLeftBehind
  /\ CredentialsDieWithTheirBrowser

USE DEF None, Ephemeral, Browsers, Switching, Holding, Counted, Undecided

\* The initial state satisfies the invariant.
LEMMA SwitchInit == Init => SwitchInv
  <1> SUFFICES ASSUME Init PROVE SwitchInv
    OBVIOUS
  <1>1. SwitchTypeOK
    BY BoundsAssumption, NoneIsNobody DEF Init, SwitchTypeOK
  <1>2. OwnedBrowsersRun
    BY DEF Init, OwnedBrowsersRun, Held
  <1>3. HoldersHaveAnEntry
    BY DEF Init, HoldersHaveAnEntry
  <1>4. LaunchesOverNobody
    BY DEF Init, LaunchesOverNobody
  <1>5. OnlyOvertakenClientsAreLeftBehind
    BY DEF Init, OnlyOvertakenClientsAreLeftBehind
  <1>6. CredentialsDieWithTheirBrowser
    BY DEF Init, CredentialsDieWithTheirBrowser
  <1> QED
    BY <1>1, <1>2, <1>3, <1>4, <1>5, <1>6 DEF SwitchInv

\* A browser swapped in gets the next number, and earlier ones keep theirs.
LEMMA SwapExtends ==
  ASSUME SwitchTypeOK, NEW c \in Clients, Swaps(c)
  PROVE  /\ profileOf' \in Seq(Profiles \cup {Ephemeral})
         /\ Len(profileOf') = Len(profileOf) + 1
         /\ Len(profileOf') \in 1 .. MaxBrowsers
         /\ active' = Len(profileOf')
         /\ 1 .. Len(profileOf) \subseteq 1 .. Len(profileOf')
  <1>1. want[c] \in Profiles \cup {Ephemeral}
    BY DEF Swaps, SwitchTypeOK
  <1>2. /\ profileOf \in Seq(Profiles \cup {Ephemeral})
        /\ Len(profileOf) \in 1 .. MaxBrowsers
    BY DEF SwitchTypeOK
  <1>3. /\ profileOf' = Append(profileOf, want[c])
        /\ active' = Len(profileOf) + 1
        /\ Len(profileOf) < MaxBrowsers
    BY DEF Swaps
  <1> QED
    BY <1>1, <1>2, <1>3, BoundsAssumption

\* Recording keeps the ring within its cap.
LEMMA RecordFits ==
  ASSUME SwitchTypeOK, Records
  PROVE  ring' \in Seq(1 .. Len(profileOf)) /\ Len(ring') <= Cap
  <1>1. /\ ring \in Seq(1 .. Len(profileOf)) /\ Len(ring) <= Cap
        /\ follows \in 1 .. Len(profileOf)
        /\ Cap \in Nat \ {0}
    BY BoundsAssumption DEF SwitchTypeOK
  <1>2. CASE Len(ring) >= Cap
    <2>1. ring # << >> /\ ring' = Append(Tail(ring), follows)
      BY <1>1, <1>2 DEF Records
    <2>2. Tail(ring) \in Seq(1 .. Len(profileOf)) /\ Len(Tail(ring)) = Len(ring) - 1
      BY <1>1, <2>1
    <2> QED
      BY <1>1, <2>1, <2>2
  <1>3. CASE ~(Len(ring) >= Cap)
    <2>1. ring' = Append(ring, follows)
      BY <1>3 DEF Records
    <2> QED
      BY <1>1, <1>3, <2>1
  <1> QED
    BY <1>2, <1>3

\* The type invariant is preserved by every step.
LEMMA TypeStep == SwitchTypeOK /\ [Next]_vars => SwitchTypeOK'
  <1> SUFFICES ASSUME SwitchTypeOK, [Next]_vars PROVE SwitchTypeOK'
    OBVIOUS
  <1> USE BoundsAssumption, NoneIsNobody DEF Goto, host, recent, mints
  <1>1. ASSUME NEW c \in Clients, Ask(c) PROVE SwitchTypeOK'
    BY <1>1 DEF Ask, SwitchTypeOK
  <1>2. ASSUME NEW c \in Clients, LooksUp(c) PROVE SwitchTypeOK'
    BY <1>2 DEF LooksUp, SwitchTypeOK
  <1>3. ASSUME NEW c \in Clients, Locks(c) PROVE SwitchTypeOK'
    <2>1. /\ pc' \in [Clients -> Undecided \cup Holding \cup {"idle", "leaving"}]
          /\ switcher' \in Clients \cup {None}
      BY <1>3 DEF Locks, SwitchTypeOK
    <2>2. ASSUME NEW d \in Clients
          PROVE  /\ pc'[d] \in {"asked", "queued"} \cup Switching => want[d] \in Profiles
                 /\ pc'[d] \in Switching <=> switcher' = d
      <3>1. /\ pc[d] \in {"asked", "queued"} \cup Switching => want[d] \in Profiles
            /\ pc[d] \in Switching <=> switcher = d
            /\ pc[c] = "queued" /\ switcher = None /\ d # None
            /\ pc \in [Clients -> Undecided \cup Holding \cup {"idle", "leaving"}]
        BY <1>3 DEF Locks, SwitchTypeOK
      <3>2. CASE pc' = [pc EXCEPT ![c] = "launching"] /\ switcher' = c
        BY <3>1, <3>2
      <3>3. CASE /\ pc' = [pc EXCEPT ![c] = "ensured"] \/ pc' = [pc EXCEPT ![c] = "idle"]
                 /\ switcher' = switcher
        BY <3>1, <3>3
      <3> QED
        BY <1>3, <3>2, <3>3 DEF Locks
    <2> QED
      BY <1>3, <2>1, <2>2 DEF Locks, SwitchTypeOK
  <1>4. ASSUME NEW c \in Clients, Swaps(c) PROVE SwitchTypeOK'
    <2>1. Len(profileOf') \in 1 .. MaxBrowsers /\ profileOf' \in Seq(Profiles \cup {Ephemeral})
      BY <1>4, SwapExtends
    <2>2. active' \in 1 .. Len(profileOf') /\ 1 .. Len(profileOf) \subseteq 1 .. Len(profileOf')
      BY <1>4, <2>1, SwapExtends
    <2>3. running' \subseteq 1 .. Len(profileOf')
      <3>1. running' = running \cup {active'}
        BY <1>4 DEF Swaps
      <3> QED
        BY <2>2, <3>1 DEF SwitchTypeOK
    <2>4. /\ entry' \in [Clients -> 0 .. Len(profileOf')]
          /\ old' \in 0 .. Len(profileOf') /\ probed' \in 0 .. Len(profileOf')
      <3>1. 0 .. Len(profileOf) \subseteq 0 .. Len(profileOf')
        BY <1>4, SwapExtends DEF SwitchTypeOK
      <3>2. /\ entry' = entry /\ entry \in [Clients -> 0 .. Len(profileOf)] /\ old' = active
            /\ probed' = probed /\ probed \in 0 .. Len(profileOf)
        BY <1>4 DEF Swaps, SwitchTypeOK
      <3>3. active \in 0 .. Len(profileOf)
        BY DEF SwitchTypeOK
      <3> QED
        BY <3>1, <3>2, <3>3
    <2>5. credentials' \subseteq 1 .. Len(profileOf') /\ follows' \in 1 .. Len(profileOf')
      BY <1>4, <2>2 DEF Swaps, SwitchTypeOK
    <2>6. ring' \in Seq(1 .. Len(profileOf')) /\ Len(ring') <= Cap
      BY <1>4, <2>2 DEF Swaps, SwitchTypeOK
    <2>7. /\ pc' \in [Clients -> Undecided \cup Holding \cup {"idle", "leaving"}]
          /\ want' \in [Clients -> Profiles \cup {None}]
          /\ overtaken' \subseteq Clients
          /\ \A d \in Clients : pc'[d] \in {"asked", "queued"} \cup Switching => want'[d] \in Profiles
          /\ \A d \in Clients : pc'[d] \in Switching <=> switcher' = d
          /\ switcher' \in Clients \cup {None}
      BY <1>4 DEF Swaps, SwitchTypeOK
    <2> QED
      BY <2>1, <2>2, <2>3, <2>4, <2>5, <2>6, <2>7 DEF SwitchTypeOK
  <1>5. ASSUME NEW c \in Clients, LaunchFails(c) PROVE SwitchTypeOK'
    BY <1>5 DEF LaunchFails, SwitchTypeOK, givesUpTheLock
  <1>6. ASSUME NEW c \in Clients, Revokes(c) PROVE SwitchTypeOK'
    BY <1>6 DEF Revokes, SwitchTypeOK, revoke_takeover_handoffs
  <1>7. ASSUME NEW c \in Clients, Clears(c) PROVE SwitchTypeOK'
    BY <1>7 DEF Clears, SwitchTypeOK
  <1>8. ASSUME NEW c \in Clients, Follows(c) PROVE SwitchTypeOK'
    BY <1>8 DEF Follows, SwitchTypeOK
  <1>9. ASSUME NEW c \in Clients, HangsUp(c) PROVE SwitchTypeOK'
    BY <1>9 DEF HangsUp, SwitchTypeOK
  <1>10. ASSUME NEW c \in Clients, Counts(c) PROVE SwitchTypeOK'
    BY <1>10 DEF Counts, SwitchTypeOK
  <1>11. ASSUME NEW c \in Clients, Picks(c) PROVE SwitchTypeOK'
    BY <1>11 DEF Picks, SwitchTypeOK
  <1>12. ASSUME NEW c \in Clients, Upgrades(c) PROVE SwitchTypeOK'
    BY <1>12 DEF Upgrades, SwitchTypeOK
  <1>13. ASSUME NEW c \in Clients, DropsEntry(c) PROVE SwitchTypeOK'
    BY <1>13 DEF DropsEntry, SwitchTypeOK
  <1>14. ASSUME NEW c \in Clients, Leaves(c) PROVE SwitchTypeOK'
    BY <1>14 DEF Leaves, SwitchTypeOK
  <1>15. ASSUME NEW b \in Browsers, ProcessEnds(b) PROVE SwitchTypeOK'
    BY <1>15 DEF ProcessEnds, SwitchTypeOK
  <1>16. ASSUME require_takeover_ready \/ Mints \/ NotReady PROVE SwitchTypeOK'
    <2>1. active \in 1 .. Len(profileOf) /\ Len(profileOf) \in 1 .. MaxBrowsers
      BY DEF SwitchTypeOK
    <2>2. probed' \in {0, active} /\ probed' \in 0 .. Len(profileOf)
      BY <1>16, <2>1 DEF require_takeover_ready, Mints, NotReady
    <2>3. credentials' \subseteq 1 .. Len(profileOf)
      BY <1>16, <2>1 DEF require_takeover_ready, Mints, NotReady, SwitchTypeOK
    <2> QED
      BY <1>16, <2>2, <2>3 DEF require_takeover_ready, Mints, NotReady, SwitchTypeOK
  <1>17. ASSUME Lapses PROVE SwitchTypeOK'
    BY <1>17 DEF Lapses, SwitchTypeOK
  <1>18. ASSUME Records PROVE SwitchTypeOK'
    <2>1. ring' \in Seq(1 .. Len(profileOf)) /\ Len(ring') <= Cap
      BY <1>18, RecordFits
    <2> QED
      BY <1>18, <2>1 DEF Records, SwitchTypeOK
  <1>19. ASSUME UNCHANGED vars PROVE SwitchTypeOK'
    BY <1>19 DEF vars, SwitchTypeOK
  <1> QED
    BY <1>1, <1>2, <1>3, <1>4, <1>5, <1>6, <1>7, <1>8, <1>9, <1>10, <1>11, <1>12, <1>13, <1>14, <1>15, <1>16, <1>17, <1>18, <1>19 DEF Next, ClientStep, EnsureStep

\* No step ends the process of a browser whose handle is owned afterwards.
LEMMA OwnersStep == SwitchTypeOK /\ OwnedBrowsersRun /\ [Next]_vars => OwnedBrowsersRun'
  <1> SUFFICES ASSUME SwitchTypeOK, OwnedBrowsersRun, [Next]_vars PROVE OwnedBrowsersRun'
    OBVIOUS
  <1> USE DEF Goto, host, recent, mints
  <1>1. ASSUME NEW c \in Clients, Ask(c) PROVE OwnedBrowsersRun'
    BY <1>1 DEF Ask, OwnedBrowsersRun, Held
  <1>2. ASSUME NEW c \in Clients, LooksUp(c) PROVE OwnedBrowsersRun'
    BY <1>2 DEF LooksUp, OwnedBrowsersRun, Held
  <1>3. ASSUME NEW c \in Clients, Locks(c) PROVE OwnedBrowsersRun'
    BY <1>3 DEF Locks, OwnedBrowsersRun, Held
  <1>4. ASSUME NEW c \in Clients, Swaps(c) PROVE OwnedBrowsersRun'
    BY <1>4 DEF Swaps, OwnedBrowsersRun, Held
  <1>5. ASSUME NEW c \in Clients, LaunchFails(c) PROVE OwnedBrowsersRun'
    BY <1>5 DEF LaunchFails, OwnedBrowsersRun, Held
  <1>6. ASSUME NEW c \in Clients, Revokes(c) PROVE OwnedBrowsersRun'
    BY <1>6 DEF Revokes, OwnedBrowsersRun, Held
  <1>7. ASSUME NEW c \in Clients, Clears(c) PROVE OwnedBrowsersRun'
    BY <1>7 DEF Clears, OwnedBrowsersRun, Held
  <1>8. ASSUME NEW c \in Clients, Follows(c) PROVE OwnedBrowsersRun'
    BY <1>8 DEF Follows, OwnedBrowsersRun, Held
  <1>9. ASSUME NEW c \in Clients, HangsUp(c) PROVE OwnedBrowsersRun'
    BY <1>9 DEF HangsUp, OwnedBrowsersRun, Held
  <1>10. ASSUME NEW c \in Clients, Counts(c) PROVE OwnedBrowsersRun'
    BY <1>10 DEF Counts, OwnedBrowsersRun, Held
  <1>11. ASSUME NEW c \in Clients, Picks(c) PROVE OwnedBrowsersRun'
    BY <1>11 DEF Picks, OwnedBrowsersRun, Held, SwitchTypeOK
  <1>12. ASSUME NEW c \in Clients, Upgrades(c) PROVE OwnedBrowsersRun'
    BY <1>12 DEF Upgrades, OwnedBrowsersRun, Held
  <1>13. ASSUME NEW c \in Clients, DropsEntry(c) PROVE OwnedBrowsersRun'
    BY <1>13 DEF DropsEntry, OwnedBrowsersRun, Held, SwitchTypeOK
  <1>14. ASSUME NEW c \in Clients, Leaves(c) PROVE OwnedBrowsersRun'
    BY <1>14 DEF Leaves, OwnedBrowsersRun, Held
  <1>15. ASSUME NEW b \in Browsers, ProcessEnds(b) PROVE OwnedBrowsersRun'
    BY <1>15 DEF ProcessEnds, OwnedBrowsersRun, Held
  <1>16. ASSUME require_takeover_ready \/ Mints \/ NotReady PROVE OwnedBrowsersRun'
    BY <1>16 DEF require_takeover_ready, Mints, NotReady, OwnedBrowsersRun, Held, SwitchTypeOK
  <1>17. ASSUME Lapses PROVE OwnedBrowsersRun'
    BY <1>17 DEF Lapses, OwnedBrowsersRun, Held
  <1>18. ASSUME Records PROVE OwnedBrowsersRun'
    BY <1>18 DEF Records, OwnedBrowsersRun, Held
  <1>19. ASSUME UNCHANGED vars PROVE OwnedBrowsersRun'
    BY <1>19 DEF vars, OwnedBrowsersRun, Held
  <1> QED
    BY <1>1, <1>2, <1>3, <1>4, <1>5, <1>6, <1>7, <1>8, <1>9, <1>10, <1>11, <1>12, <1>13, <1>14, <1>15, <1>16, <1>17, <1>18, <1>19 DEF Next, ClientStep, EnsureStep

\* A client holds its entry from the lookup until it lets go.
LEMMA EntriesStep == SwitchTypeOK /\ HoldersHaveAnEntry /\ [Next]_vars => HoldersHaveAnEntry'
  <1> SUFFICES ASSUME SwitchTypeOK, HoldersHaveAnEntry, [Next]_vars PROVE HoldersHaveAnEntry'
    OBVIOUS
  <1> USE DEF Goto, host, recent, mints
  <1>1. ASSUME NEW c \in Clients, Ask(c) PROVE HoldersHaveAnEntry'
    BY <1>1 DEF Ask, HoldersHaveAnEntry, SwitchTypeOK
  <1>2. ASSUME NEW c \in Clients, LooksUp(c) PROVE HoldersHaveAnEntry'
    BY <1>2 DEF LooksUp, HoldersHaveAnEntry, SwitchTypeOK
  <1>3. ASSUME NEW c \in Clients, Locks(c) PROVE HoldersHaveAnEntry'
    BY <1>3 DEF Locks, HoldersHaveAnEntry, SwitchTypeOK
  <1>4. ASSUME NEW c \in Clients, Swaps(c) PROVE HoldersHaveAnEntry'
    BY <1>4 DEF Swaps, HoldersHaveAnEntry, SwitchTypeOK
  <1>5. ASSUME NEW c \in Clients, LaunchFails(c) PROVE HoldersHaveAnEntry'
    BY <1>5 DEF LaunchFails, HoldersHaveAnEntry, SwitchTypeOK
  <1>6. ASSUME NEW c \in Clients, Revokes(c) PROVE HoldersHaveAnEntry'
    BY <1>6 DEF Revokes, HoldersHaveAnEntry, SwitchTypeOK
  <1>7. ASSUME NEW c \in Clients, Clears(c) PROVE HoldersHaveAnEntry'
    BY <1>7 DEF Clears, HoldersHaveAnEntry, SwitchTypeOK
  <1>8. ASSUME NEW c \in Clients, Follows(c) PROVE HoldersHaveAnEntry'
    BY <1>8 DEF Follows, HoldersHaveAnEntry, SwitchTypeOK
  <1>9. ASSUME NEW c \in Clients, HangsUp(c) PROVE HoldersHaveAnEntry'
    BY <1>9 DEF HangsUp, HoldersHaveAnEntry, SwitchTypeOK
  <1>10. ASSUME NEW c \in Clients, Counts(c) PROVE HoldersHaveAnEntry'
    BY <1>10 DEF Counts, HoldersHaveAnEntry, SwitchTypeOK
  <1>11. ASSUME NEW c \in Clients, Picks(c) PROVE HoldersHaveAnEntry'
    BY <1>11 DEF Picks, HoldersHaveAnEntry, SwitchTypeOK
  <1>12. ASSUME NEW c \in Clients, Upgrades(c) PROVE HoldersHaveAnEntry'
    BY <1>12 DEF Upgrades, HoldersHaveAnEntry, SwitchTypeOK
  <1>13. ASSUME NEW c \in Clients, DropsEntry(c) PROVE HoldersHaveAnEntry'
    BY <1>13 DEF DropsEntry, HoldersHaveAnEntry, SwitchTypeOK
  <1>14. ASSUME NEW c \in Clients, Leaves(c) PROVE HoldersHaveAnEntry'
    BY <1>14 DEF Leaves, HoldersHaveAnEntry, SwitchTypeOK
  <1>15. ASSUME NEW b \in Browsers, ProcessEnds(b) PROVE HoldersHaveAnEntry'
    BY <1>15 DEF ProcessEnds, HoldersHaveAnEntry, SwitchTypeOK
  <1>16. ASSUME require_takeover_ready \/ Mints \/ NotReady PROVE HoldersHaveAnEntry'
    BY <1>16 DEF require_takeover_ready, Mints, NotReady, HoldersHaveAnEntry, SwitchTypeOK
  <1>17. ASSUME Lapses PROVE HoldersHaveAnEntry'
    BY <1>17 DEF Lapses, HoldersHaveAnEntry, SwitchTypeOK
  <1>18. ASSUME Records PROVE HoldersHaveAnEntry'
    BY <1>18 DEF Records, HoldersHaveAnEntry, SwitchTypeOK
  <1>19. ASSUME UNCHANGED vars PROVE HoldersHaveAnEntry'
    BY <1>19 DEF vars, HoldersHaveAnEntry, SwitchTypeOK
  <1> QED
    BY <1>1, <1>2, <1>3, <1>4, <1>5, <1>6, <1>7, <1>8, <1>9, <1>10, <1>11, <1>12, <1>13, <1>14, <1>15, <1>16, <1>17, <1>18, <1>19 DEF Next, ClientStep, EnsureStep

\* A launch begins over no client, and those that come later are overtaken.
LEMMA OverNobodyStep == SwitchTypeOK /\ LaunchesOverNobody /\ [Next]_vars => LaunchesOverNobody'
  <1> SUFFICES ASSUME SwitchTypeOK, LaunchesOverNobody, [Next]_vars PROVE LaunchesOverNobody'
    OBVIOUS
  <1> USE DEF Goto, host, recent, mints
  <1>1. ASSUME NEW c \in Clients, Ask(c) PROVE LaunchesOverNobody'
    <2>1. /\ \E q \in {"ensured", "asked"} : pc' = [pc EXCEPT ![c] = q]
          /\ overtaken' = overtaken \ {c}
      BY <1>1 DEF Ask
    <2>2. pc \in [Clients -> Undecided \cup Holding \cup {"idle", "leaving"}]
      BY DEF SwitchTypeOK
    <2>3. ASSUME NEW d \in Clients, pc'[d] = "launching" PROVE cdp_clients' \subseteq overtaken'
      <3>1. pc[d] = "launching" /\ cdp_clients \subseteq overtaken
        BY <2>1, <2>2, <2>3 DEF LaunchesOverNobody
      <3>2. cdp_clients' \subseteq cdp_clients \ {c}
        BY <2>1, <2>2 DEF cdp_clients
      <3> QED
        BY <2>1, <3>1, <3>2
    <2> QED
      BY <2>3 DEF LaunchesOverNobody
  <1>2. ASSUME NEW c \in Clients, LooksUp(c) PROVE LaunchesOverNobody'
    BY <1>2 DEF LooksUp, LaunchesOverNobody, cdp_clients, SwitchTypeOK
  <1>3. ASSUME NEW c \in Clients, Locks(c) PROVE LaunchesOverNobody'
    <2>1. overtaken' = overtaken /\ pc[c] = "queued"
      BY <1>3 DEF Locks
    <2>2. pc \in [Clients -> Undecided \cup Holding \cup {"idle", "leaving"}]
      BY DEF SwitchTypeOK
    <2>3. CASE pc' = [pc EXCEPT ![c] = "launching"] /\ cdp_clients = {}
      <3>1. cdp_clients' = {}
        BY <2>2, <2>3 DEF cdp_clients
      <3> QED
        BY <3>1 DEF LaunchesOverNobody
    <2>4. CASE pc' = [pc EXCEPT ![c] = "ensured"] \/ pc' = [pc EXCEPT ![c] = "idle"]
      <3>1. cdp_clients' \subseteq cdp_clients
        BY <2>2, <2>4 DEF cdp_clients
      <3>2. \A d \in Clients : pc'[d] = "launching" => pc[d] = "launching"
        BY <2>2, <2>4
      <3> QED
        BY <2>1, <3>1, <3>2 DEF LaunchesOverNobody
    <2> QED
      BY <1>3, <2>3, <2>4 DEF Locks
  <1>4. ASSUME NEW c \in Clients, Swaps(c) PROVE LaunchesOverNobody'
    BY <1>4 DEF Swaps, LaunchesOverNobody, cdp_clients, SwitchTypeOK
  <1>5. ASSUME NEW c \in Clients, LaunchFails(c) PROVE LaunchesOverNobody'
    BY <1>5, NoneIsNobody DEF LaunchFails, LaunchesOverNobody, cdp_clients, SwitchTypeOK
  <1>6. ASSUME NEW c \in Clients, Revokes(c) PROVE LaunchesOverNobody'
    BY <1>6 DEF Revokes, LaunchesOverNobody, cdp_clients, SwitchTypeOK
  <1>7. ASSUME NEW c \in Clients, Clears(c) PROVE LaunchesOverNobody'
    BY <1>7 DEF Clears, LaunchesOverNobody, cdp_clients, SwitchTypeOK
  <1>8. ASSUME NEW c \in Clients, Follows(c) PROVE LaunchesOverNobody'
    BY <1>8 DEF Follows, LaunchesOverNobody, cdp_clients, SwitchTypeOK
  <1>9. ASSUME NEW c \in Clients, HangsUp(c) PROVE LaunchesOverNobody'
    BY <1>9 DEF HangsUp, LaunchesOverNobody, cdp_clients, SwitchTypeOK
  <1>10. ASSUME NEW c \in Clients, Counts(c) PROVE LaunchesOverNobody'
    BY <1>10, NoneIsNobody DEF Counts, LaunchesOverNobody, cdp_clients, SwitchTypeOK
  <1>11. ASSUME NEW c \in Clients, Picks(c) PROVE LaunchesOverNobody'
    BY <1>11 DEF Picks, LaunchesOverNobody, cdp_clients, SwitchTypeOK
  <1>12. ASSUME NEW c \in Clients, Upgrades(c) PROVE LaunchesOverNobody'
    BY <1>12 DEF Upgrades, LaunchesOverNobody, cdp_clients, SwitchTypeOK
  <1>13. ASSUME NEW c \in Clients, DropsEntry(c) PROVE LaunchesOverNobody'
    BY <1>13 DEF DropsEntry, LaunchesOverNobody, cdp_clients, SwitchTypeOK
  <1>14. ASSUME NEW c \in Clients, Leaves(c) PROVE LaunchesOverNobody'
    BY <1>14 DEF Leaves, LaunchesOverNobody, cdp_clients, SwitchTypeOK
  <1>15. ASSUME NEW b \in Browsers, ProcessEnds(b) PROVE LaunchesOverNobody'
    BY <1>15 DEF ProcessEnds, LaunchesOverNobody, cdp_clients, SwitchTypeOK
  <1>16. ASSUME require_takeover_ready \/ Mints \/ NotReady PROVE LaunchesOverNobody'
    BY <1>16 DEF require_takeover_ready, Mints, NotReady, LaunchesOverNobody, cdp_clients, SwitchTypeOK
  <1>17. ASSUME Lapses PROVE LaunchesOverNobody'
    BY <1>17 DEF Lapses, LaunchesOverNobody, cdp_clients, SwitchTypeOK
  <1>18. ASSUME Records PROVE LaunchesOverNobody'
    BY <1>18 DEF Records, LaunchesOverNobody, cdp_clients, SwitchTypeOK
  <1>19. ASSUME UNCHANGED vars PROVE LaunchesOverNobody'
    BY <1>19 DEF vars, LaunchesOverNobody, cdp_clients, SwitchTypeOK
  <1> QED
    BY <1>1, <1>2, <1>3, <1>4, <1>5, <1>6, <1>7, <1>8, <1>9, <1>10, <1>11, <1>12, <1>13, <1>14, <1>15, <1>16, <1>17, <1>18, <1>19 DEF Next, ClientStep, EnsureStep

\* Only a swap makes an entry old, and it overtakes everyone who holds one.
LEMMA LeftBehindStep == SwitchTypeOK /\ LaunchesOverNobody /\ OnlyOvertakenClientsAreLeftBehind /\ [Next]_vars => OnlyOvertakenClientsAreLeftBehind'
  <1> SUFFICES ASSUME SwitchTypeOK, LaunchesOverNobody, OnlyOvertakenClientsAreLeftBehind, [Next]_vars PROVE OnlyOvertakenClientsAreLeftBehind'
    OBVIOUS
  <1> USE DEF Goto, host, recent, mints
  <1>1. ASSUME NEW c \in Clients, Ask(c) PROVE OnlyOvertakenClientsAreLeftBehind'
    BY <1>1 DEF Ask, OnlyOvertakenClientsAreLeftBehind, SwitchTypeOK
  <1>2. ASSUME NEW c \in Clients, LooksUp(c) PROVE OnlyOvertakenClientsAreLeftBehind'
    BY <1>2 DEF LooksUp, OnlyOvertakenClientsAreLeftBehind, SwitchTypeOK
  <1>3. ASSUME NEW c \in Clients, Locks(c) PROVE OnlyOvertakenClientsAreLeftBehind'
    BY <1>3 DEF Locks, OnlyOvertakenClientsAreLeftBehind, SwitchTypeOK
  <1>4. ASSUME NEW c \in Clients, Swaps(c) PROVE OnlyOvertakenClientsAreLeftBehind'
    BY <1>4 DEF Swaps, LaunchesOverNobody, cdp_clients, OnlyOvertakenClientsAreLeftBehind, SwitchTypeOK
  <1>5. ASSUME NEW c \in Clients, LaunchFails(c) PROVE OnlyOvertakenClientsAreLeftBehind'
    BY <1>5 DEF LaunchFails, OnlyOvertakenClientsAreLeftBehind, SwitchTypeOK
  <1>6. ASSUME NEW c \in Clients, Revokes(c) PROVE OnlyOvertakenClientsAreLeftBehind'
    BY <1>6 DEF Revokes, OnlyOvertakenClientsAreLeftBehind, SwitchTypeOK
  <1>7. ASSUME NEW c \in Clients, Clears(c) PROVE OnlyOvertakenClientsAreLeftBehind'
    BY <1>7 DEF Clears, OnlyOvertakenClientsAreLeftBehind, SwitchTypeOK
  <1>8. ASSUME NEW c \in Clients, Follows(c) PROVE OnlyOvertakenClientsAreLeftBehind'
    BY <1>8 DEF Follows, OnlyOvertakenClientsAreLeftBehind, SwitchTypeOK
  <1>9. ASSUME NEW c \in Clients, HangsUp(c) PROVE OnlyOvertakenClientsAreLeftBehind'
    BY <1>9 DEF HangsUp, OnlyOvertakenClientsAreLeftBehind, SwitchTypeOK
  <1>10. ASSUME NEW c \in Clients, Counts(c) PROVE OnlyOvertakenClientsAreLeftBehind'
    BY <1>10 DEF Counts, OnlyOvertakenClientsAreLeftBehind, SwitchTypeOK
  <1>11. ASSUME NEW c \in Clients, Picks(c) PROVE OnlyOvertakenClientsAreLeftBehind'
    BY <1>11 DEF Picks, OnlyOvertakenClientsAreLeftBehind, SwitchTypeOK
  <1>12. ASSUME NEW c \in Clients, Upgrades(c) PROVE OnlyOvertakenClientsAreLeftBehind'
    BY <1>12 DEF Upgrades, OnlyOvertakenClientsAreLeftBehind, SwitchTypeOK
  <1>13. ASSUME NEW c \in Clients, DropsEntry(c) PROVE OnlyOvertakenClientsAreLeftBehind'
    BY <1>13 DEF DropsEntry, OnlyOvertakenClientsAreLeftBehind, SwitchTypeOK
  <1>14. ASSUME NEW c \in Clients, Leaves(c) PROVE OnlyOvertakenClientsAreLeftBehind'
    BY <1>14 DEF Leaves, OnlyOvertakenClientsAreLeftBehind, SwitchTypeOK
  <1>15. ASSUME NEW b \in Browsers, ProcessEnds(b) PROVE OnlyOvertakenClientsAreLeftBehind'
    BY <1>15 DEF ProcessEnds, OnlyOvertakenClientsAreLeftBehind, SwitchTypeOK
  <1>16. ASSUME require_takeover_ready \/ Mints \/ NotReady PROVE OnlyOvertakenClientsAreLeftBehind'
    BY <1>16 DEF require_takeover_ready, Mints, NotReady, OnlyOvertakenClientsAreLeftBehind, SwitchTypeOK
  <1>17. ASSUME Lapses PROVE OnlyOvertakenClientsAreLeftBehind'
    BY <1>17 DEF Lapses, OnlyOvertakenClientsAreLeftBehind, SwitchTypeOK
  <1>18. ASSUME Records PROVE OnlyOvertakenClientsAreLeftBehind'
    BY <1>18 DEF Records, OnlyOvertakenClientsAreLeftBehind, SwitchTypeOK
  <1>19. ASSUME UNCHANGED vars PROVE OnlyOvertakenClientsAreLeftBehind'
    BY <1>19 DEF vars, OnlyOvertakenClientsAreLeftBehind, SwitchTypeOK
  <1> QED
    BY <1>1, <1>2, <1>3, <1>4, <1>5, <1>6, <1>7, <1>8, <1>9, <1>10, <1>11, <1>12, <1>13, <1>14, <1>15, <1>16, <1>17, <1>18, <1>19 DEF Next, ClientStep, EnsureStep

\* Credentials of an earlier browser live only between swap and revocation.
LEMMA CredentialsStep == SwitchTypeOK /\ CredentialsDieWithTheirBrowser /\ [Next]_vars => CredentialsDieWithTheirBrowser'
  <1> SUFFICES ASSUME SwitchTypeOK, CredentialsDieWithTheirBrowser, [Next]_vars PROVE CredentialsDieWithTheirBrowser'
    OBVIOUS
  <1> USE DEF Goto, host, recent, mints
  <1>1. ASSUME NEW c \in Clients, Ask(c) PROVE CredentialsDieWithTheirBrowser'
    BY <1>1 DEF Ask, CredentialsDieWithTheirBrowser, SwitchTypeOK
  <1>2. ASSUME NEW c \in Clients, LooksUp(c) PROVE CredentialsDieWithTheirBrowser'
    BY <1>2 DEF LooksUp, CredentialsDieWithTheirBrowser, SwitchTypeOK
  <1>3. ASSUME NEW c \in Clients, Locks(c) PROVE CredentialsDieWithTheirBrowser'
    BY <1>3 DEF Locks, CredentialsDieWithTheirBrowser, SwitchTypeOK
  <1>4. ASSUME NEW c \in Clients, Swaps(c) PROVE CredentialsDieWithTheirBrowser'
    BY <1>4 DEF Swaps, CredentialsDieWithTheirBrowser, SwitchTypeOK
  <1>5. ASSUME NEW c \in Clients, LaunchFails(c) PROVE CredentialsDieWithTheirBrowser'
    BY <1>5 DEF LaunchFails, CredentialsDieWithTheirBrowser, SwitchTypeOK
  <1>6. ASSUME NEW c \in Clients, Revokes(c) PROVE CredentialsDieWithTheirBrowser'
    BY <1>6 DEF Revokes, revoke_takeover_handoffs, CredentialsDieWithTheirBrowser
  <1>7. ASSUME NEW c \in Clients, Clears(c) PROVE CredentialsDieWithTheirBrowser'
    BY <1>7 DEF Clears, CredentialsDieWithTheirBrowser, SwitchTypeOK
  <1>8. ASSUME NEW c \in Clients, Follows(c) PROVE CredentialsDieWithTheirBrowser'
    BY <1>8 DEF Follows, CredentialsDieWithTheirBrowser, SwitchTypeOK
  <1>9. ASSUME NEW c \in Clients, HangsUp(c) PROVE CredentialsDieWithTheirBrowser'
    BY <1>9 DEF HangsUp, CredentialsDieWithTheirBrowser, SwitchTypeOK
  <1>10. ASSUME NEW c \in Clients, Counts(c) PROVE CredentialsDieWithTheirBrowser'
    BY <1>10 DEF Counts, CredentialsDieWithTheirBrowser, SwitchTypeOK
  <1>11. ASSUME NEW c \in Clients, Picks(c) PROVE CredentialsDieWithTheirBrowser'
    BY <1>11 DEF Picks, CredentialsDieWithTheirBrowser, SwitchTypeOK
  <1>12. ASSUME NEW c \in Clients, Upgrades(c) PROVE CredentialsDieWithTheirBrowser'
    BY <1>12 DEF Upgrades, CredentialsDieWithTheirBrowser, SwitchTypeOK
  <1>13. ASSUME NEW c \in Clients, DropsEntry(c) PROVE CredentialsDieWithTheirBrowser'
    BY <1>13 DEF DropsEntry, CredentialsDieWithTheirBrowser, SwitchTypeOK
  <1>14. ASSUME NEW c \in Clients, Leaves(c) PROVE CredentialsDieWithTheirBrowser'
    BY <1>14 DEF Leaves, CredentialsDieWithTheirBrowser, SwitchTypeOK
  <1>15. ASSUME NEW b \in Browsers, ProcessEnds(b) PROVE CredentialsDieWithTheirBrowser'
    BY <1>15 DEF ProcessEnds, CredentialsDieWithTheirBrowser, SwitchTypeOK
  <1>16. ASSUME require_takeover_ready \/ Mints \/ NotReady PROVE CredentialsDieWithTheirBrowser'
    BY <1>16 DEF require_takeover_ready, Mints, NotReady, CredentialsDieWithTheirBrowser, SwitchTypeOK
  <1>17. ASSUME Lapses PROVE CredentialsDieWithTheirBrowser'
    BY <1>17 DEF Lapses, CredentialsDieWithTheirBrowser, SwitchTypeOK
  <1>18. ASSUME Records PROVE CredentialsDieWithTheirBrowser'
    BY <1>18 DEF Records, CredentialsDieWithTheirBrowser, SwitchTypeOK
  <1>19. ASSUME UNCHANGED vars PROVE CredentialsDieWithTheirBrowser'
    BY <1>19 DEF vars, CredentialsDieWithTheirBrowser, SwitchTypeOK
  <1> QED
    BY <1>1, <1>2, <1>3, <1>4, <1>5, <1>6, <1>7, <1>8, <1>9, <1>10, <1>11, <1>12, <1>13, <1>14, <1>15, <1>16, <1>17, <1>18, <1>19 DEF Next, ClientStep, EnsureStep

\* The invariant holds in every reachable state.
THEOREM SwitchInvariant == Spec => []SwitchInv
  <1>1. SwitchInv /\ [Next]_vars => SwitchInv'
    BY TypeStep, OwnersStep, EntriesStep, OverNobodyStep, LeftBehindStep, CredentialsStep
       DEF SwitchInv
  <1> QED
    BY SwitchInit, <1>1, PTL DEF Spec

\* The type invariant: the lock is held exactly by the request that switches.
THEOREM SwitchTypeCorrect == Spec => []SwitchTypeOK
  <1>1. SwitchInv => SwitchTypeOK
    BY DEF SwitchInv
  <1> QED
    BY SwitchInvariant, <1>1, PTL

\* A client's browser outlives every switch that lands under it.
THEOREM BrowsersOutliveTheirClients == Spec => []ClientsKeepTheirBrowser
  <1>1. SwitchInv => ClientsKeepTheirBrowser
    BY DEF SwitchInv, OwnedBrowsersRun, HoldersHaveAnEntry, Held, ClientsKeepTheirBrowser
  <1> QED
    BY SwitchInvariant, <1>1, PTL

\* Nobody who was counted when a switch looked loses the active browser to it.
THEOREM SwitchesSpareTheCounted == Spec => []OnlyOvertakenClientsAreLeftBehind
  <1>1. SwitchInv => OnlyOvertakenClientsAreLeftBehind
    BY DEF SwitchInv
  <1> QED
    BY SwitchInvariant, <1>1, PTL

\* No credential outlives the browser it was minted under.
THEOREM NoCredentialOutlivesItsBrowser == Spec => []CredentialsDieWithTheirBrowser
  <1>1. SwitchInv => CredentialsDieWithTheirBrowser
    BY DEF SwitchInv
  <1> QED
    BY SwitchInvariant, <1>1, PTL
================================================================================
