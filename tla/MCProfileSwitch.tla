---------------------------- MODULE MCProfileSwitch ----------------------------
(* The host's two shared books, which share no state with each other and are  *)
(* explored one at a time: which profile and browser it serves, with two       *)
(* requests for two profiles and three browsers (one request can switch under  *)
(* the other, away and back); and who holds which tab, with two drivers and    *)
(* two tabs.  Liveness is checked, so no symmetry.                             *)
EXTENDS ProfileSwitch, TabLedger

\* Profiles and tabs are interchangeable: the host does not start under the
\* last one, and the last tab is not opened before the other.  Nothing reads the
\* ring, and no step waits for a mint: the two are explored apart.
CONSTANTS lastProfile, lastTab
VARIABLE part

BooksInit == part \in {"profile", "tabs"} /\ Init /\ LedgerInit
             /\ profileOf # <<lastProfile>>
             /\ (part = "tabs" => profileOf = <<Ephemeral>>)

BooksNext ==
  /\ UNCHANGED part
  /\ \/ /\ part = "profile" /\ Next /\ UNCHANGED ledgerVars
        /\ ring' # << >> => credentials' = {} /\ probed' = 0
     \/ /\ part = "tabs" /\ LedgerNext /\ UNCHANGED vars
        /\ lastTab \in used' => Targets = used'

\* ProfileSwitch's fairness is about its own variables; while the tabs are
\* explored every request is idle and none of it is enabled.
BooksSpec == BooksInit /\ [][BooksNext]_<<part, vars, ledgerVars>> /\ Fairness
===============================================================================
