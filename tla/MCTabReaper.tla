----------------------------- MODULE MCTabReaper -----------------------------
(***************************************************************************)
(* Instance of TabReaper: either two drivers keep one browser busy, or one *)
(* driver comes and goes while a switch replaces the browser.              *)
(***************************************************************************)
EXTENDS TabReaper

CONSTANT second    \* the other driver
VARIABLE crowd

CrowdInit == crowd \in {"drivers", "browsers"} /\ Init

CrowdNext ==
    /\ Next
    /\ crowd = "drivers" => ~switching'
    /\ crowd = "browsers" => phase'[second] = "idle"
    /\ UNCHANGED crowd

CrowdSpec == CrowdInit /\ [][CrowdNext]_<<vars, crowd>> /\ Fairness
=============================================================================
