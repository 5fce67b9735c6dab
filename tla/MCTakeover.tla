------------------------------ MODULE MCTakeover ------------------------------
(* A takeover from three sides, which share no state and are explored one at *)
(* a time.  Its credentials: a panel command of either kind and the agent, on *)
(* a host with or without a token; a unit of time is 20 seconds, the idle     *)
(* timeout six of them; two commands for what concurrent exchanges do.  The   *)
(* command that asks for it, on the default container and elsewhere.  The     *)
(* panel and its relay, served by the host or framed.                         *)
EXTENDS Takeover, FetchCommand, DisplayRelay
CONSTANTS o1, o2
VARIABLE part

Line(site, endpoint, name, takes, tab, jar) ==
  [site |-> site, endpoint |-> endpoint, profile |-> name, takeover |-> takes, tab |-> tab, jar |-> jar]
MCLines == {
  Line("site", None, None, TRUE, "new", FALSE), Line("site", None, "work", TRUE, "new", TRUE),
  Line("site", "named", "work", TRUE, "new", FALSE), Line("site", "named", None, TRUE, "old", FALSE),
  Line("site", "9222", None, TRUE, "new", FALSE), Line("site", "9222", "work", TRUE, "old", FALSE),
  Line("bad", None, None, TRUE, "new", FALSE), Line("site", None, "work", FALSE, "new", FALSE),
  Line("site", None, None, FALSE, "new", TRUE), Line("site", "named", None, FALSE, "old", TRUE)}
Box(port, up, shows) == [port |-> port, up |-> up, ready |-> shows]
MCBoxes == {Box("9222", FALSE, FALSE), Box("9222", TRUE, FALSE), Box("9222", TRUE, TRUE)}
Query(path, size) == [path |-> path, resize |-> size]
\* A fresh address, and one that an older window manager, or none, left.
MCQueries == {Query("none", "none"), Query("none", "remote"), Query("own", "none")}

-----------------------------------------------------------------------------
Rests(p, set, v) == part # p => v = CHOOSE x \in set : TRUE
allVars == <<part, vars, cmdVars, relayVars>>

TakesOver == part = "credentials" /\ Next /\ UNCHANGED <<part, cmdVars, relayVars>>
Commands == part = "command" /\ CommandNext /\ UNCHANGED <<part, vars, relayVars>>
Relayed == part = "relay" /\ RelayNext /\ UNCHANGED <<part, vars, cmdVars>>

PartsInit ==
  /\ part \in {"credentials", "command", "relay"}
  /\ Init /\ Rests("credentials", BOOLEAN, token) /\ Rests("credentials", [Owners -> {"open", "mint"}], way)
  /\ CommandInit /\ Rests("command", Lines, line) /\ Rests("command", Boxes, box)
  /\ RelayInit /\ Rests("relay", Served, base) /\ Rests("relay", BOOLEAN, manager) /\ Rests("relay", Queries, query)
PartsNext == TakesOver \/ Commands \/ Relayed

\* The relay's loops run, the display's client and server read what they get,
\* and connections are made or given up.
RelayFairness ==
  /\ WF_allVars(part = "relay" /\ RelayEnds /\ UNCHANGED <<part, vars, cmdVars>>)
  /\ \A e \in Sides :
       /\ WF_allVars(part = "relay" /\ RelayProgress(e) /\ UNCHANGED <<part, vars, cmdVars>>)
       /\ WF_allVars(part = "relay" /\ EndReads(e) /\ UNCHANGED <<part, vars, cmdVars>>)
CredentialFairness ==
  /\ WF_allVars(part = "credentials" /\ Tick /\ UNCHANGED <<part, cmdVars, relayVars>>)
  /\ \A c \in Clients :
       WF_allVars(part = "credentials" /\ Handles(c) /\ UNCHANGED <<part, cmdVars, relayVars>>)
  /\ \A o \in Owners :
       /\ WF_allVars(part = "credentials" /\ OwnerStep(o) /\ UNCHANGED <<part, cmdVars, relayVars>>)
       /\ WF_allVars(part = "credentials" /\ PanelMustEnd(o) /\ UNCHANGED <<part, cmdVars, relayVars>>)
PartsSpec == PartsInit /\ [][PartsNext]_allVars /\ CredentialFairness /\ RelayFairness
=============================================================================
