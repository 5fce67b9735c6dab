------------------------------ MODULE FetchCommand ------------------------------
(***************************************************************************)
(* `afhttp fetch` around the fetch itself (cli/cmd/fetch.rs): which host   *)
(* and profile a command line means, and what is handed back when the page *)
(* wants a person: a link to the panel, which shows a host's display and   *)
(* names no tab, and the command that fetches the same tab again.  The     *)
(* agent runs that command later; the default container may have moved to  *)
(* another port by then, also one that the first line named.               *)
(***************************************************************************)
EXTENDS Naturals

CONSTANTS Lines,    \* command lines: [site, endpoint, profile, takeover, tab, jar]
          Boxes,    \* what the default container may be when the agent begins
          Ports,    \* host ports it may publish
          MaxMoves  \* bound on what happens to it

Words == {"none", "new", "tab"} \cup UNION {{l.site, l.profile, l.tab} : l \in Lines}
CommandLine == [site : Words, endpoint : {"none", "named"} \cup Ports, profile : Words,
                takeover : BOOLEAN, tab : Words, jar : BOOLEAN]
ASSUME MaxMovesAssumption == MaxMoves \in Nat
\* A line names no host, one of its own that stays where it is, or a port the
\* container may have.
ASSUME LinesAssumption == \A l \in Lines : l \in CommandLine
ASSUME PortsAssumption ==
  /\ {"none", "named", "inline"} \cap Ports = {}
  /\ \A b \in Boxes : b.port \in Ports

VARIABLES
  line,    \* the command that runs
  stage,   \* how far it is
  box,     \* the default container: [port, up, ready]
  place,   \* the endpoint the client was built for, "inline" or "http"
  reached, \* what was there when it was last called: "box", "named", "none" or a stranger
  profile, \* the host profile it names
  page,    \* what the fetch brought: [tab, asks, command]
  handoff, \* the host whose display the link shows, or "none"
  told,    \* whether a warning says why there is no link
  earlier, \* the command before this one, where its tab is: [endpoint, reached, profile, tab]
  moves

cmdVars == <<line, stage, box, place, reached, profile, page, handoff, told, earlier, moves>>

None == "none"
NoLine == [site |-> None, endpoint |-> None, profile |-> None, takeover |-> FALSE, tab |-> None, jar |-> FALSE]
NoPage == [tab |-> None, asks |-> FALSE, command |-> NoLine]
NotRun == [endpoint |-> None, reached |-> None, profile |-> None, tab |-> None]

CommandInit ==
  /\ line \in Lines /\ box \in Boxes
  /\ stage = "arguments" /\ place = None /\ reached = None /\ profile = None
  /\ page = NoPage /\ handoff = None /\ told = FALSE
  /\ earlier = NotRun /\ moves = 0

At(s) == stage' = s
Refused == At("failed")
\* What a client built for an endpoint talks to.
listens(endpoint) ==
  IF endpoint = "named" THEN "named" ELSE IF box.up /\ endpoint = box.port THEN "box" ELSE "stranger"

\* A site without a registrable domain is its own profile; an address without a
\* host, or a name no profile may have, has none.
default_profile_for_url(site) == IF site = "bad" THEN None ELSE site
asked(l) == IF l.profile # None THEN l.profile ELSE IF l.takeover THEN default_profile_for_url(l.site) ELSE None

ResolvesProfile ==
  /\ stage = "arguments"
  /\ profile' = asked(line)
  /\ IF line.takeover /\ profile' = None THEN Refused ELSE At("host")
  /\ UNCHANGED <<line, box, place, reached, page, handoff, told, earlier, moves>>

\* prepare_host: a host that was named is not looked at; one that is needed and
\* was not named is looked for.
NamesHost ==
  /\ stage = "host" /\ line.endpoint # None
  /\ place' = line.endpoint /\ reached' = listens(line.endpoint) /\ At("client")
  /\ UNCHANGED <<line, box, profile, page, handoff, told, earlier, moves>>
needsHost == line.takeover \/ profile # None
GoesWithout ==
  /\ stage = "host" /\ line.endpoint = None /\ ~needsHost
  /\ place' = "inline" /\ At("client")
  /\ UNCHANGED <<line, box, reached, profile, page, handoff, told, earlier, moves>>
Discovers ==
  /\ stage = "host" /\ line.endpoint = None /\ needsHost
  /\ \/ /\ box.up /\ place' = box.port /\ reached' = "box"
        /\ At(IF line.takeover THEN "capabilities" ELSE "client")
     \/ Refused /\ UNCHANGED <<place, reached>>  \* absent, booting, old, or its token unread
  /\ UNCHANGED <<line, box, profile, page, handoff, told, earlier, moves>>
takeoverReady == listens(place) = "box" /\ box.ready
ChecksCapabilities ==
  /\ stage = "capabilities"
  /\ IF takeoverReady THEN At("client") ELSE Refused
  /\ UNCHANGED <<line, box, place, reached, profile, page, handoff, told, earlier, moves>>

\* The token, the body's file, and --wait, --form, --header and --cookie are
\* read after the host was found; a jar needs a host.
BuildsFetch ==
  /\ stage = "client"
  /\ \/ (line.jar => place # "inline") /\ At("fetch")
     \/ Refused
  /\ UNCHANGED <<line, box, place, reached, profile, page, handoff, told, earlier, moves>>

\* The wall's own command, and the one a takeover turns it into.  (Variant: the
\* endpoint is recommended however it was found.)
human_takeover == [line EXCEPT !.takeover = TRUE, !.endpoint = None, !.profile = None, !.tab = "new", !.jar = FALSE]
wherever == IF place = "inline" THEN None ELSE place
takeover_recommended_endpoint == IF line.endpoint # None THEN place ELSE None
prepare_takeover_retry(p) ==
  IF p.tab = None THEN p.command
  ELSE [human_takeover EXCEPT !.endpoint = takeover_recommended_endpoint, !.profile = line.profile, !.tab = p.tab]

\* It calls what listens there by now.  A tab stays open for a person only if
\* the page was not verified; a page that asks may also have been read over
\* HTTP, without a tab.
Fetches ==
  /\ stage = "fetch"
  /\ \/ /\ place \in {"inline", "named"} \/ listens(place) = "box"
        /\ \E tab \in {None, IF line.tab = "new" THEN "tab" ELSE line.tab}, asks \in BOOLEAN :
             LET p == [tab |-> tab, asks |-> asks, command |-> IF asks THEN human_takeover ELSE NoLine] IN
             page' = IF line.takeover /\ asks THEN [p EXCEPT !.command = prepare_takeover_retry(p)] ELSE p
        /\ reached' = (IF place = "inline" THEN reached ELSE listens(place))
        /\ At("handoff")
     \/ Refused /\ UNCHANGED <<page, reached>>  \* the error event carries the trace
  /\ UNCHANGED <<line, box, place, profile, handoff, told, earlier, moves>>

\* mint_handoff, for the page that asks, on the endpoint of the fetch: the host
\* reads a lifetime only, whatever tab it is sent.  A failure keeps the result.
mustMint == line.takeover /\ page.asks
Mints ==
  /\ stage = "handoff" /\ mustMint
  /\ place = "named" \/ (listens(place) = "box" /\ box.ready)
  /\ handoff' = listens(place) /\ At("result")
  /\ UNCHANGED <<line, box, place, reached, profile, page, told, earlier, moves>>
retain_after_handoff_failure == told' = TRUE
MintFails ==
  /\ stage = "handoff" /\ mustMint
  /\ retain_after_handoff_failure /\ At("result")
  /\ UNCHANGED <<line, box, place, reached, profile, page, handoff, earlier, moves>>
NeedsNobody ==
  /\ stage = "handoff" /\ ~mustMint /\ At("result")
  /\ UNCHANGED <<line, box, place, reached, profile, page, handoff, told, earlier, moves>>

\* The agent runs the recommended command, once, in the same environment.
RunsAgain ==
  /\ stage = "result" /\ page.command # NoLine /\ earlier = NotRun
  /\ earlier' = [endpoint |-> line.endpoint, reached |-> reached, profile |-> profile, tab |-> page.tab]
  /\ line' = page.command /\ At("arguments")
  /\ place' = None /\ reached' = None /\ profile' = None
  /\ page' = NoPage /\ handoff' = None /\ told' = FALSE
  /\ UNCHANGED <<box, moves>>

\* The container is stopped, or started again with or without its display, on
\* the same or another port.
BoxMoves ==
  /\ moves < MaxMoves /\ moves' = moves + 1
  /\ \E port \in Ports, up, ready \in BOOLEAN : box' = [port |-> port, up |-> up, ready |-> ready]
  /\ UNCHANGED <<line, stage, place, reached, profile, page, handoff, told, earlier>>

CommandNext ==
  \/ ResolvesProfile \/ NamesHost \/ GoesWithout \/ Discovers \/ ChecksCapabilities \/ BuildsFetch
  \/ Fetches \/ Mints \/ MintFails \/ NeedsNobody \/ RunsAgain \/ BoxMoves
-----------------------------------------------------------------------------
\* The recommended command of a takeover asks for the tab again under the same
\* profile, of the same host wherever it listens by then; a line that named a
\* port itself calls that port again, and gets no page from another host.
\* (prepare_takeover_retry, takeover_recommended_endpoint)
RetryReachesTheTab ==
  (earlier.tab # None /\ line.tab # "new" /\ stage \in {"client", "fetch", "handoff", "result"}) =>
    /\ profile = earlier.profile /\ line.tab = earlier.tab
    /\ (stage \in {"handoff", "result"} \/ earlier.endpoint \notin Ports) => reached = earlier.reached

\* A takeover whose page asks for a person links to the display of the host the
\* page came from, or says why it cannot; nobody else is given a credential.
\* The link itself names no tab.  (run_inner, mint_handoff,
\* retain_after_handoff_failure)
LinkShowsTheHost ==
  stage = "result" =>
    /\ (line.takeover /\ page.asks) => told \/ handoff = reached
    /\ handoff # None => line.takeover /\ page.asks

\* A person comes to the host whose page asked for one, and the agent to the tab
\* that the walled fetch left open there.  (run_inner, prepare_takeover_retry)
TakeoversLeadToTheHost == RetryReachesTheTab /\ LinkShowsTheHost
=============================================================================
