------------------------------- MODULE Container -------------------------------
(***************************************************************************)
(* `afhttp container` (cli/cmd/container.rs, container/*.rs) and the       *)
(* discovery of the default container by other commands: scripts of        *)
(* commands to an external runtime about one container name, its image and *)
(* its data volume.  Several afhttp processes and people use the runtime   *)
(* at once, a command to it may fail, and the host inside boots, falters   *)
(* and exits in its own time.                                              *)
(***************************************************************************)
EXTENDS Naturals, FiniteSets

CONSTANTS Commands,    \* afhttp processes: each runs one command
          Jobs,        \* what they may be asked: functions from Commands to commands
          Worlds,      \* what there may be before: [con, images, handmade]
          TokenTries,  \* 20 in the source
          HealthTries, \* 30 in the source
          MaxEvents,   \* bound on what people and accidents do to the container
          InspectFails \* whether the runtime's `inspect` may fail by itself

None == "none"
TakeoverBrowsers == {"brave", "chrome"}
Components == TakeoverBrowsers \cup {"camoufox", "kasmvnc"}
Tags == SUBSET Components  \* an image's tag spells the set of its components

ASSUME RoundsAssumption == TokenTries \in Nat \ {0} /\ HealthTries \in Nat \ {0} /\ MaxEvents \in Nat
ASSUME InspectAssumption == InspectFails \in BOOLEAN

Makers == {None, "before", "people"}  \* who made a container, when no command did
Published == {None, "9222", "9333"}
Browsers == TakeoverBrowsers \cup {None, "camoufox", "headless"}
Healths == {None, "booting", "starting", "degraded", "ok"}
\* A container has no health only when it has not run.
ContainerRecord ==
  {c \in [image : Tags, content : (SUBSET Components) \cup {{"absent"}}, own : BOOLEAN,
          port : Published, foreign : BOOLEAN, old : BOOLEAN, running : BOOLEAN,
          browser : Browsers, health : Healths, by : Commands \cup Makers] :
     c.running => c.health # None}

VARIABLES
  runtime,  \* "apple", or "docker" for Docker and Podman
  con,      \* the container that has the name, or NoCon
  images,   \* what each tag's image holds, {"absent"} if there is none
  handmade, \* tags whose image was not built by afhttp
  volume,   \* [made, owned (the image's user may write), token]
  context,  \* whether the build context is in the user's cache
  cmd, where, tries,
  saw,      \* what the process last inspected: the container, or NoCon
  checked,  \* history: what its check for a foreign container saw
  talksTo,  \* where it talks to the host, or None
  outcome,
  sentTo, published,  \* history: ports given the token; ports published meanwhile
  events

engine == <<runtime, con, images, handmade, volume, context>>
procs == <<cmd, tries, saw, checked, talksTo, outcome, sentTo>>
contVars == <<engine, procs, where, published, events>>

NoCon == [image |-> {}, content |-> {}, own |-> TRUE, port |-> None, foreign |-> FALSE,
          old |-> FALSE, running |-> FALSE, browser |-> None, health |-> None, by |-> None]
NoImage == {"absent"}

\* What a command line can ask for: install always has a port to publish.
Asked ==
  [kind : {"install", "uninstall", "status", "discover", "token"}, with : SUBSET Components,
   takeover : BOOLEAN, browser : Browsers, persistent : BOOLEAN, port : Published,
   rebuild : BOOLEAN, purge : BOOLEAN]
ASSUME JobsAssumption ==
  \A j \in Jobs : j \in [Commands -> Asked] /\ \A p \in Commands : j[p].kind = "install" => j[p].port # None
\* Only an image made by hand is not what its tag says.
ASSUME WorldsAssumption ==
  \A w \in Worlds :
    /\ w.con \in ContainerRecord /\ w.con.by \in Makers /\ w.handmade \subseteq Tags
    /\ w.images \in [Tags -> (SUBSET Components) \cup {NoImage}]
    /\ \A t \in Tags \ w.handmade : w.images[t] \in {t, NoImage}
ASSUME CommandsAssumption == Commands \cap Makers = {}

Usual == {"brave", "kasmvnc"}
Settled == [NoCon EXCEPT !.image = Usual, !.content = Usual, !.port = "9222", !.running = TRUE, !.browser = "brave",
                         !.health = "ok", !.by = "before"]
detect_runtime(here, mac) ==
  IF mac /\ "apple" \in here THEN "apple"
  ELSE IF "podman" \in here THEN "podman" ELSE IF "docker" \in here THEN "docker" ELSE None

ContInit ==
  /\ \E here \in SUBSET {"apple", "podman", "docker"}, mac \in BOOLEAN :
       detect_runtime(here, mac) # None /\ runtime = IF detect_runtime(here, mac) = "apple" THEN "apple" ELSE "docker"
  /\ context = FALSE
  /\ \E w \in Worlds : con = w.con /\ images = w.images /\ handmade = w.handmade
  /\ volume = [made |-> con # NoCon, owned |-> con # NoCon, token |-> con # NoCon /\ ~con.foreign]
  /\ cmd \in Jobs
  /\ where = [p \in Commands |-> "start"]
  /\ tries = [p \in Commands |-> 0]
  /\ saw = [p \in Commands |-> NoCon]
  /\ checked = [p \in Commands |-> NoCon]
  /\ talksTo = [p \in Commands |-> None]
  /\ outcome = [p \in Commands |-> None]
  /\ sentTo = [p \in Commands |-> {}]
  /\ published = [p \in Commands |-> {con.port}]
  /\ events = 0

Goes(p, to) == where' = [where EXCEPT ![p] = to]
Ends(p, how) == Goes(p, "over") /\ outcome' = [outcome EXCEPT ![p] = how]
Publishes(c) == published' = [p \in Commands |-> published[p] \cup {c.port}]

\* What `inspect` answers; a failure looks like there being no container.
Inspected == IF InspectFails THEN {con, NoCon} ELSE {con}

-------------------------------------------------------------------------------
(* install: what is asked, completed and checked (apply_hard_site_defaults,  *)
(* validate_install_args).                                                    *)

\* The browser asked for, if it can be taken over, else the default one.
selected_takeover_backend(c) == IF c.browser \in TakeoverBrowsers THEN c.browser ELSE "brave"
browserOf(c) ==
  IF c.browser # None THEN c.browser
  ELSE IF c.takeover THEN selected_takeover_backend(c) ELSE "headless"
wanted(c) == c.with \cup (IF c.takeover THEN {"kasmvnc", selected_takeover_backend(c)} ELSE {})

image_tag(c) == wanted(c)

cannotTakeOver(c) == c.takeover /\ browserOf(c) \notin TakeoverBrowsers
persistsCamoufox(c) == c.persistent /\ "camoufox" \in wanted(c) /\ browserOf(c) = "camoufox"

InstallStarts(p) ==
  /\ where[p] = "start" /\ cmd[p].kind = "install"
  /\ /\ ~cannotTakeOver(cmd[p]) /\ ~persistsCamoufox(cmd[p])
        /\ Goes(p, "context") /\ UNCHANGED outcome
     \/ Ends(p, "rejected")  \* the arguments, the runtime, or the log directory
  /\ UNCHANGED <<engine, cmd, tries, saw, checked, talksTo, sentTo, published, events>>

image_exists(tag) == images[tag] # NoImage
mustBuild(c) == c.rebuild \/ ~image_exists(image_tag(c))

WritesContext(p) ==
  /\ where[p] = "context"
  /\ \/ ~mustBuild(cmd[p]) /\ Goes(p, "image") /\ UNCHANGED <<context, outcome>>
     \/ mustBuild(cmd[p]) /\ Goes(p, "build") /\ context' = TRUE /\ UNCHANGED outcome
     \/ mustBuild(cmd[p]) /\ Ends(p, "failed") /\ UNCHANGED context
  /\ UNCHANGED <<runtime, con, images, handmade, volume, cmd, tries, saw, checked, talksTo, sentTo, published, events>>

Builds(p) ==
  /\ where[p] = "build"
  /\ \/ /\ context
        /\ images' = [images EXCEPT ![image_tag(cmd[p])] = wanted(cmd[p])]
        /\ handmade' = handmade \ {image_tag(cmd[p])}
        /\ Goes(p, "image") /\ UNCHANGED outcome
     \/ Ends(p, "failed") /\ UNCHANGED <<images, handmade>>
  /\ UNCHANGED <<runtime, con, volume, context, cmd, tries, saw, checked, talksTo, sentTo, published, events>>

\* A takeover host's image must have what it takes; an image that cannot be
\* asked is given the benefit of the doubt.
suits(c) == {browserOf(c), "kasmvnc"} \subseteq images[image_tag(c)]

ChecksImage(p) ==
  /\ where[p] = "image"
  /\ \E helped, probed \in BOOLEAN :
       /\ helped \/ probed => image_exists(image_tag(cmd[p]))
       /\ IF cmd[p].takeover /\ helped /\ ~(probed /\ suits(cmd[p]))
          THEN Ends(p, "unsupported") ELSE Goes(p, "check") /\ UNCHANGED outcome
  /\ UNCHANGED <<engine, cmd, tries, saw, checked, talksTo, sentTo, published, events>>

-------------------------------------------------------------------------------
(* install and uninstall: making room.                                       *)

UninstallStarts(p) ==
  /\ where[p] = "start" /\ cmd[p].kind = "uninstall"
  /\ Goes(p, "check")
  /\ UNCHANGED <<engine, procs, published, events>>

\* refuse_foreign_container.  (Variant: only what runs is in the way.)
refusesRunning(c) == c.foreign /\ c.running
Refuses(c) == c.foreign

ChecksForeign(p) ==
  /\ where[p] = "check"
  /\ \E c \in Inspected :
       /\ checked' = [checked EXCEPT ![p] = c]
       /\ IF Refuses(c) THEN Ends(p, "foreign")
          ELSE Goes(p, IF cmd[p].purge THEN "purge" ELSE "stop") /\ UNCHANGED outcome
  /\ UNCHANGED <<engine, cmd, tries, saw, talksTo, sentTo, published, events>>

\* Which image to purge only the container knows.
LooksUpImage(p) ==
  /\ where[p] = "purge"
  /\ \E c \in Inspected : saw' = [saw EXCEPT ![p] = c]
  /\ Goes(p, "stop")
  /\ UNCHANGED <<engine, cmd, tries, checked, talksTo, outcome, sentTo, published, events>>

\* Failures of stop and rm are not looked at.
StopsContainer(p) ==
  /\ where[p] = "stop"
  /\ \/ con # NoCon /\ con' = [con EXCEPT !.running = FALSE]
     \/ UNCHANGED con
  /\ Goes(p, "rm")
  /\ UNCHANGED <<runtime, images, handmade, volume, context, procs, published, events>>

Removes(p) ==
  /\ where[p] = "rm"
  /\ \/ ~con.running /\ con' = NoCon
     \/ UNCHANGED con
  /\ IF cmd[p].kind = "install" THEN Goes(p, IF runtime = "apple" THEN "chown" ELSE "run") /\ UNCHANGED outcome
     ELSE IF cmd[p].purge THEN Goes(p, "unimage") /\ UNCHANGED outcome
     ELSE Ends(p, "removed")
  /\ UNCHANGED <<runtime, images, handmade, volume, context, cmd, tries, saw, checked, talksTo, sentTo, published, events>>

\* An image in use is not removed; one nobody knew is taken to be the bare tag.
purged(p) == saw[p].image
RemovesImage(p) ==
  /\ where[p] = "unimage"
  /\ IF con = NoCon \/ con.image # purged(p)
     THEN /\ images' = [images EXCEPT ![purged(p)] = NoImage]
          /\ handmade' = handmade \ {purged(p)}
     ELSE UNCHANGED <<images, handmade>>
  /\ context' = FALSE
  /\ Ends(p, "removed")
  /\ UNCHANGED <<runtime, con, volume, cmd, tries, saw, checked, talksTo, sentTo, published, events>>

-------------------------------------------------------------------------------
(* install: starting the host and waiting for it.                            *)

\* Apple's runtime mounts a volume root-owned.
GivesVolume(p) ==
  /\ where[p] = "chown"
  /\ \/ volume' = [volume EXCEPT !.made = TRUE, !.owned = TRUE] /\ Goes(p, "run") /\ UNCHANGED outcome
     \/ Ends(p, "failed") /\ UNCHANGED volume
  /\ UNCHANGED <<runtime, con, images, handmade, context, cmd, tries, saw, checked, talksTo, sentTo, published, events>>

\* What `run` is told, and what comes of it.
run_args(p) ==
  [NoCon EXCEPT !.image = image_tag(cmd[p]), !.content = images[image_tag(cmd[p])],
                !.own = image_tag(cmd[p]) \notin handmade, !.port = cmd[p].port, !.running = TRUE,
                !.health = "booting", !.browser = browserOf(cmd[p]), !.by = p]
Runs(p) ==
  /\ where[p] = "run"
  /\ \/ /\ con = NoCon /\ image_exists(image_tag(cmd[p]))
        /\ con' = run_args(p)
        /\ volume' = [volume EXCEPT !.made = TRUE, !.owned = @ \/ (runtime = "docker" /\ ~volume.made)]
        /\ Publishes(con')
        /\ talksTo' = [talksTo EXCEPT ![p] = cmd[p].port]
        /\ Goes(p, "token") /\ UNCHANGED outcome
     \/ Ends(p, "failed") /\ UNCHANGED <<con, volume, published, talksTo>>
  /\ UNCHANGED <<runtime, images, handmade, context, cmd, tries, saw, checked, sentTo, events>>

\* One round of a wait: found running, it goes on until the rounds are used up.
Waits(p, most, why) ==
  IF tries[p] + 1 < most
  THEN tries' = [tries EXCEPT ![p] = @ + 1] /\ UNCHANGED <<where, outcome>>
  ELSE Ends(p, why) /\ UNCHANGED tries

Next1(p, to) == Goes(p, to) /\ tries' = [tries EXCEPT ![p] = 0] /\ UNCHANGED outcome

\* read_token: by exec, in the container that has the name now.  For status a
\* token that cannot be read is a warning.
noToken(p, why) == IF cmd[p].kind = "status" THEN Ends(p, "shown") ELSE Ends(p, why)

ReadsToken(p) ==
  /\ where[p] = "token"
  /\ \/ con.running /\ volume.token /\ ~con.foreign /\ Next1(p, "health")
     \/ ~con.running /\ noToken(p, "exited") /\ UNCHANGED tries
     \/ con.running /\ ~(volume.token /\ ~con.foreign) /\ Waits(p, TokenTries, "no_token")
  /\ UNCHANGED <<engine, cmd, saw, checked, talksTo, sentTo, published, events>>

\* The host that answers on the port, if any does.
answers(p) == con.running /\ con.port = talksTo[p] /\ ~con.foreign /\ con.health # "booting"
Asks(p) == sentTo' = [sentTo EXCEPT ![p] = @ \cup {talksTo[p]}]

\* wait_for_container_health.
Unhappy(p) == Waits(p, HealthTries, "unhealthy")

AwaitsHealth(p) ==
  /\ where[p] = "health" /\ cmd[p].kind = "install"
  /\ \/ ~con.running /\ Ends(p, "exited") /\ UNCHANGED <<tries, sentTo>>
     \/ /\ con.running /\ Asks(p)
        /\ IF answers(p) /\ con.old THEN Ends(p, "mismatch") /\ UNCHANGED tries
           ELSE IF answers(p) /\ con.health = "ok"
                THEN IF cmd[p].takeover THEN Next1(p, "site")
                     ELSE Ends(p, "installed") /\ UNCHANGED tries
           ELSE Unhappy(p)
  /\ UNCHANGED <<engine, cmd, saw, checked, talksTo, published, events>>

\* validate_running_hard_site: health once more, then what it is capable of.
ChecksSite(p) ==
  /\ where[p] = "site"
  /\ Asks(p)
  /\ IF answers(p) /\ ~con.old /\ con.health = "ok"
     THEN Goes(p, "caps") /\ UNCHANGED outcome ELSE Ends(p, "not_ready")
  /\ UNCHANGED <<engine, cmd, tries, saw, checked, talksTo, published, events>>

-------------------------------------------------------------------------------
(* status, and discover_default_local_host.                                  *)

\* The token goes to the port the container publishes.  (Variant: or to 9222.)
publishedOrDefault(c) == IF c.port = None THEN "9222" ELSE c.port
publishedPort(c) == c.port

LooksUp(p) ==
  /\ where[p] = "start" /\ cmd[p].kind \in {"status", "discover"}
  /\ \E c \in Inspected :
       /\ saw' = [saw EXCEPT ![p] = c]
       /\ talksTo' = [talksTo EXCEPT ![p] = publishedPort(c)]
       /\ IF c.running /\ (cmd[p].kind = "status" \/ talksTo'[p] # None)
          THEN Goes(p, "token") /\ UNCHANGED outcome
          ELSE Ends(p, IF cmd[p].kind = "status" THEN "shown" ELSE "not_found")
  /\ UNCHANGED <<engine, cmd, tries, checked, sentTo, published, events>>

\* Discovery stops for another version and for a host that has no browser yet.
AsksOnce(p) ==
  /\ where[p] = "health" /\ cmd[p].kind \in {"status", "discover"}
  /\ IF talksTo[p] = None THEN Ends(p, "shown") /\ UNCHANGED <<sentTo, saw>>
     ELSE /\ Asks(p)
          /\ saw' = [saw EXCEPT ![p] = IF answers(p) THEN con ELSE NoCon]
          /\ IF cmd[p].kind = "discover" /\ (~answers(p) \/ con.old \/ con.health = "starting")
             THEN Ends(p, "not_found")
             ELSE IF cmd[p].kind = "status" \/ cmd[p].takeover THEN Goes(p, "caps") /\ UNCHANGED outcome
             ELSE Ends(p, "discovered")
  /\ UNCHANGED <<engine, cmd, tries, checked, talksTo, published, events>>

\* validate_hard_site_capabilities, is_hard_site_capabilities.
takesOver(c) == c.browser \in TakeoverBrowsers /\ {c.browser, "kasmvnc"} \subseteq c.content
live_takeover_ready(c, seen) == takesOver(c) /\ seen.health = "ok"

\* A second request, of whatever answers by then.
AsksCapabilities(p) ==
  /\ where[p] = "caps"
  /\ Asks(p)
  /\ LET fit == answers(p) /\ takesOver(con) IN
     Ends(p, CASE cmd[p].kind = "status" -> IF fit /\ live_takeover_ready(con, saw[p]) THEN "shown_ready" ELSE "shown"
               [] cmd[p].kind = "discover" -> IF fit THEN "discovered" ELSE "not_ready"
               [] OTHER -> IF fit THEN "installed" ELSE "not_ready")
  /\ UNCHANGED <<engine, cmd, tries, saw, checked, talksTo, published, events>>

-------------------------------------------------------------------------------
(* The host in the container, other people, and accidents.                   *)

HostBoots ==
  /\ con.running /\ con.health = "booting"
  /\ IF volume.owned
     THEN volume' = [volume EXCEPT !.token = TRUE] /\ con' = [con EXCEPT !.health = "starting"]
     ELSE con' = [con EXCEPT !.running = FALSE] /\ UNCHANGED volume
  /\ UNCHANGED <<runtime, images, handmade, context, procs, where, published, events>>

BrowserComes ==
  /\ con.running /\ con.health \in {"starting", "degraded"}
  /\ con' = [con EXCEPT !.health = "ok"]
  /\ UNCHANGED <<runtime, images, handmade, volume, context, procs, where, published, events>>

Happens(c) ==
  /\ events < MaxEvents /\ events' = events + 1
  /\ con' = c /\ Publishes(c)
  /\ UNCHANGED <<runtime, images, handmade, volume, context, procs, where>>

ProbeMissed == con.health = "ok" /\ con.running /\ Happens([con EXCEPT !.health = "degraded"])
HostExits == con.running /\ Happens([con EXCEPT !.running = FALSE])
SomeoneRuns == con = NoCon /\ Happens([Settled EXCEPT !.foreign = TRUE, !.by = "people"])
SomeoneRemoves == con # NoCon /\ Happens(NoCon)

\* `--token-secret container:NAME`: asked once, never waited for.
ReadsHostToken(p) ==
  /\ where[p] = "start" /\ cmd[p].kind = "token"
  /\ \/ con.running /\ volume.token /\ ~con.foreign /\ Ends(p, "token")
     \/ Ends(p, "failed")
  /\ UNCHANGED <<engine, cmd, tries, saw, checked, talksTo, sentTo, published, events>>

Acts(p) ==
  \/ InstallStarts(p) \/ WritesContext(p) \/ Builds(p) \/ ChecksImage(p) \/ UninstallStarts(p) \/ ChecksForeign(p)
  \/ LooksUpImage(p) \/ StopsContainer(p) \/ Removes(p) \/ RemovesImage(p) \/ GivesVolume(p) \/ Runs(p)
  \/ ReadsToken(p) \/ AwaitsHealth(p) \/ ChecksSite(p) \/ LooksUp(p) \/ AsksOnce(p)
  \/ AsksCapabilities(p) \/ ReadsHostToken(p)

ContNext ==
  \/ \E p \in Commands : Acts(p)
  \/ HostBoots \/ BrowserComes \/ ProbeMissed \/ HostExits \/ SomeoneRuns \/ SomeoneRemoves

ContSpec == ContInit /\ [][ContNext]_contVars

-------------------------------------------------------------------------------
(* Properties.                                                                *)

\* Type correctness: what each part of the runtime's and the commands' state
\* may be (container.rs).
ContTypeOK ==
  /\ runtime \in {"apple", "docker"}
  /\ con.image \in Tags /\ con.health \in {None, "booting", "starting", "degraded", "ok"}
  /\ con.running => con.port \in {None, "9222", "9333"} /\ con.health # None
  /\ images \in [Tags -> (SUBSET Components) \cup {NoImage}] /\ handmade \subseteq Tags
  /\ volume \in [made : BOOLEAN, owned : BOOLEAN, token : BOOLEAN]
  /\ tries \in [Commands -> 0..(TokenTries + HealthTries)]
  /\ \A p \in Commands : outcome[p] # None <=> where[p] = "over"

\* install and uninstall never stop or remove a container that their own check
\* saw to be another program's (refuse_foreign_container).
ForeignSpared ==
  [][\A p \in Commands : Acts(p) /\ con.foreign /\ con' # con => checked[p] # con]_contVars

\* Commands to the runtime that nobody else interfered with.
Alone(p) == events = 0 /\ \A q \in Commands \ {p} : where[q] = "start"

\* uninstall --purge removes the image of the container it removed: the tag is
\* read before the container that knows it is gone.
PurgeTakesItsImage ==
  \A p \in Commands :
    outcome[p] = "removed" /\ cmd[p].purge /\ Alone(p) /\ con = NoCon /\ saw[p] # NoCon
      => images[checked[p].image] = NoImage \/ checked[p] = NoCon

\* What a command takes away is afhttp's, and all of it
\* (refuse_foreign_container, uninstall).
RemovalsMindTheirOwn == ForeignSpared /\ []PurgeTakesItsImage

\* The host token is sent only to ports the container published while the
\* command ran, never to an assumed one (status, discover_default_local_host).
TokenGoesWhereItListens == \A p \in Commands : sentTo[p] \subseteq published[p] \ {None}

\* An install that succeeded runs an image that has what it was asked for,
\* whatever images other installs built meanwhile; a takeover host has its
\* browser and display even from an image made by hand.
InstalledMeansWhole ==
  \A p \in Commands :
    outcome[p] = "installed" /\ con.by = p
      => /\ con.own => wanted(cmd[p]) \subseteq con.content
         /\ cmd[p].takeover => {browserOf(cmd[p]), "kasmvnc"} \subseteq con.content

\* What a command reports and whom it confides in is the container there is
\* (read_token, validate_running_hard_site).
CommandsKeepTheirWord == ContTypeOK /\ TokenGoesWhereItListens /\ InstalledMeansWhole

===============================================================================
