------------------------------ MODULE PageCapture ------------------------------
(***************************************************************************)
(* What a browser fetch takes from its page once it has navigated          *)
(* (sdk/fetch/pipeline/browser/mod.rs, capture.rs, network_bodies.rs), on  *)
(* the clock and into the trace of fetch/deadline.rs: it waits for the new *)
(* page to be committed, reads one snapshot of it, judges it, captures the *)
(* artifacts that are wanted one after the other, each of which may fail   *)
(* alone, and decides what becomes of the tab.  The budget may be over at  *)
(* any point.                                                              *)
(***************************************************************************)
EXTENDS Integers, Sequences, FiniteSets

CONSTANTS Orders,   \* [wanted, takeover, created, evaluate, jar]: what was asked
          Pages,    \* [main, dom, text, wall, ready, loss, large]: what the page is
          Bodies,   \* the sizes of its responses, and of their Content-Length
          BodyMax   \* the cap on one response body

ASSUME BodiesAssumption ==
  BodyMax \in Nat /\ \A r \in DOMAIN Bodies : Bodies[r].size \in Nat /\ Bodies[r].length \in Nat

\* In the order they are captured, the Markdown and JSON of the content at once; text,
\* HTML, pixels, nodes and storage are given up silently when they cannot be written.
Artifacts == <<"rendered_html", "text", "content", "screenshot", "body",
               "observation", "storage", "console", "bodies", "network">>
Sized == {"rendered_html", "text", "content"}
SilentlyUnwritten == {"rendered_html", "text", "screenshot", "observation", "storage"}

VARIABLES
  order, tabPage,
  url,      \* what the tab shows: initial, target, blank
  over,     \* whether the budget is spent
  step,     \* where the fetch is
  todo,     \* artifacts still to capture
  noted,    \* [main, status, snap, final, blocked, ready]: what was observed
  active, stages,  \* deadline.rs: stages under way, and those recorded with a status
  bodies,   \* each response: left, kept, cut, skipped, failed, unread
  warned,   \* {<<artifact, code>>}
  files,    \* artifacts that have a file
  review,   \* whether a person is asked to look
  tab,      \* open, closed; and what the result says of it
  outcome   \* none, ok, and the error otherwise

tabVars == <<order, tabPage, url, over>>
evidence == <<noted, warned, files, bodies>>
trace == <<active, stages>>
ending == <<review, tab, outcome>>
captureVars == <<tabVars, step, todo, evidence, trace, ending>>

Unseen == [main |-> "none", status |-> 0, snap |-> FALSE, final |-> "target",
           blocked |-> FALSE, ready |-> "off"]

\* A reused tab shows another page first; a new one is blank.
PageInit ==
  /\ order \in Orders /\ tabPage \in Pages
  /\ url = IF order.created THEN "blank" ELSE "initial"
  /\ over = FALSE /\ step = "commit" /\ todo = Artifacts
  /\ noted = Unseen /\ active = <<>> /\ stages = <<>>
  /\ bodies = [r \in DOMAIN Bodies |-> "left"]
  /\ warned = {} /\ files = {} /\ review = FALSE
  /\ tab = [open |-> TRUE, named |-> FALSE, retained |-> FALSE] /\ outcome = "none"

-----------------------------------------------------------------------------
(* The page and the clock                                                  *)

Commits == /\ url # "target" /\ url' = "target"
           /\ UNCHANGED <<order, tabPage, over, step, todo, evidence, trace, ending>>

Expires == /\ ~over /\ outcome = "none" /\ over' = TRUE
           /\ UNCHANGED <<order, tabPage, url, step, todo, evidence, trace, ending>>

-----------------------------------------------------------------------------
(* The trace (deadline.rs): a stage that is on top already is not begun     *)
(* again, and only who began it records it.                                *)

onTop(s) == active # <<>> /\ active[Len(active)] = s
begun(s) == IF onTop(s) THEN active ELSE Append(active, s)
rposition(s) == CHOOSE i \in 1..Len(active) :
                  active[i] = s /\ \A j \in (i + 1)..Len(active) : active[j] # s
without(s) == SubSeq(active, 1, rposition(s) - 1) \o SubSeq(active, rposition(s) + 1, Len(active))
record(s, status) == Append(stages, [name |-> s, status |-> status])

begin_stage(s) == active' = begun(s) /\ UNCHANGED stages
finish_stage(s, status) ==
  IF \E i \in 1..Len(active) : active[i] = s
    THEN stages' = record(s, status) /\ active' = without(s)
    ELSE UNCHANGED trace

\* How a stage ends: done, failed on its own, or out of time: told by its own
\* timer, by the call it waits for, or by a look at the clock inside it, which
\* records the stage itself.
run_result(faults) ==
  {"ok"} \cup faults \cup
  IF over THEN {"timed_out", "cdp_timeout", "navigation_timeout"} ELSE {}
status_for_error(end) ==
  CASE end = "ok" -> "ok" [] end \in {"timed_out", "cdp_timeout", "navigation_timeout"} -> "timeout"
    [] OTHER -> "error"

\* (Variant: the error handler ends the stage that run_result ended.)
FinishesTwice(s, end) ==
  /\ stages' = IF end = "navigation_timeout"
                THEN Append(record(s, "timeout"), [name |-> s, status |-> "timeout"])
                ELSE record(s, status_for_error(end))
  /\ active' = without(s)
Finishes(s, end) ==
  IF end = "navigation_timeout"
    THEN stages' = record(s, "timeout") /\ active' = without(s)
    ELSE finish_stage(s, status_for_error(end))

-----------------------------------------------------------------------------
(* Up to the snapshot                                                      *)

\* A failed fetch closes the tab it made, unless it is kept for a person, and its
\* trace names the tab when it is still there.
finish_failed_target ==
  \E closed \in IF order.created /\ ~order.takeover THEN BOOLEAN ELSE {FALSE} :
    tab' = [tab EXCEPT !.open = ~closed, !.retained = ~closed]
Fails(error) == /\ step' = "end" /\ outcome' = error /\ finish_failed_target
                /\ UNCHANGED review

\* Three seconds at most for the location to change from what it was.
wait_for_navigation_commit ==
  /\ step = "commit"
  /\ \/ ~over /\ step' = "evaluate" /\ UNCHANGED ending
     \/ over /\ Fails("navigation_timeout")
  /\ UNCHANGED <<tabVars, todo, evidence, trace>>

evaluate_after_wait ==
  /\ step = "evaluate"
  /\ \E end \in IF order.evaluate THEN run_result({"cdp_error"}) ELSE {"ok"} :
       IF end = "ok" THEN step' = "observe" /\ tab' = [tab EXCEPT !.named = TRUE]
                          /\ UNCHANGED <<review, outcome>>
                     ELSE Fails(end)
  /\ UNCHANGED <<tabVars, todo, evidence, trace>>

\* The main response may not be observed in time; what the wait found is kept.
ObservesMain ==
  /\ step = "observe" /\ step' = "snapshot"
  /\ \E m \in {"none", tabPage.main}, r \in {"off", "satisfied", "timeout"} :
       /\ noted' = [noted EXCEPT !.main = m, !.ready = r]
       /\ warned' = warned \cup IF r = "timeout" THEN {<<"network", "readiness_timeout">>}
                                                 ELSE {}
  /\ UNCHANGED <<tabVars, todo, files, bodies, trace, ending>>

\* The tab still shows what it showed when the fetch began.
stayed(final) == final = "initial"
conflicting == noted.main # "none"
validate_navigation_capture(final, snap) ==
  CASE final = "blank" -> "navigation_stale"
    [] stayed(final) /\ (noted.main = "none" \/ conflicting) -> "navigation_stale"
    [] noted.main = "none" /\ snap /\ ~tabPage.dom /\ tabPage.ready # "loading" ->
         "artifact_capture_failed"
    [] OTHER -> "ok"

\* What is classified as a wall asks for a person whatever was asked; a status the
\* network did not show is taken from the page's own timing.
statusOf(m) == CASE m = "ok" -> 200 [] m = "denied" -> 403 [] OTHER -> 0
Classifies(snap) == snap /\ tabPage.wall

CapturesSnapshot ==
  /\ step = "snapshot"
  /\ \E snap \in IF over THEN {FALSE} ELSE BOOLEAN :
     LET final == IF snap THEN url ELSE noted.final
         fault == validate_navigation_capture(final, snap)
         known == statusOf(noted.main)
     IN IF fault # "ok" THEN Fails(fault) /\ UNCHANGED <<noted, warned>>
        ELSE /\ step' = "capture" /\ UNCHANGED <<tab, outcome>>
             /\ \E timing \in IF known = 0 /\ ~over THEN {0, statusOf(tabPage.main)} ELSE {known} :
                  noted' = [noted EXCEPT !.snap = snap, !.final = final,
                                       !.status = timing, !.blocked = Classifies(snap),
                                       !.ready = IF Classifies(snap) /\ @ # "off"
                                                   THEN "blocked" ELSE @]
             /\ review' = Classifies(snap)
             /\ warned' = warned
                  \cup (IF Classifies(snap) THEN {<<"rendered_html", "challenge">>} ELSE {})
                  \cup (IF noted.main = "pending" \/ (noted.main = "none" /\ ~(snap /\ tabPage.dom))
                          THEN {<<"network", "artifact_capture_failed">>} ELSE {})
  /\ UNCHANGED <<tabVars, todo, files, bodies, trace>>

-----------------------------------------------------------------------------
(* The artifacts                                                           *)

\* What each capture may fail with besides the clock: what CDP refuses, and an
\* answer that is not what was asked for.
capture_outer_html == {"cdp_error"}
capture_inner_text == {"cdp_error"}
capture_content == {"cdp_error", "artifact_capture_failed"}
capture_screenshot == {"cdp_error", "artifact_capture_failed"}
capture_response_body == {"cdp_error", "artifact_capture_failed"}
capture_observation == {"cdp_error", "artifact_capture_failed"}
capture_storage == {"cdp_error", "artifact_capture_failed"}
faults == [rendered_html |-> capture_outer_html, text |-> capture_inner_text,
           content |-> capture_content, screenshot |-> capture_screenshot,
           body |-> capture_response_body, observation |-> capture_observation,
           storage |-> capture_storage, console |-> {"io_error"}, network |-> {}]

Current == Head(todo)
captured(a) == a \in order.wanted
inStep(s) == step = s /\ todo # <<>>

SkipsArtifact ==
  /\ inStep("capture") /\ ~captured(Current) /\ Current # "network" /\ todo' = Tail(todo)
  /\ UNCHANGED <<tabVars, step, evidence, trace, ending>>

\* A stage that finds the budget spent is recorded, and its artifact given up.
BeginsCapture ==
  /\ inStep("capture") /\ captured(Current)
  /\ Current = "body" => noted.main # "none" /\ ~tabPage.large
  /\ IF over
       THEN /\ stages' = record(Current, "timeout") /\ todo' = Tail(todo)
            /\ warned' = warned \cup {<<Current, "navigation_timeout">>}
            /\ UNCHANGED <<active, step>>
       ELSE begin_stage(Current) /\ step' = "capturing" /\ UNCHANGED <<todo, warned>>
  /\ UNCHANGED <<tabVars, noted, files, bodies, ending>>

\* Without the main request there is nothing to ask the body of, and one that is
\* too large for a message is not asked for.
BodyNotAskedFor ==
  /\ inStep("capture") /\ Current = "body" /\ captured("body")
  /\ noted.main = "none" \/ tabPage.large
  /\ warned' = warned \cup {<<"body", IF noted.main = "none" THEN "artifact_capture_failed"
                                                          ELSE "network_body_truncated">>}
  /\ todo' = Tail(todo)
  /\ UNCHANGED <<tabVars, step, noted, files, bodies, trace, ending>>

\* The stage's own timer gives its own code; a body's late call takes that too.
codeOf(a, end) ==
  CASE end = "timed_out" \/ (end = "cdp_timeout" /\ a = "body") -> "artifact_capture_timeout"
    [] OTHER -> end

size_warning(a) ==
  IF a \in Sized /\ ~tabPage.text THEN {<<a, "artifact_empty">>}
  ELSE IF a = "observation" /\ ~tabPage.dom THEN {<<a, "observation_empty">>} ELSE {}

EndsCapture ==
  /\ inStep("capturing") /\ Current \notin {"bodies"}
  /\ \E end \in run_result(faults[Current]), written \in BOOLEAN :
       /\ Finishes(Current, end)
       /\ IF end # "ok"
            THEN warned' = warned \cup {<<Current, codeOf(Current, end)>>} /\ UNCHANGED files
            ELSE /\ files' = files \cup IF written THEN {Current} ELSE {}
                 /\ warned' = warned \cup size_warning(Current)
                      \cup (IF written \/ Current \in SilentlyUnwritten THEN {}
                                                         ELSE {<<Current, "io_error">>})
                      \cup (IF Current = "network" /\ tabPage.loss
                              THEN {<<"network", "artifact_capture_failed">>} ELSE {})
  /\ step' = "capture" /\ todo' = Tail(todo)
  /\ UNCHANGED <<tabVars, noted, bodies, ending>>

\* The log is taken even when it is not wanted, for what was lost of it.
push_network_capture_warnings(lost) ==
  IF lost THEN {<<"network", "artifact_capture_failed">>} ELSE {}

FinishesUnwantedNetwork ==
  /\ inStep("capture") /\ Current = "network" /\ ~captured("network") /\ todo' = <<>>
  /\ warned' = warned \cup push_network_capture_warnings(tabPage.loss)
  /\ UNCHANGED <<tabVars, step, noted, files, bodies, trace, ending>>

-----------------------------------------------------------------------------
(* Response bodies (network_bodies.rs)                                     *)

Finished == {r \in DOMAIN Bodies : bodies[r] = "left"}
known_body_exceeds_limit(r) == Bodies[r].length > BodyMax
bodyKept(size) == IF size > BodyMax THEN "cut" ELSE "kept"

CapturesBody(r) ==
  /\ inStep("capturing") /\ Current = "bodies" /\ r \in Finished
  /\ \/ /\ known_body_exceeds_limit(r)
        /\ bodies' = [bodies EXCEPT ![r] = "skipped"]
        /\ warned' = warned \cup {<<"network", "network_body_truncated">>}
     \/ /\ ~known_body_exceeds_limit(r) /\ ~over
        /\ bodies' = [bodies EXCEPT ![r] = bodyKept(Bodies[r].size)]
        /\ warned' = warned \cup IF bodyKept(Bodies[r].size) = "cut"
                                   THEN {<<"network", "network_body_truncated">>} ELSE {}
     \/ /\ ~known_body_exceeds_limit(r)
        /\ bodies' = [bodies EXCEPT ![r] = "failed"]
        /\ \E code \in {"artifact_capture_failed", "artifact_capture_timeout", "io_error"} :
             warned' = warned \cup {<<"network", code>>}
  /\ UNCHANGED <<tabVars, step, todo, noted, files, trace, ending>>

\* Out of time the rest is todo, with one warning, whoever notices.
EndsBodies ==
  /\ inStep("capturing") /\ Current = "bodies"
  /\ \/ Finished = {} /\ finish_stage("bodies", "ok") /\ UNCHANGED <<warned, bodies>>
     \/ /\ over /\ bodies' = [r \in DOMAIN Bodies |-> IF r \in Finished THEN "unread"
                                                                        ELSE bodies[r]]
        /\ \E end \in {"timed_out", "navigation_timeout"} :
             /\ Finishes("bodies", end)
             /\ warned' = warned \cup {<<"network", codeOf("network", end)>>}
  /\ step' = "capture" /\ todo' = Tail(todo)
  /\ UNCHANGED <<tabVars, noted, files, ending>>

-----------------------------------------------------------------------------
(* The end                                                                 *)

\* Cookies the jar's rules refuse are warned of, and so is a sync that failed.
SyncsJar ==
  /\ step = "capture" /\ todo = <<>> /\ step' = "judge"
  /\ \E code \in IF order.jar THEN {"none", "cookie_rejected", "navigation_timeout"} ELSE {"none"} :
       warned' = warned \cup (IF code = "none" THEN {} ELSE {<<"network", code>>})
  /\ UNCHANGED <<tabVars, todo, noted, files, bodies, trace, ending>>

Disproving == {"artifact_capture_failed", "artifact_capture_timeout", "artifact_empty",
               "observation_empty", "navigation_stale", "readiness_timeout",
               "wait_selector_unmatched"}

noProblem == ~review /\ noted.status \in 200..299 /\ ~\E w \in warned : w[2] \in Disproving
content_verified ==
  /\ noted.status \in 200..299 /\ ~review
  /\ noted.snap /\ tabPage.dom /\ tabPage.text /\ tabPage.ready # "loading"
  /\ noted.ready \in {"off", "satisfied"}
  /\ ~\E w \in warned : w[2] \in Disproving

close_after_success == IF order.takeover THEN content_verified ELSE order.created

\* Closing may fail, when it is told and the tab stays named.
JudgesAndCloses ==
  /\ step = "judge" /\ step' = "end" /\ outcome' = "ok"
  /\ review' = (review \/ (order.takeover /\ ~content_verified))
  /\ \E closed \in IF close_after_success THEN BOOLEAN ELSE {FALSE} :
       /\ tab' = [tab EXCEPT !.open = ~closed, !.named = ~closed]
       /\ warned' = warned
            \cup (IF order.takeover /\ ~content_verified /\ ~review
                    THEN {<<"rendered_html", "takeover_content_unverified">>} ELSE {})
            \cup (IF close_after_success /\ ~closed THEN {<<"rendered_html", "cdp_error">>}
                                                    ELSE {})
  /\ UNCHANGED <<tabVars, todo, noted, files, bodies, trace>>

CaptureNext ==
  \/ Commits \/ Expires
  \/ wait_for_navigation_commit \/ evaluate_after_wait \/ ObservesMain \/ CapturesSnapshot
  \/ SkipsArtifact \/ BeginsCapture \/ BodyNotAskedFor \/ EndsCapture
  \/ FinishesUnwantedNetwork \/ \E r \in DOMAIN Bodies : CapturesBody(r)
  \/ EndsBodies \/ SyncsJar \/ JudgesAndCloses

CaptureSpec == PageInit /\ [][CaptureNext]_captureVars

-----------------------------------------------------------------------------
Done == outcome = "ok"
Wanted == {a \in {Artifacts[i] : i \in 1..Len(Artifacts)} : a \in order.wanted}
ToldOf(a) == {i \in 1..Len(stages) : stages[i].name = a}

\* What the network capture lost is told, whether or not its log was wanted.
LossIsTold == Done /\ tabPage.loss => \E w \in warned : w[1] = "network"

\* Every response body is kept whole, or the result says something of it.
BodiesAreKeptOrToldOf ==
  Done => \A r \in DOMAIN Bodies :
            /\ bodies[r] = "kept" => Bodies[r].size <= BodyMax
            /\ bodies[r] \notin {"kept", "left"} => \E w \in warned : w[1] = "network"

\* The trace, the warnings and the files agree: of each artifact that was wanted one
\* outcome is recorded, no file without a stage that succeeded, and no stage that
\* failed without a warning, however the time ran out; and what was lost or cut of
\* the network, the result says.
StagesAgreeWithTheResult ==
  /\ LossIsTold /\ BodiesAreKeptOrToldOf
  /\ Done => /\ active = <<>>
             /\ \A a \in Wanted :
                  /\ Cardinality(ToldOf(a)) <= 1
                  /\ a \in files => \E i \in ToldOf(a) : stages[i].status = "ok"
                  /\ a # "bodies" /\ (\A i \in ToldOf(a) : stages[i].status # "ok") =>
                       \E w \in warned : w[1] = a

\* A tab a person was asked to look at is there and named; one that was kept for a
\* person is closed only after a snapshot of the page asked for showed text, with
\* a good status and no wall.
ReclaimedMeansSeen ==
  Done => /\ (review /\ order.takeover => tab.open /\ tab.named)
          /\ ~tab.open /\ order.takeover =>
               noted.snap /\ noted.final = "target" /\ tabPage.text /\ ~tabPage.wall
               /\ tabPage.main # "denied"
          /\ tab.open => tab.named

\* What the documentation says of a takeover: the tab is closed only when nothing
\* that was requested failed to be captured.
ReclaimedOnlyWhenCaptured ==
  Done /\ order.takeover /\ ~tab.open => Wanted \ {"bodies"} \subseteq files
===============================================================================
