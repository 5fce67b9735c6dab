--------------------------------- MODULE Fetch ---------------------------------
(***************************************************************************)
(* One fetch, from FetchBuilder::send_detailed to its result: the retry    *)
(* loop (sdk/fetch/mod.rs), the HTTP attempt and its escalation            *)
(* (pipeline/mod.rs), and what the browser path (pipeline/browser/mod.rs,  *)
(* download.rs) does with the tab it opens or is given, at every await of  *)
(* which the whole-fetch timer may drop it.  The browser runs commands     *)
(* late, also those nobody waits for any more.                             *)
(***************************************************************************)
EXTENDS Naturals, FiniteSets

CONSTANT MaxRetries  \* bound on retry.attempts

ASSUME RetriesAssumption == MaxRetries \in Nat

Given == 0                   \* the tab of builder.tab
Attempts == 1 .. MaxRetries + 1
Tabs == {Given} \cup Attempts  \* an attempt opens at most one tab: it bears its number

Requests == [idempotent : BOOLEAN, render : {"none", "auto", "always"},
             keep : BOOLEAN,    \* keep_tab_open: a takeover
             given : BOOLEAN,   \* builder.tab
             retries : 0 .. MaxRetries]

Early == {"resolve", "connect"}
Opening == {"open", "opening"}
Attaching == {"attach", "attaching"}
OnPage == {"prepare", "navigate", "navigating", "download", "page"}
Closing == {"closing_unattached", "closing_failed", "closing_done"}
Detaching == {"detaching_failed", "detaching_done"}
Resting == {"retrying", "returned"}
Places == {"http", "http_wait", "capturing"} \cup Early \cup Opening \cup Attaching
             \cup OnPage \cup Closing \cup Detaching \cup Resting

VARIABLES
  request,    \* the FetchBuilder; it does not change
  attempt,    \* 1 for the first
  step,         \* where the attempt is
  clock,      \* "running"; "spent" past the deadline; "over" past the whole timer
  sent,       \* how often the request went out to the target
  mine,       \* target_id, once known: at most one tab
  attached,   \* session_id is known
  session,    \* what has become of the session
  tabs,       \* the browser's side of each tab
  capture,    \* what a capture found
  cut,        \* the whole timer dropped the attempt
  outcome, told, \* the result, and the tabs it names
  owed,       \* history: the tabs attempts got onto, those cut short aside
  reported    \* history: the tabs named by any attempt's trace, dropped or not

fetchVars == <<request, attempt, step, clock, sent, mine, attached, session, tabs, capture,
          cut, outcome, told, owed, reported>>
result == <<outcome, told, reported>>
driver == <<mine, attached, capture, cut, owed>>
browser == <<session, tabs>>

FetchInit ==
  /\ request \in Requests
  /\ attempt = 1
  /\ step = "resolve"
  /\ clock = "running"
  /\ sent = 0
  /\ mine = {}
  /\ attached = FALSE
  /\ session = "none"
  /\ tabs = [t \in Tabs |-> IF t = Given /\ request.given THEN "open" ELSE "none"]
  /\ capture = "none"
  /\ cut = FALSE
  /\ outcome = "none"
  /\ told = {}
  /\ owed = {} /\ reported = {}

created_target == ~request.given

\* GET and HEAD may go out more than once.  (Variant: any method may.)
anyMethod == TRUE
method_is_idempotent == request.idempotent

retriesLeft == method_is_idempotent /\ attempt <= request.retries

\* The error is dropped, and with it the trace and the tabs it names.
Retries(named) ==
  /\ step' = "retrying"
  /\ reported' = reported \cup named
  /\ UNCHANGED <<outcome, told>>

Returns(how, named) ==
  /\ step' = "returned"
  /\ outcome' = how
  /\ told' = named
  /\ reported' = reported \cup named

\* The attempt ends in an error whose trace names these tabs.
Fails(named) ==
  \/ retriesLeft /\ Retries(named)
  \/ Returns("failed", named)

-------------------------------------------------------------------------------
(* Before the browser.                                                     *)

Resolves ==
  /\ step = "resolve" /\ clock = "running"
  /\ step' = IF request.render = "always" THEN "connect" ELSE "http"
  /\ UNCHANGED <<request, attempt, clock, sent, driver, browser, result>>

FailsEarly ==
  /\ step \in Early
  /\ Fails({})
  /\ UNCHANGED <<request, attempt, clock, sent, driver, browser>>

SendsHttp ==
  /\ step = "http" /\ clock = "running"
  /\ sent' = sent + 1
  /\ step' = "http_wait"
  /\ UNCHANGED <<request, attempt, clock, driver, browser, result>>

\* A good answer is returned, an error too.
HttpAnswers ==
  /\ step = "http_wait" /\ clock = "running"
  /\ Returns("ok", {})
  /\ UNCHANGED <<request, attempt, clock, sent, driver, browser>>

HttpFails ==
  /\ step \in {"http", "http_wait"}
  /\ Fails({})
  /\ UNCHANGED <<request, attempt, clock, sent, driver, browser>>

\* A shell, a bot wall, an error, an artifact only a browser has: to the browser,
\* if the request may be sent again.
Escalates ==
  /\ step \in {"http", "http_wait"}
  /\ request.render = "auto" /\ method_is_idempotent
  /\ step' = "connect"
  /\ UNCHANGED <<request, attempt, clock, sent, driver, browser, result>>

-------------------------------------------------------------------------------
(* Getting a tab and a session.                                            *)

Connects ==
  /\ step = "connect" /\ clock = "running"
  /\ step' = IF request.given THEN "attach" ELSE "open"
  /\ mine' = IF request.given THEN {Given} ELSE {}
  /\ UNCHANGED <<request, attempt, clock, sent, attached, capture, cut, owed, browser,
                 result>>

AsksForTab ==
  /\ step = "open" /\ clock = "running"
  /\ tabs' = [tabs EXCEPT ![attempt] = "ordered"]
  /\ step' = "opening"
  /\ UNCHANGED <<request, attempt, clock, sent, driver, session, result>>

TabOpens ==
  /\ step = "opening" /\ clock = "running"
  /\ tabs[attempt] \in {"open", "gone"}
  /\ mine' = {attempt}
  /\ step' = "attach"
  /\ UNCHANGED <<request, attempt, clock, sent, attached, capture, cut, owed, browser,
                 result>>

\* No id, nothing to close: also when createTarget is only late.
OpenFails ==
  /\ step \in Opening
  /\ Fails({})
  /\ UNCHANGED <<request, attempt, clock, sent, driver, browser>>

AsksForSession ==
  /\ step = "attach" /\ clock = "running"
  /\ session' = "asked"
  /\ step' = "attaching"
  /\ UNCHANGED <<request, attempt, clock, sent, driver, tabs, result>>

Attaches ==
  /\ step = "attaching" /\ clock = "running"
  /\ session \in {"attached", "gone"}
  /\ attached' = TRUE
  /\ owed' = owed \cup mine
  /\ step' = "prepare"
  /\ UNCHANGED <<request, attempt, clock, sent, mine, capture, cut, browser, result>>

\* (Variant: the takeover tab is closed like any other.)
closesUnattachedTakeover == created_target
closesUnattached == created_target /\ ~request.keep

AttachFails ==
  /\ step \in Attaching
  /\ IF closesUnattached
       THEN step' = "closing_unattached" /\ UNCHANGED result
       ELSE Fails(IF created_target THEN mine ELSE {})
  /\ UNCHANGED <<request, attempt, clock, sent, driver, browser>>

-------------------------------------------------------------------------------
(* On the page.                                                            *)

Prepares ==
  /\ step = "prepare" /\ clock = "running"
  /\ step' = "navigate"
  /\ UNCHANGED <<request, attempt, clock, sent, driver, browser, result>>

\* Page.navigate, the document request reissued with its method and body.
Navigates ==
  /\ step = "navigate" /\ clock = "running"
  /\ sent' = sent + 1
  /\ step' = "navigating"
  /\ UNCHANGED <<request, attempt, clock, driver, browser, result>>

Navigated ==
  /\ step = "navigating" /\ clock = "running"
  /\ step' \in {"page", "download"}
  /\ UNCHANGED <<request, attempt, clock, sent, driver, browser, result>>

\* Committed, ready, evaluated.
PageReady ==
  /\ step = "page" /\ clock = "running"
  /\ step' = "capturing"
  /\ UNCHANGED <<request, attempt, clock, sent, driver, browser, result>>

detached == IF session = "attached" THEN "leaving" ELSE session

\* finish_failed_target; a capture of the wrong page fails like a stage.
StageFails ==
  /\ step \in OnPage \cup {"capturing"}
  /\ IF created_target /\ ~request.keep
       THEN step' = "closing_failed" /\ UNCHANGED session
       ELSE step' = "detaching_failed" /\ session' = detached
  /\ UNCHANGED <<request, attempt, clock, sent, driver, tabs, result>>

close_after_success(found) ==
  IF found = "download" THEN created_target
  ELSE IF request.keep THEN found = "verified"
  ELSE created_target

\* A failed capture is a warning, whatever the clock says; a download must be
\* complete in time.
Captures ==
  /\ \/ step = "capturing" /\ capture' \in {"verified", "unverified"}
     \/ step = "download" /\ clock = "running" /\ capture' = "download"
  /\ IF close_after_success(capture')
       THEN step' = "closing_done" /\ UNCHANGED session
       ELSE step' = "detaching_done" /\ session' = detached
  /\ UNCHANGED <<request, attempt, clock, sent, mine, attached, cut, owed, tabs,
                 result>>

-------------------------------------------------------------------------------
(* Letting go of the tab.  Closing is close_target_preserving_browser,     *)
(* which may give up before its frame is out (WindowAnchor has its steps). *)

SendsClose ==
  /\ step \in Closing
  /\ \E t \in mine : tabs[t] = "open" /\ tabs' = [tabs EXCEPT ![t] = "closing"]
  /\ UNCHANGED <<request, attempt, step, clock, sent, driver, session, result>>

TabCloses ==
  /\ step \in Closing
  /\ \E t \in mine : tabs[t] = "closed"
  /\ IF step = "closing_done" THEN Returns("ok", {}) ELSE Fails({})
  /\ UNCHANGED <<request, attempt, clock, sent, driver, browser>>

\* (Variant: a failed close is not noted.)
namesNone == {}
retained == mine

CloseFails ==
  /\ step \in Closing
  /\ \/ step = "closing_unattached" /\ Fails({}) /\ UNCHANGED session
     \/ step = "closing_failed" /\ Fails(retained) /\ UNCHANGED session
     \/ /\ step = "closing_done" /\ step' = "detaching_done"
        /\ session' = detached
        /\ UNCHANGED result
  /\ UNCHANGED <<request, attempt, clock, sent, driver, tabs>>

\* Answered or not.
DetachEnds ==
  /\ \/ step = "detaching_failed" /\ Fails(retained)
     \/ step = "detaching_done" /\ Returns("ok", mine)
  /\ UNCHANGED <<request, attempt, clock, sent, driver, browser>>

-------------------------------------------------------------------------------
(* Time.                                                                   *)

\* A stage's own timer fires at the deadline, long before the whole one; what lies
\* between stages and the cleanup have no deadline of the fetch's.
Untimed == {"http", "navigate", "navigating", "capturing"} \cup Closing \cup Detaching

Tick ==
  /\ step \notin Resting
  /\ \/ clock = "running" /\ clock' = "spent"
     \/ clock = "spent" /\ clock' = "over" /\ step \in Untimed
  /\ UNCHANGED <<request, attempt, step, sent, driver, browser, result>>

\* (Variant: a timer around the stages and not around the cleanup.)
timedStages == step \notin Resting \cup Closing \cup Detaching
underTimer == step \notin Resting

\* The pipeline is dropped where it is.  A navigation timeout is retryable.
CutShort ==
  /\ underTimer /\ clock = "over"
  /\ cut' = TRUE
  /\ owed' = owed \ mine
  /\ IF retriesLeft THEN Retries({}) ELSE Returns("failed", {})
  /\ UNCHANGED <<request, attempt, clock, sent, mine, attached, capture, browser>>

TriesAgain ==
  /\ step = "retrying"
  /\ attempt' = attempt + 1
  /\ step' = "resolve"
  /\ clock' = "running"
  /\ mine' = {} /\ attached' = FALSE /\ session' = "none"
  /\ capture' = "none" /\ cut' = FALSE
  /\ UNCHANGED <<request, sent, tabs, owed, result>>

-------------------------------------------------------------------------------
(* The browser, in its own time.                                           *)

BrowserOpens(t) ==
  /\ tabs[t] = "ordered"
  /\ tabs' = [tabs EXCEPT ![t] = "open"]
  /\ UNCHANGED <<request, attempt, step, clock, sent, driver, session, result>>

BrowserEndsTab(t) ==
  /\ tabs[t] = "closing"
  /\ tabs' = [tabs EXCEPT ![t] = "closed"]
  /\ session' = IF t \in mine /\ session # "none" THEN "gone" ELSE session
  /\ UNCHANGED <<request, attempt, step, clock, sent, driver, result>>

\* Someone else closes it, or it crashes.
TabVanishes(t) ==
  /\ tabs[t] \in {"open", "closing"}
  /\ tabs' = [tabs EXCEPT ![t] = "gone"]
  /\ session' = IF t \in mine /\ session # "none" THEN "gone" ELSE session
  /\ UNCHANGED <<request, attempt, step, clock, sent, driver, result>>

BrowserAttaches ==
  /\ session = "asked" /\ \E t \in mine : tabs[t] \in {"open", "closing"}
  /\ session' = "attached"
  /\ UNCHANGED <<request, attempt, step, clock, sent, driver, tabs, result>>

BrowserDetaches ==
  /\ session = "leaving"
  /\ session' = "gone"
  /\ UNCHANGED <<request, attempt, step, clock, sent, driver, tabs, result>>

BrowserRuns ==
  \/ \E t \in Tabs : BrowserOpens(t) \/ BrowserEndsTab(t) \/ TabVanishes(t)
  \/ BrowserAttaches \/ BrowserDetaches

PipelineStep ==
  \/ Resolves \/ FailsEarly \/ SendsHttp \/ HttpAnswers \/ HttpFails \/ Escalates
  \/ Connects \/ AsksForTab \/ TabOpens \/ OpenFails
  \/ AsksForSession \/ Attaches \/ AttachFails
  \/ Prepares \/ Navigates \/ Navigated \/ PageReady \/ StageFails \/ Captures
  \/ SendsClose \/ TabCloses \/ CloseFails \/ DetachEnds

FetchNext == PipelineStep \/ Tick \/ CutShort \/ TriesAgain \/ BrowserRuns

FetchSpec == FetchInit /\ [][FetchNext]_fetchVars

StageTimerFires ==
  /\ clock # "running"
  /\ FailsEarly \/ HttpFails \/ OpenFails \/ AttachFails \/ StageFails

\* Only the timers are sure to fire; the browser may never answer.
FetchFairness == WF_fetchVars(Tick \/ StageTimerFires \/ CutShort \/ TriesAgain)

-------------------------------------------------------------------------------
(* Properties.                                                             *)

\* Every variable keeps its type; an attempt knows its own tab or the given one.
FetchTypeOK ==
  /\ request \in Requests
  /\ attempt \in 1 .. request.retries + 1
  /\ step \in Places
  /\ clock \in {"running", "spent", "over"}
  /\ sent \in 0 .. 2 * attempt
  /\ mine \subseteq (IF request.given THEN {Given} ELSE {attempt})
  /\ attached \in BOOLEAN /\ cut \in BOOLEAN
  /\ session \in {"none", "asked", "attached", "leaving", "gone"}
  /\ tabs \in [Tabs -> {"none", "ordered", "open", "closing", "closed", "gone"}]
  /\ capture \in {"none", "unverified", "verified", "download"}
  /\ outcome \in {"none", "ok", "failed"}
  /\ told \subseteq Tabs /\ owed \subseteq Tabs /\ reported \subseteq Tabs

\* A request that is not GET or HEAD reaches the target at most once, retries and
\* escalation included (fetch/mod.rs:523, "sending it again could repeat its
\* effect").
SentOnceUnlessIdempotent == request.idempotent \/ sent <= 1

\* No failure closes a takeover's tab, nor a tab that was given
\* (browser/mod.rs:156): a takeover's goes over content found verified, or over a
\* finished download if the fetch opened it, a given one only by a takeover.  That
\* a download is enough is the code's rule (download.rs:152): the documentation
\* says that "reclaiming a takeover tab requires positive mechanical capture
\* evidence" (docs/reference.md:118), and a download has none.
TabsAreClosedOnlyWhenMeant ==
  [][\A t \in Tabs : tabs[t] = "open" /\ tabs'[t] = "closing" =>
       IF request.keep THEN \/ capture = "verified"
                            \/ capture = "download" /\ t # Given
       ELSE t # Given]_fetchVars

\* Of every tab any attempt got onto, unless the whole timer cut that attempt
\* short, the browser has confirmed the close or the attempt's trace has the name
\* (browser/mod.rs:1200).  A retry drops that trace (reported, and not told): the
\* error returned in the end names no tab of an earlier attempt, although the
\* documentation says that "fetch errors report `trace.retained_tab_id` when a
\* target was retained" (docs/takeover-reliability.md:26).
AttachedTabsAreAccountedFor ==
  step \in Resting => \A t \in owed : t \in reported \/ tabs[t] = "closed"

\* A fetch that succeeds leaves no session behind (navigate.rs:38).
SuccessLeavesNoSession ==
  outcome = "ok" => session \in {"none", "leaving", "gone"}

\* A fetch ends, whatever the browser does (fetch/mod.rs:556).
FetchEnds == <>(step = "returned")

===============================================================================
