------------------------------- MODULE Intercept -------------------------------
(***************************************************************************)
(* Navigating with a method, a body or credentials                         *)
(* (sdk/fetch/pipeline/browser/navigate.rs).  Page.navigate can only GET,  *)
(* so the tab's requests are paused and a task of the fetch lets each of   *)
(* them go: the first document with the method and body, the requests to   *)
(* the target's origin with the caller's credentials.  The page goes on    *)
(* making requests, its events come through a channel that drops the       *)
(* oldest, and whatever is still paused when the fetch detaches goes out   *)
(* as the page made it.                                                    *)
(***************************************************************************)
EXTENDS Integers, Sequences, FiniteSets

CONSTANTS Asks,       \* [override, form, scoped, used]: what is asked, and whether
                      \* the tab already shows a page
          EventRoom   \* 256 in the source: events a reader may be behind

ASSUME InterceptAssumption == EventRoom \in Nat \ {0}
ASSUME AsksAssumption ==
  Asks \subseteq [override : BOOLEAN, form : BOOLEAN, scoped : BOOLEAN, used : BOOLEAN]

\* The navigation's document and where it is redirected to, what the page loads
\* from its own and from another origin, and the document of a child frame.
Requests == {"main", "hop", "sub", "far", "frame"}
Document(r) == r \in {"main", "hop", "frame"}
\* Whether the request is for the origin that was navigated to.
AtTarget(r) == r \in {"main", "sub"}

VARIABLES
  ask,
  nav,       \* idle, enabling, navigating, navigated, failed, detached
  patterns,  \* what Fetch pauses in the session: documents, own
  req,       \* each request: none, paused, out, gone (given up by the page)
  sent,      \* how it went out: Unsent, or [over, creds, how]
  events,    \* Fetch.requestPaused not yet received by the task
  task,      \* none, listening, awaiting (an answer), disabling, over
  override,  \* whether the method and body still wait for a document
  going,     \* Fetch.continueRequest under way: [r, over, creds]
  reply,     \* what the task tells the navigation: none, ok, error
  landed     \* what Page.navigate returned: none, ok, error

interceptVars == <<ask, nav, patterns, req, sent, events, task, override, going, reply,
                   landed>>

Unsent == [over |-> FALSE, creds |-> FALSE, form |-> FALSE, how |-> "unsent"]
Sent(over, creds, how) ==
  [over |-> over, creds |-> creds, form |-> over /\ ask.form, how |-> how]

InterceptInit ==
  /\ ask \in Asks /\ nav = "idle" /\ patterns = {}
  /\ req = [r \in Requests |-> "none"] /\ sent = [r \in Requests |-> Unsent]
  /\ events = <<>> /\ task = "none" /\ override = FALSE /\ going = {}
  /\ reply = "none" /\ landed = "none"

-----------------------------------------------------------------------------
(* The page                                                                *)

pauses(r) == \/ "documents" \in patterns /\ Document(r)
             \/ "own" \in patterns /\ AtTarget(r)

\* A page's own requests follow its document; those of the page shown before
\* may come at any time until it is replaced.
MayRequest(r) ==
  /\ req[r] = "none"
  /\ CASE r = "main" -> nav = "navigating"
       [] r = "hop" -> req["main"] = "out"
       [] OTHER -> ask.used \/ req["main"] = "out"

\* An event to a reader too far behind takes the place of the oldest one.
queued(r) == LET all == Append(events, r)
           IN IF Len(all) > EventRoom THEN Tail(all) ELSE all

TabRequests(r) ==
  /\ MayRequest(r)
  /\ IF pauses(r)
       THEN /\ req' = [req EXCEPT ![r] = "paused"]
            /\ events' = IF task \in {"none", "over"} THEN events ELSE queued(r)
            /\ UNCHANGED sent
       ELSE /\ req' = [req EXCEPT ![r] = "out"]
            /\ sent' = [sent EXCEPT ![r] = Sent(FALSE, FALSE, "free")]
            /\ UNCHANGED events
  /\ UNCHANGED <<ask, nav, patterns, task, override, going, reply, landed>>

\* The page no longer wants what is paused.
PageGivesUp(r) ==
  /\ req[r] = "paused" /\ r # "main"
  /\ req' = [req EXCEPT ![r] = "gone"]
  /\ UNCHANGED <<ask, nav, patterns, sent, events, task, override, going, reply, landed>>

PageNavigates ==
  /\ nav = "navigating" /\ landed = "none"
  /\ \/ req["main"] = "out" /\ landed' = "ok"
     \/ landed' = "error"
  /\ UNCHANGED <<ask, nav, patterns, req, sent, events, task, override, going, reply>>

\* Everything still paused goes out as the page made it.
Released(how) ==
  /\ patterns' = {}
  /\ req' = [r \in Requests |-> IF req[r] = "paused" THEN "out" ELSE req[r]]
  /\ sent' = [r \in Requests |-> IF req[r] = "paused" THEN Sent(FALSE, FALSE, how)
                                                     ELSE sent[r]]

-----------------------------------------------------------------------------
(* The navigation                                                          *)

\* Nothing to override and nothing to scope is a plain Page.navigate.
Navigates ==
  /\ nav = "idle"
  /\ nav' = IF ask.override \/ ask.scoped THEN "enabling" ELSE "navigating"
  /\ UNCHANGED <<ask, patterns, req, sent, events, task, override, going, reply, landed>>

\* The reader is subscribed before Fetch.enable is sent.
EnablesFetch ==
  /\ nav = "enabling"
  /\ patterns' = {p \in {"documents", "own"} : IF p = "own" THEN ask.scoped ELSE ask.override}
  /\ nav' = "navigating" /\ task' = "listening" /\ override' = ask.override
  /\ UNCHANGED <<ask, req, sent, events, going, reply, landed>>

EnableFails ==
  /\ nav = "enabling" /\ nav' = "failed"
  /\ UNCHANGED <<ask, patterns, req, sent, events, task, override, going, reply, landed>>

-----------------------------------------------------------------------------
(* The task that lets requests go                                          *)

sameOrigin(r) == ask.scoped /\ AtTarget(r)
continue_params(r, over) == [r |-> r, over |-> over, creds |-> sameOrigin(r)]

\* The first document takes the method and body with it.
overridden(r) == IF Document(r) THEN override ELSE FALSE
left(r) == override /\ ~Document(r)

\* Only the document that carries the override is waited for.
ReceivesPaused ==
  /\ task = "listening" /\ events # <<>>
  /\ LET r == Head(events)
         c == continue_params(r, overridden(r))
     IN /\ going' = going \cup {c} /\ override' = left(r)
        /\ task' = IF c.over THEN "awaiting" ELSE "listening"
  /\ events' = Tail(events)
  /\ UNCHANGED <<ask, nav, patterns, req, sent, reply, landed>>

\* (Variant: without the document nothing is let go any more.)
afterEveryReply == "disabling"
afterReply == IF ask.scoped THEN "listening" ELSE "disabling"

\* What the navigation is told of its document.
tells(c, answer) == IF c.over /\ task = "awaiting" THEN answer ELSE reply

Answered(c, answer) ==
  /\ going' = going \ {c}
  /\ reply' = tells(c, answer)
  /\ task' = IF c.over /\ task = "awaiting" THEN afterReply ELSE task

\* A request the browser no longer knows is an error; an answer may come later
\* than CONTINUE_TIMEOUT, when the request is out all the same.
BrowserContinues(c) ==
  /\ c \in going
  /\ IF req[c.r] = "paused"
       THEN /\ req' = [req EXCEPT ![c.r] = "out"]
            /\ sent' = [sent EXCEPT ![c.r] = Sent(c.over, c.creds, "continued")]
            /\ \E answer \in {"ok", "error"} : Answered(c, answer)
       ELSE UNCHANGED <<req, sent>> /\ Answered(c, "error")
  /\ UNCHANGED <<ask, nav, patterns, events, override, landed>>

\* With no origin to scope to, nothing else needs the task.
DisablesFetch ==
  /\ task = "disabling" /\ task' = "over" /\ Released("disabled") /\ events' = <<>>
  /\ UNCHANGED <<ask, nav, override, going, reply, landed>>

-----------------------------------------------------------------------------
(* The end                                                                 *)

\* Dropping the intercept aborts the task; what it already sent goes on.
Aborted ==
  /\ task' = IF task = "none" THEN "none" ELSE "over"
  /\ events' = <<>>

\* Both the navigation and the reissued document are waited for; the document
\* is looked at first.
joined == IF ask.override THEN reply = "ok" /\ landed = "ok" ELSE landed = "ok"

NavigationDone ==
  /\ nav = "navigating" /\ landed # "none" /\ (ask.override => reply # "none")
  /\ nav' = IF joined THEN "navigated" ELSE "failed"
  /\ IF joined THEN UNCHANGED <<task, events>> ELSE Aborted
  /\ UNCHANGED <<ask, patterns, req, sent, override, going, reply, landed>>

\* The fetch's time is over before either.
NavigationTimesOut ==
  /\ nav = "navigating" /\ nav' = "failed" /\ Aborted
  /\ UNCHANGED <<ask, patterns, req, sent, override, going, reply, landed>>

\* Every fetch closes or detaches its tab before it returns.
ReleasesAll == Released("detached")

FetchDetaches ==
  /\ nav \in {"navigated", "failed"} /\ nav' = "detached"
  /\ ReleasesAll /\ task' = (IF task = "none" THEN "none" ELSE "over") /\ events' = <<>> /\ going' = {}
  /\ UNCHANGED <<ask, override, reply, landed>>

InterceptNext ==
  \/ \E r \in Requests : TabRequests(r) \/ PageGivesUp(r)
  \/ PageNavigates \/ Navigates \/ EnablesFetch \/ EnableFails
  \/ ReceivesPaused \/ \E c \in going : BrowserContinues(c)
  \/ DisablesFetch \/ NavigationDone \/ NavigationTimesOut \/ FetchDetaches

InterceptSpec == InterceptInit /\ [][InterceptNext]_interceptVars

-----------------------------------------------------------------------------
\* The caller's credentials go to the origin that was asked for and nowhere else:
\* not to where the document is redirected, nor to another site's frames, though
\* the override pauses those too.
HeadersStayAtTheirOrigin ==
  \A r \in Requests : sent[r].creds => ask.scoped /\ AtTarget(r)

\* The method and body go out at most once, and a navigation that is reported
\* done sent them; in a tab of its own, with the document it navigated to.
ReissuedOnceWhenReported ==
  LET over == {r \in Requests : sent[r].over} IN
  /\ Cardinality(over) <= 1
  /\ nav = "navigated" /\ ask.override => over # {}
  /\ ~ask.used => over \subseteq {"main"}

\* Until the fetch detaches, what the page asks of its own origin carries the
\* credentials: letting the override's document go does not end that.
OwnRequestsCarryThem ==
  \A r \in Requests :
     ask.scoped /\ AtTarget(r) /\ req[r] = "out" =>
       \/ sent[r].creds
       \/ sent[r].how = "detached"
       \/ sent[r].how = "free" /\ (ask.used \/ nav = "detached")

\* What the caller gave for a navigation is used for it, once and nowhere else
\* (navigate_with_method, continue_params).
NavigationKeepsItsOverride ==
  HeadersStayAtTheirOrigin /\ ReissuedOnceWhenReported /\ OwnRequestsCarryThem
===============================================================================
