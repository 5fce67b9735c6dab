----------------------------- MODULE WindowAnchor -----------------------------
(***************************************************************************)
(* Closing a tab without closing the browser: sdk/cdp/session.rs,          *)
(* close_target_preserving_browser.  A headful browser exits with its last *)
(* page, so every close afhttp makes (a fetch's cleanup, the reaper) first *)
(* makes sure that an inert anchor page remains: it lists the targets,     *)
(* creates an anchor if it saw none, and only then closes.  Closings run      *)
(* concurrently on connections of their own, each under one timeout that   *)
(* can fire at any await; a request already sent is executed all the same, *)
(* however late.  People at the display open, close and navigate pages.    *)
(***************************************************************************)
EXTENDS Naturals, FiniteSets

CONSTANTS Closings,     \* concurrent calls of close_target_preserving_browser
          Targets,      \* target ids; bounds how many pages are ever opened
          MaxLapses     \* bound on the calls that end before their answer

ASSUME LapsesAssumption == MaxLapses \in Nat

VARIABLES
  single,     \* a browser that holds one page only (Lightpanda)
  used,       \* every target id the browser has handed out
  pages,      \* the targets it has now
  anchors,    \* those whose url is about:blank#afhttp-window-anchor
  everAnchor, \* targets that were created as an anchor
  stage,      \* where each call is
  target_id,  \* what it was asked to close
  creates,    \* calls whose createTarget the browser has yet to run
  closes,     \* calls whose closeTarget the browser has yet to run
  lapses,     \* calls that failed before their answer so far
  tampered    \* someone outside afhttp closed a page created as an anchor

anchorVars == <<single, used, pages, anchors, everAnchor, stage,
                target_id, creates, closes, lapses, tampered>>
targets == <<used, pages, anchors, everAnchor>>
requests == <<creates, closes>>

Waiting == {"listing", "unguarded", "creating", "guarded", "closing"}

AnchorInit ==
  /\ single \in BOOLEAN
  /\ used \in SUBSET Targets
  /\ single => Cardinality(used) <= 1
  /\ pages = used
  /\ anchors = {}
  /\ everAnchor = {}
  /\ stage = [c \in Closings |-> "idle"]
  /\ target_id \in [Closings -> Targets]
  /\ creates = {}
  /\ closes = {}
  /\ lapses = 0
  /\ tampered = FALSE

-------------------------------------------------------------------------------
(* A call.                                                                 *)

\* afhttp closes tabs a fetch made and web pages the reaper found, never one at
\* the anchor's url.  A caller whose earlier request is still under way makes
\* its next call as another member of Closings.
Begin(c) ==
  /\ stage[c] = "idle"
  /\ c \notin creates \cup closes
  /\ stage' = [stage EXCEPT ![c] = "listing"]
  /\ \E t \in pages \ anchors : target_id' = [target_id EXCEPT ![c] = t]
  /\ UNCHANGED <<single, targets, requests, lapses, tampered>>

\* (Variants below a definition's comment are plausible mistakes, used by the
\* mutation runs only: here, counting other work tabs.)
anyOtherPage(c) == \E p \in pages : p # target_id[c]
anchor_exists(c) == \E a \in anchors : a # target_id[c]

\* The browser answers getTargets; the guard looks at the pages of that moment.
Listed(c) ==
  /\ stage[c] = "listing"
  /\ stage' = [stage EXCEPT ![c] = IF anchor_exists(c) THEN "guarded" ELSE "unguarded"]
  /\ UNCHANGED <<single, targets, target_id, requests, lapses, tampered>>

AskAnchor(c) ==
  /\ stage[c] = "unguarded"
  /\ stage' = [stage EXCEPT ![c] = "creating"]
  /\ creates' = creates \cup {c}
  /\ UNCHANGED <<single, targets, target_id, closes, lapses, tampered>>

SendClose(c) ==
  /\ stage[c] = "guarded"
  /\ stage' = [stage EXCEPT ![c] = "closing"]
  /\ closes' = closes \cup {c}
  /\ UNCHANGED <<single, targets, target_id, creates, lapses, tampered>>

\* Any await can end in the timeout, a lost connection or a reply the code does
\* not accept: the call fails, and what it sent stays sent.
Lapse(c) ==
  /\ stage[c] \in Waiting
  /\ lapses < MaxLapses
  /\ lapses' = lapses + 1
  /\ stage' = [stage EXCEPT ![c] = "idle"]
  /\ UNCHANGED <<single, targets, target_id, requests, tampered>>

-------------------------------------------------------------------------------
(* The browser runs a request, whether or not its caller still waits.      *)

Fresh(t) == t \in Targets \ used /\ (single => pages = {})

\* The reply names the new page; a call that lapsed has nobody to read it.
AnchorOpens(c) ==
  /\ c \in creates
  /\ creates' = creates \ {c}
  /\ \E a \in Targets :
        /\ Fresh(a)
        /\ used' = used \cup {a}
        /\ pages' = pages \cup {a}
        /\ anchors' = anchors \cup {a}
        /\ everAnchor' = everAnchor \cup {a}
  /\ stage' = [stage EXCEPT ![c] = IF stage[c] = "creating" THEN "guarded" ELSE "idle"]
  /\ UNCHANGED <<single, target_id, closes, lapses, tampered>>

\* TargetAlreadyLoaded: one page is all this browser holds, it has no window to
\* lose and the close may go ahead.
refuses_second_target == single /\ pages # {}

AnchorRefused(c) ==
  /\ c \in creates
  /\ creates' = creates \ {c}
  /\ stage' = [stage EXCEPT ![c] = IF stage[c] = "creating" /\ refuses_second_target
                                   THEN "guarded" ELSE "idle"]
  /\ UNCHANGED <<single, targets, target_id, closes, lapses, tampered>>

PageCloses(c) ==
  /\ c \in closes
  /\ closes' = closes \ {c}
  /\ pages' = pages \ {target_id[c]}
  /\ anchors' = anchors \ {target_id[c]}
  /\ stage' = [stage EXCEPT ![c] = "idle"]
  /\ UNCHANGED <<single, used, everAnchor, target_id, creates, lapses, tampered>>

\* closeTarget answers with an error or without success: true.
CloseDeclined(c) ==
  /\ c \in closes
  /\ closes' = closes \ {c}
  /\ stage' = [stage EXCEPT ![c] = "idle"]
  /\ UNCHANGED <<single, targets, target_id, creates, lapses, tampered>>

-------------------------------------------------------------------------------
(* Everyone else: fetches open work tabs, people use the display.          *)

PageOpens ==
  /\ \E t \in Targets :
        /\ Fresh(t)
        /\ used' = used \cup {t}
        /\ pages' = pages \cup {t}
  /\ UNCHANGED <<single, anchors, everAnchor, stage, target_id, requests, lapses, tampered>>

AnchorNavigates ==
  /\ \E a \in anchors : anchors' = anchors \ {a}
  /\ UNCHANGED <<single, used, pages, everAnchor, stage, target_id, requests, lapses, tampered>>

OutsiderCloses ==
  /\ \E p \in pages :
        /\ pages' = pages \ {p}
        /\ anchors' = anchors \ {p}
        /\ tampered' = (tampered \/ p \in everAnchor)
  /\ UNCHANGED <<single, used, everAnchor, stage, target_id, requests, lapses>>

CloseStep(c) == Begin(c) \/ Listed(c) \/ AskAnchor(c) \/ SendClose(c) \/ Lapse(c)

BrowserStep(c) == AnchorOpens(c) \/ AnchorRefused(c) \/ PageCloses(c) \/ CloseDeclined(c)

AnchorNext ==
  \/ \E c \in Closings : CloseStep(c) \/ BrowserStep(c)
  \/ PageOpens
  \/ AnchorNavigates
  \/ OutsiderCloses

AnchorSpec == AnchorInit /\ [][AnchorNext]_anchorVars

-------------------------------------------------------------------------------
(* Properties.                                                             *)

\* Every variable keeps its type, and a call waits only for an answer to a
\* request that is on its way (session.rs:63, every send is awaited).
AnchorTypeOK ==
  /\ single \in BOOLEAN /\ tampered \in BOOLEAN
  /\ used \subseteq Targets /\ pages \subseteq used
  /\ anchors \subseteq pages /\ anchors \subseteq everAnchor /\ everAnchor \subseteq used
  /\ stage \in [Closings -> Waiting \cup {"idle"}]
  /\ target_id \in [Closings -> Targets]
  /\ creates \subseteq Closings /\ closes \subseteq Closings
  /\ lapses \in 0 .. MaxLapses
  /\ \A c \in Closings : stage[c] = "creating" => c \in creates
  /\ \A c \in Closings : stage[c] = "closing" => c \in closes

\* No close afhttp makes takes the last page of a browser that can hold two,
\* however many calls overlap and however late the browser runs them
\* (session.rs:73, "A dedicated inert anchor survives all normal fetch/reaper
\* cleanup"), unless someone else closed an anchor.
LastPageSurvives ==
  [][\A c \in Closings : PageCloses(c) /\ target_id[c] \in pages
                        => single \/ tampered \/ pages' # {}]_anchorVars

\* What afhttp is about to close: a closeTarget is on its way, or will be sent.
Doomed == {target_id[c] : c \in closes \cup {d \in Closings : stage[d] = "guarded"}}

\* While any page is about to be closed by afhttp, some page created as an anchor
\* is not, so that no order in which the browser runs the closes can end it
\* (session.rs:74).
AnAnchorIsSpared ==
  ~single /\ ~tampered /\ Doomed # {} => \E a \in everAnchor \cap pages : a \notin Doomed

===============================================================================
