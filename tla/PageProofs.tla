------------------------------ MODULE PageProofs ------------------------------
(***************************************************************************)
(* Proofs about what becomes of a fetch's page, one component after the    *)
(* other: the requests the navigation intercepts (Intercept), the plain    *)
(* waits (Waits), a navigation that is a download (Downloads), the capture *)
(* (PageCapture), the streams it listens to (Streams) and the wait for the *)
(* page to be ready (Readiness).  Of each: what the inductive invariant is *)
(* made of, that every step keeps it, and the theorems that follow.        *)
(***************************************************************************)
EXTENDS Intercept, Waits, Downloads, PageCapture, Streams, Readiness,
        FiniteSetTheorems, WellFoundedInduction, TLAPS

\* A set of naturals has a least one.
LEMMA LeastNatural ==
  ASSUME NEW S \in SUBSET Nat, S # {}
  PROVE  \E n \in S : \A m \in S : n <= m
<1> DEFINE R == {ss \in Nat \X Nat : ss[1] < ss[2]}
<1>1. IsWellFoundedOn(R, Nat) BY NatLessThanWellFounded DEF OpToRel
<1>2. PICK n \in S : \A m \in S : ~(<<m, n>> \in R)
  <2> HIDE DEF R
  <2> QED BY <1>1, WFMin
<1>3. ASSUME NEW m \in S PROVE n <= m
  <2>1. m \in Nat /\ n \in Nat OBVIOUS
  <2>2. <<m, n>> \in Nat \X Nat BY <2>1
  <2>3. ~(<<m, n>>[1] < <<m, n>>[2]) BY <1>2, <2>2
  <2> QED BY <2>1, <2>3
<1> QED BY <1>3

-------------------------------------------------------------------------------
(* Intercepted requests: the invariant.                                    *)

Navs == {"idle", "enabling", "navigating", "navigated", "failed", "detached"}
Continued == [r : Requests, over : BOOLEAN, creds : BOOLEAN]

Sendings == [over : BOOLEAN, creds : BOOLEAN, form : BOOLEAN,
             how : {"unsent", "free", "disabled", "continued", "detached"}]

InterceptTypes ==
  /\ ask \in Asks /\ nav \in Navs /\ patterns \subseteq {"documents", "own"}
  /\ req \in [Requests -> {"none", "paused", "out", "gone"}]
  /\ sent \in [Requests -> Sendings]
  /\ events \in Seq(Requests)
  /\ task \in {"none", "listening", "awaiting", "disabling", "over"}
  /\ override \in BOOLEAN /\ going \subseteq Continued
  /\ reply \in {"none", "ok", "error"} /\ landed \in {"none", "ok", "error"}

\* Before Fetch is on nothing is let go, and while the task lives it pauses what
\* was asked for; the credentials' part of that lasts until the detach.
PausedAsAsked ==
  /\ nav \in {"idle", "enabling"} => task = "none" /\ req["main"] = "none"
  /\ task = "none" => /\ going = {} /\ reply = "none" /\ events = <<>>
                      /\ \A r \in Requests : ~sent[r].over
  /\ override => task \in {"listening", "over"}
  /\ task \in {"listening", "awaiting", "disabling"} /\ ask.override => "documents" \in patterns
  /\ task = "disabling" => ~ask.scoped
  /\ nav = "navigating" /\ (ask.override \/ ask.scoped) => task # "none"
  /\ ask.scoped /\ (nav = "navigating" \/ (req["main"] # "none" /\ nav # "detached"))
       => "own" \in patterns

\* The override is in one place: still to be given, on its way, or sent.
OverrideOnce ==
  /\ override => ask.override /\ \A c \in going : ~c.over
  /\ override => \A r \in Requests : ~sent[r].over
  /\ \A c \in going : c.over => ask.override /\ \A r \in Requests : ~sent[r].over
  /\ \A c, d \in going : c.over /\ d.over => c = d
  /\ \A r, s \in Requests : sent[r].over /\ sent[s].over => r = s
  /\ \A r \in Requests : sent[r].over => ask.override

\* What the navigation is told of its document is so.
ToldIsSent ==
  /\ reply = "ok" => \E r \in Requests : sent[r].over
  /\ nav = "navigated" /\ ask.override => \E r \in Requests : sent[r].over
  /\ \A r \in Requests : sent[r].how # "unsent" \/ sent[r].over \/ sent[r].creds => req[r] = "out"

\* In a new tab nothing is paused before the navigation's document.
MainComesFirst ==
  ~ask.used =>
    /\ override /\ task = "listening" =>
         /\ going = {} /\ req["main"] \in {"none", "paused"}
         /\ \A r \in Requests \ {"main"} : req[r] = "none"
         /\ \A i \in 1 .. Len(events) : events[i] = "main"
    /\ \A c \in going : c.over => c.r = "main"
    /\ \A r \in Requests : sent[r].over => r = "main"
    /\ req["main"] # "out" => \A r \in Requests \ {"main"} : req[r] = "none"

CredentialsAtHome ==
  /\ \A c \in going : c.creds = sameOrigin(c.r)
  /\ \A r \in Requests : sent[r].creds => sameOrigin(r)

InterceptInv ==
  /\ InterceptTypes /\ PausedAsAsked /\ OverrideOnce /\ ToldIsSent /\ MainComesFirst
  /\ CredentialsAtHome /\ OwnRequestsCarryThem

-------------------------------------------------------------------------------
(* The intercept: what its handlers do.                                    *)

\* A request of the page's is paused, and its event queued if somebody reads it,
\* or goes out as it is.
LEMMA Requested ==
  ASSUME InterceptTypes, NEW r \in Requests, TabRequests(r)
  PROVE  /\ req[r] = "none" /\ MayRequest(r)
         /\ UNCHANGED <<ask, nav, patterns, task, override, going, reply, landed>>
         /\ events' \in Seq(Requests)
         /\ \A i \in 1 .. Len(events') :
              events'[i] = r \/ \E j \in 1 .. Len(events) : events'[i] = events[j]
         /\ \/ pauses(r) /\ req' = [req EXCEPT ![r] = "paused"] /\ sent' = sent
            \/ /\ ~pauses(r) /\ req' = [req EXCEPT ![r] = "out"] /\ events' = events
               /\ sent' = [sent EXCEPT ![r] = [over |-> FALSE, creds |-> FALSE, form |-> FALSE,
                                               how |-> "free"]]
<1>1. req[r] = "none" /\ MayRequest(r)
      /\ UNCHANGED <<ask, nav, patterns, task, override, going, reply, landed>>
  BY DEF TabRequests, MayRequest
<1>2. CASE pauses(r)
  <2>1. events' = events \/ events' = queued(r) BY <1>2 DEF TabRequests
  <2>2. events \in Seq(Requests) BY DEF InterceptTypes
  <2> DEFINE all == Append(events, r)
  <2>3. all \in Seq(Requests) /\ Len(all) = Len(events) + 1 /\ Len(events) \in Nat
        /\ \A i \in 1 .. Len(all) :
              all[i] = r \/ \E j \in 1 .. Len(events) : all[i] = events[j]
    BY <2>2
  <2>4. Tail(all) \in Seq(Requests) /\ Len(Tail(all)) = Len(events)
        /\ \A i \in 1 .. Len(events) : Tail(all)[i] = all[i + 1]
    <3> HIDE DEF all
    <3>1. all \in Seq(Requests) /\ Len(all) = Len(events) + 1 /\ Len(events) \in Nat BY <2>3
    <3> QED BY <3>1
  <2>5. queued(r) = all \/ queued(r) = Tail(all) BY DEF queued
  <2>6. CASE events' = events BY <1>1, <1>2, <2>2, <2>6 DEF TabRequests
  <2>7. CASE events' = all
    <3>1. req' = [req EXCEPT ![r] = "paused"] /\ sent' = sent BY <1>2 DEF TabRequests
    <3> HIDE DEF all
    <3> QED BY <1>1, <1>2, <2>3, <2>7, <3>1
  <2>8. CASE events' = Tail(all)
    <3>1. req' = [req EXCEPT ![r] = "paused"] /\ sent' = sent BY <1>2 DEF TabRequests
    <3>2. \A i \in 1 .. Len(events) :
            Tail(all)[i] = r \/ \E j \in 1 .. Len(events) : Tail(all)[i] = events[j]
      BY <2>3, <2>4
    <3> HIDE DEF all
    <3> QED BY <1>1, <1>2, <2>4, <2>8, <3>1, <3>2
  <2> QED BY <2>1, <2>5, <2>6, <2>7, <2>8
<1>3. CASE ~pauses(r)
  <2>1. events \in Seq(Requests) BY DEF InterceptTypes
  <2> QED BY <1>1, <1>3, <2>1 DEF TabRequests, Sent
<1> QED BY <1>2, <1>3

\* The task takes the oldest event and lets its request go, the first document
\* with the override.
LEMMA Taken ==
  ASSUME InterceptTypes, ReceivesPaused
  PROVE  /\ task = "listening" /\ UNCHANGED <<ask, nav, patterns, req, sent, reply, landed>>
         /\ events' \in Seq(Requests) /\ Len(events) >= 1
         /\ \A i \in 1 .. Len(events') : events'[i] = events[i + 1] /\ i + 1 \in 1 .. Len(events)
         /\ \E c \in Continued :
              /\ c.r = events[1] /\ c.creds = sameOrigin(c.r)
              /\ going' = going \cup {c}
              /\ c.over => override /\ override' = FALSE /\ task' = "awaiting"
              /\ ~c.over => override' = override /\ task' = "listening"
<1> DEFINE r == Head(events)
           c == continue_params(r, overridden(r))
<1>1. events \in Seq(Requests) /\ events # <<>> BY DEF InterceptTypes, ReceivesPaused
<1>2. /\ r \in Requests /\ r = events[1] /\ Len(events) >= 1 /\ events' \in Seq(Requests)
      /\ \A i \in 1 .. Len(events') : events'[i] = events[i + 1] /\ i + 1 \in 1 .. Len(events)
  BY <1>1 DEF ReceivesPaused
<1>3. ask.scoped \in BOOLEAN BY AsksAssumption DEF InterceptTypes
<1>4. c = [r |-> r, over |-> overridden(r), creds |-> sameOrigin(r)] BY DEF continue_params
<1>5. overridden(r) \in BOOLEAN /\ (overridden(r) <=> Document(r) /\ override)
  BY <1>2 DEF overridden, InterceptTypes
<1>6. sameOrigin(r) \in BOOLEAN BY <1>3 DEF sameOrigin, AtTarget
<1>7. c \in Continued BY <1>2, <1>4, <1>5, <1>6 DEF Continued
<1>8. c.over = overridden(r) /\ c.r = r /\ c.creds = sameOrigin(r) BY <1>4
<1>9. /\ going' = going \cup {c} /\ override' = left(r)
      /\ task' = IF c.over THEN "awaiting" ELSE "listening"
      /\ task = "listening" /\ UNCHANGED <<ask, nav, patterns, req, sent, reply, landed>>
  BY DEF ReceivesPaused
<1>10. left(r) = (override /\ ~Document(r)) BY DEF left
<1>11. c.over => override /\ override' = FALSE /\ task' = "awaiting" BY <1>5, <1>8, <1>9, <1>10
<1>12. ~c.over => override' = override /\ task' = "listening"
  BY <1>5, <1>8, <1>9, <1>10 DEF InterceptTypes
<1> HIDE DEF c, r
<1> QED BY <1>2, <1>7, <1>8, <1>9, <1>11, <1>12

\* The browser lets a paused request go as it was told; otherwise its answer is
\* an error.
LEMMA LetGo ==
  ASSUME InterceptTypes, NEW c \in going, BrowserContinues(c)
  PROVE  /\ going' = going \ {c} /\ UNCHANGED <<ask, nav, patterns, events, override, landed>>
         /\ \/ task' = task
            \/ task = "awaiting" /\ task' \in {"listening", "disabling"}
               /\ (task' = "disabling" => ~ask.scoped)
         /\ \/ reply' = reply
            \/ /\ c.over /\ task = "awaiting" /\ reply' \in {"ok", "error"}
               /\ reply' = "ok" => req[c.r] = "paused"
         /\ \/ /\ req[c.r] = "paused" /\ req' = [req EXCEPT ![c.r] = "out"]
               /\ sent' = [sent EXCEPT ![c.r] = [over |-> c.over, creds |-> c.creds,
                                                 form |-> c.over /\ ask.form, how |-> "continued"]]
            \/ req[c.r] # "paused" /\ req' = req /\ sent' = sent
<1>1. UNCHANGED <<ask, nav, patterns, events, override, landed>> BY DEF BrowserContinues
<1>2. ASSUME NEW answer \in {"ok", "error"}, Answered(c, answer)
      PROVE  /\ going' = going \ {c}
             /\ \/ task' = task
                \/ task = "awaiting" /\ task' \in {"listening", "disabling"}
                   /\ (task' = "disabling" => ~ask.scoped)
             /\ reply' = reply \/ (c.over /\ task = "awaiting" /\ reply' = answer)
  BY <1>2 DEF Answered, tells, afterReply
<1>3. CASE req[c.r] = "paused"
  <2>1. PICK answer \in {"ok", "error"} : Answered(c, answer) BY <1>3 DEF BrowserContinues
  <2>2. req' = [req EXCEPT ![c.r] = "out"]
        /\ sent' = [sent EXCEPT ![c.r] = Sent(c.over, c.creds, "continued")]
    BY <1>3 DEF BrowserContinues
  <2> QED BY <1>1, <1>2, <1>3, <2>1, <2>2 DEF Sent
<1>4. CASE req[c.r] # "paused"
  <2>1. req' = req /\ sent' = sent /\ Answered(c, "error") BY <1>4 DEF BrowserContinues
  <2> QED BY <1>1, <1>2, <1>4, <2>1
<1> QED BY <1>3, <1>4

-------------------------------------------------------------------------------
(* The intercept: its invariant is inductive.                              *)

\* Type correctness of the intercept (navigate.rs).
LEMMA InterceptTypesStep ==
  ASSUME InterceptTypes, [InterceptNext]_interceptVars
  PROVE  InterceptTypes'
<1> USE DEF InterceptTypes, Navs
<1>1. ASSUME NEW r \in Requests, TabRequests(r) PROVE InterceptTypes'
  <2>1. /\ req[r] = "none" /\ events' \in Seq(Requests)
        /\ UNCHANGED <<ask, nav, patterns, task, override, going, reply, landed>>
    BY <1>1, Requested
  <2>2. sent' \in [Requests -> Sendings]
    <3>1. sent' = sent \/ sent' = [sent EXCEPT ![r] = [over |-> FALSE, creds |-> FALSE,
                                                     form |-> FALSE, how |-> "free"]]
      BY <1>1, Requested
    <3>2. sent \in [Requests -> Sendings] OBVIOUS
    <3>3. [over |-> FALSE, creds |-> FALSE, form |-> FALSE, how |-> "free"] \in Sendings
      BY DEF Sendings
    <3> HIDE DEF InterceptTypes
    <3> QED BY <3>1, <3>2, <3>3
  <2>3. req' \in [Requests -> {"none", "paused", "out", "gone"}] BY <1>1 DEF TabRequests
  <2> QED BY <2>1, <2>2, <2>3
<1>2. ASSUME NEW r \in Requests, PageGivesUp(r) PROVE InterceptTypes'
  BY <1>2 DEF PageGivesUp
<1>3. CASE PageNavigates
  BY <1>3 DEF PageNavigates
<1>4. CASE Navigates
  BY <1>4 DEF Navigates
<1>5. CASE EnablesFetch
  BY <1>5, AsksAssumption DEF EnablesFetch
<1>6. CASE EnableFails
  BY <1>6 DEF EnableFails
<1>7. CASE ReceivesPaused
  <2>1. events' \in Seq(Requests) /\ UNCHANGED <<ask, nav, patterns, req, sent, reply, landed>>
    BY <1>7, Taken
  <2>2. PICK c \in Continued :
          /\ going' = going \cup {c}
          /\ c.over => override /\ override' = FALSE /\ task' = "awaiting"
          /\ ~c.over => override' = override /\ task' = "listening"
    BY <1>7, Taken
  <2>3. override' \in BOOLEAN /\ task' \in {"listening", "awaiting"} BY <2>2
  <2> QED BY <2>1, <2>2, <2>3
<1>8. ASSUME NEW c \in going, BrowserContinues(c) PROVE InterceptTypes'
  <2>1. ask.form \in BOOLEAN BY AsksAssumption
  <2>2. c.over \in BOOLEAN /\ c.creds \in BOOLEAN /\ c.r \in Requests BY DEF Continued
  <2>3. sent' \in [Requests -> Sendings]
    BY <1>8, <2>1, <2>2 DEF BrowserContinues, Sent, Sendings
  <2>4. req' \in [Requests -> {"none", "paused", "out", "gone"}]
    BY <1>8, <2>2 DEF BrowserContinues
  <2> QED BY <1>8, <2>3, <2>4, LetGo
<1>9. CASE DisablesFetch
  BY <1>9 DEF DisablesFetch, Released, Sent, Sendings
<1>10. CASE NavigationDone
  <2>1. nav' \in Navs BY <1>10 DEF NavigationDone
  <2>2. \/ UNCHANGED <<task, events>>
        \/ task' = (IF task = "none" THEN "none" ELSE "over") /\ events' = <<>>
    BY <1>10 DEF NavigationDone, Aborted
  <2>3. events' \in Seq(Requests)
    <3>1. events \in Seq(Requests) OBVIOUS
    <3>2. events' = events \/ events' = <<>> BY <2>2
    <3>3. CASE events' = events BY <3>1, <3>3
    <3>4. CASE events' = <<>> BY <3>4
    <3> QED BY <3>2, <3>3, <3>4
  <2>4. task' \in {"none", "listening", "awaiting", "disabling", "over"} BY <2>2
  <2> QED BY <1>10, <2>1, <2>3, <2>4 DEF NavigationDone
<1>11. CASE NavigationTimesOut
  BY <1>11 DEF NavigationTimesOut, Aborted
<1>12. CASE FetchDetaches
  BY <1>12 DEF FetchDetaches, ReleasesAll, Released, Sent, Sendings
<1>13. CASE UNCHANGED interceptVars BY <1>13 DEF interceptVars
<1> QED
  BY <1>1, <1>2, <1>3, <1>4, <1>5, <1>6, <1>7, <1>8, <1>9, <1>10, <1>11, <1>12, <1>13
     DEF InterceptNext

\* The task pauses what was asked for as long as it lives (navigate_with_method).
LEMMA PausedStep ==
  ASSUME InterceptTypes, PausedAsAsked, [InterceptNext]_interceptVars
  PROVE  PausedAsAsked'
<1> USE DEF InterceptTypes, PausedAsAsked
<1>1. ASSUME NEW r \in Requests, TabRequests(r) PROVE PausedAsAsked'
  <2>1. UNCHANGED <<ask, nav, patterns, task, override, going, reply, landed>>
    BY <1>1, Requested DEF InterceptTypes
  <2>2. r # "main" => req'["main"] = req["main"] BY <1>1, Requested DEF Requests
  <2>3. r = "main" => nav = "navigating" BY <1>1 DEF TabRequests, MayRequest
  <2>4. nav = "navigating" \/ req'["main"] = req["main"] BY <2>2, <2>3
  <2>5. task = "none" => events' = events BY <1>1 DEF TabRequests
  <2>6. \A s \in Requests : sent'[s].over => sent[s].over
    <3>1. sent' = sent \/ sent' = [sent EXCEPT ![r] = [over |-> FALSE, creds |-> FALSE,
                                                     form |-> FALSE, how |-> "free"]]
      BY <1>1, Requested
    <3> QED BY <3>1
  <2> HIDE DEF InterceptTypes
  <2> QED BY <2>1, <2>4, <2>5, <2>6
<1>2. ASSUME NEW r \in Requests, PageGivesUp(r) PROVE PausedAsAsked'
  BY <1>2 DEF PageGivesUp
<1>3. CASE PageNavigates
  BY <1>3 DEF PageNavigates
<1>4. CASE Navigates
  BY <1>4 DEF Navigates
<1>5. CASE EnablesFetch
  BY <1>5 DEF EnablesFetch
<1>6. CASE EnableFails
  BY <1>6 DEF EnableFails
<1>7. CASE ReceivesPaused
  BY <1>7 DEF ReceivesPaused, continue_params, overridden, left, sameOrigin
<1>8. ASSUME NEW c \in going, BrowserContinues(c) PROVE PausedAsAsked'
  <2>1. /\ going' \subseteq going
        /\ going # {}
        /\ UNCHANGED <<ask, nav, patterns, override, landed>>
        /\ \/ task' = task
           \/ task = "awaiting" /\ task' \in {"listening", "disabling"}
              /\ (task' = "disabling" => ~ask.scoped)
    BY <1>8, LetGo DEF InterceptTypes
  <2>2. req'["main"] = req["main"] \/ (req["main"] # "none" /\ req'["main"] = "out")
    <3>1. c.r \in Requests BY DEF Continued
    <3>2. req' = req \/ (req[c.r] = "paused" /\ req' = [req EXCEPT ![c.r] = "out"])
      BY <1>8, LetGo
    <3> QED BY <3>1, <3>2 DEF Requests
  <2>3. task # "none" BY <2>1
  <2>4. nav \notin {"idle", "enabling"} BY <2>3
  <2> HIDE DEF InterceptTypes
  <2> QED BY <2>1, <2>2, <2>3, <2>4
<1>9. CASE DisablesFetch
  BY <1>9 DEF DisablesFetch, Released, Sent, Sendings
<1>10. CASE NavigationDone
  BY <1>10 DEF NavigationDone, joined, Aborted
<1>11. CASE NavigationTimesOut
  BY <1>11 DEF NavigationTimesOut, Aborted
<1>12. CASE FetchDetaches
  BY <1>12 DEF FetchDetaches, ReleasesAll, Released, Sent, Sendings
<1>13. CASE UNCHANGED interceptVars BY <1>13 DEF interceptVars
<1> QED
  BY <1>1, <1>2, <1>3, <1>4, <1>5, <1>6, <1>7, <1>8, <1>9, <1>10, <1>11, <1>12, <1>13
     DEF InterceptNext

\* The override is given to one document (continue_params).
LEMMA OverrideStep ==
  ASSUME InterceptTypes, PausedAsAsked, ToldIsSent, OverrideOnce, [InterceptNext]_interceptVars
  PROVE  OverrideOnce'
<1> USE DEF OverrideOnce, InterceptTypes, ToldIsSent
<1>1. ASSUME NEW r \in Requests, TabRequests(r) PROVE OverrideOnce'
  <2>1. UNCHANGED <<ask, override, going>> BY <1>1 DEF TabRequests
  <2>2. \A s \in Requests : sent'[s].over => sent[s].over
    <3>1. sent' = sent \/ sent' = [sent EXCEPT ![r] = [over |-> FALSE, creds |-> FALSE,
                                                     form |-> FALSE, how |-> "free"]]
      BY <1>1, Requested DEF InterceptTypes
    <3> QED BY <3>1
  <2> HIDE DEF InterceptTypes
  <2> QED BY <2>1, <2>2
<1>2. ASSUME NEW r \in Requests, PageGivesUp(r) PROVE OverrideOnce'
  BY <1>2 DEF PageGivesUp
<1>3. CASE PageNavigates
  BY <1>3 DEF PageNavigates
<1>4. CASE Navigates
  BY <1>4 DEF Navigates
<1>5. CASE EnablesFetch
  <2>1. task = "none" /\ going = {} BY <1>5 DEF EnablesFetch, PausedAsAsked
  <2>2. \A s \in Requests : ~sent[s].over BY <2>1 DEF PausedAsAsked
  <2> QED BY <1>5, <2>1, <2>2 DEF EnablesFetch
<1>6. CASE EnableFails
  BY <1>6 DEF EnableFails
<1>7. CASE ReceivesPaused
  <2>1. UNCHANGED <<ask, sent>> BY <1>7, Taken
  <2>2. PICK c \in Continued :
          /\ going' = going \cup {c}
          /\ c.over => override /\ override' = FALSE
          /\ ~c.over => override' = override
    BY <1>7, Taken
  <2>3. CASE c.over
    <3>1. \A d \in going : ~d.over BY <2>2, <2>3
    <3> QED BY <2>1, <2>2, <2>3, <3>1
  <2>4. CASE ~c.over BY <2>1, <2>2, <2>4
  <2> QED BY <2>3, <2>4
<1>8. ASSUME NEW c \in going, BrowserContinues(c) PROVE OverrideOnce'
  <2>1. UNCHANGED <<ask, override>> /\ going' = going \ {c} BY <1>8, LetGo
  <2>2. CASE sent' = sent BY <2>1, <2>2
  <2>3. CASE sent' # sent
    <3>1. sent' = [sent EXCEPT ![c.r] = [over |-> c.over, creds |-> c.creds,
                                         form |-> c.over /\ ask.form, how |-> "continued"]]
      BY <1>8, <2>3, LetGo
    <3>2. \A s \in Requests : sent'[s].over => sent[s].over \/ (s = c.r /\ c.over)
      BY <3>1
    <3>3. c.over => \A d \in going' : ~d.over BY <2>1
    <3> HIDE DEF InterceptTypes
    <3> QED BY <2>1, <3>2, <3>3
  <2> QED BY <2>2, <2>3
<1>9. CASE DisablesFetch
  BY <1>9 DEF DisablesFetch, Released, Sent, Sendings
<1>10. CASE NavigationDone
  BY <1>10 DEF NavigationDone, joined, Aborted
<1>11. CASE NavigationTimesOut
  BY <1>11 DEF NavigationTimesOut, Aborted
<1>12. CASE FetchDetaches
  BY <1>12 DEF FetchDetaches, ReleasesAll, Released, Sent, Sendings
<1>13. CASE UNCHANGED interceptVars BY <1>13 DEF interceptVars
<1> QED
  BY <1>1, <1>2, <1>3, <1>4, <1>5, <1>6, <1>7, <1>8, <1>9, <1>10, <1>11, <1>12, <1>13
     DEF InterceptNext

\* A document reported let go carried the override.
LEMMA ToldStep ==
  ASSUME InterceptTypes, PausedAsAsked, ToldIsSent, [InterceptNext]_interceptVars
  PROVE  ToldIsSent'
<1> USE DEF ToldIsSent, InterceptTypes
<1>1. ASSUME NEW r \in Requests, TabRequests(r) PROVE ToldIsSent'
  BY <1>1 DEF TabRequests, MayRequest, pauses, queued, Sent, Unsent
<1>2. ASSUME NEW r \in Requests, PageGivesUp(r) PROVE ToldIsSent'
  BY <1>2 DEF PageGivesUp
<1>3. CASE PageNavigates
  BY <1>3 DEF PageNavigates
<1>4. CASE Navigates
  BY <1>4 DEF Navigates
<1>5. CASE EnablesFetch
  BY <1>5 DEF EnablesFetch
<1>6. CASE EnableFails
  BY <1>6 DEF EnableFails
<1>7. CASE ReceivesPaused
  BY <1>7 DEF ReceivesPaused, continue_params, overridden, left, sameOrigin
<1>8. ASSUME NEW c \in going, BrowserContinues(c) PROVE ToldIsSent'
  <2>1. UNCHANGED <<ask, nav>> /\ c.r \in Requests BY <1>8, LetGo DEF Continued
  <2>2. CASE req[c.r] = "paused"
    <3>1. /\ req' = [req EXCEPT ![c.r] = "out"]
          /\ sent' = [sent EXCEPT ![c.r] = [over |-> c.over, creds |-> c.creds,
                                         form |-> c.over /\ ask.form, how |-> "continued"]]
      BY <1>8, <2>2, LetGo
    <3>2. reply' = "ok" => reply = "ok" \/ c.over BY <1>8, LetGo
    <3>3. ~sent[c.r].over BY <2>1, <2>2
    <3>4. \A s \in Requests : sent[s].over => sent'[s].over BY <3>1, <3>3
    <3>5. c.over => sent'[c.r].over BY <2>1, <3>1
    <3>6. \A s \in Requests : sent'[s].how # "unsent" \/ sent'[s].over \/ sent'[s].creds
                              => req'[s] = "out"
      BY <2>1, <3>1
    <3> HIDE DEF InterceptTypes
    <3> QED BY <2>1, <3>2, <3>4, <3>5, <3>6
  <2>3. CASE req[c.r] # "paused"
    <3>1. req' = req /\ sent' = sent /\ (reply' = "ok" => reply = "ok") BY <1>8, <2>3, LetGo
    <3> QED BY <2>1, <3>1
  <2> QED BY <2>2, <2>3
<1>9. CASE DisablesFetch
  BY <1>9 DEF DisablesFetch, Released, Sent, Sendings
<1>10. CASE NavigationDone
  BY <1>10 DEF NavigationDone, joined, Aborted
<1>11. CASE NavigationTimesOut
  BY <1>11 DEF NavigationTimesOut, Aborted
<1>12. CASE FetchDetaches
  BY <1>12 DEF FetchDetaches, ReleasesAll, Released, Sent, Sendings
<1>13. CASE UNCHANGED interceptVars BY <1>13 DEF interceptVars
<1> QED
  BY <1>1, <1>2, <1>3, <1>4, <1>5, <1>6, <1>7, <1>8, <1>9, <1>10, <1>11, <1>12, <1>13
     DEF InterceptNext

\* In a new tab the first document is the navigation's own.
LEMMA MainStep ==
  ASSUME InterceptTypes, PausedAsAsked, OverrideOnce, ToldIsSent, MainComesFirst,
         [InterceptNext]_interceptVars
  PROVE  MainComesFirst'
<1> USE DEF MainComesFirst
<1>1. ASSUME NEW r \in Requests, TabRequests(r) PROVE MainComesFirst'
  <2> SUFFICES ASSUME ~ask.used PROVE MainComesFirst' BY <1>1, Requested
  <2>1. UNCHANGED <<ask, nav, patterns, task, override, going>> BY <1>1, Requested
  <2>2. r # "main" => req["main"] = "out" BY <1>1 DEF TabRequests, MayRequest
  <2>3. \A s \in Requests : sent'[s].over => sent[s].over
    <3>1. sent' = sent \/ sent' = [sent EXCEPT ![r] = [over |-> FALSE, creds |-> FALSE,
                                                     form |-> FALSE, how |-> "free"]]
      BY <1>1, Requested
    <3> QED BY <3>1 DEF InterceptTypes
  <2>4. \A s \in Requests \ {r} : req'[s] = req[s] BY <1>1, Requested DEF InterceptTypes
  <2>5. override /\ task = "listening" =>
          /\ r = "main" /\ req'["main"] = "paused"
          /\ \A i \in 1 .. Len(events') : events'[i] = "main"
    <3> SUFFICES ASSUME override, task = "listening"
                 PROVE  /\ r = "main" /\ req'["main"] = "paused"
                        /\ \A i \in 1 .. Len(events') : events'[i] = "main"
      OBVIOUS
    <3>1. r = "main" BY <2>2
    <3>2. "documents" \in patterns BY DEF OverrideOnce, PausedAsAsked
    <3>3. pauses(r) BY <3>1, <3>2 DEF pauses, Document
    <3>4. req' = [req EXCEPT ![r] = "paused"] BY <1>1, <3>3, Requested
    <3>5. \A i \in 1 .. Len(events') :
            events'[i] = r \/ \E j \in 1 .. Len(events) : events'[i] = events[j]
      BY <1>1, Requested
    <3>6. req'["main"] = "paused" BY <3>1, <3>4 DEF InterceptTypes, Requests
    <3>7. \A j \in 1 .. Len(events) : events[j] = "main" OBVIOUS
    <3> QED BY <3>1, <3>5, <3>6, <3>7
  <2>6. req[r] = "none" BY <1>1, Requested
  <2>7. r # "main" => req'["main"] = "out" BY <2>2, <2>4 DEF Requests
  <2>8. req'["main"] # "out" => \A s \in Requests \ {"main"} : req'[s] = "none"
    BY <2>4, <2>6, <2>7
  <2>9. override /\ task = "listening" => \A s \in Requests \ {"main"} : req'[s] = "none"
    BY <2>4, <2>5
  <2> QED BY <2>1, <2>3, <2>5, <2>8, <2>9
<1>2. ASSUME NEW r \in Requests, PageGivesUp(r) PROVE MainComesFirst'
  BY <1>2 DEF PageGivesUp
<1>3. CASE PageNavigates
  BY <1>3 DEF PageNavigates
<1>4. CASE Navigates
  BY <1>4 DEF Navigates
<1>5. CASE EnablesFetch
  <2>1. task = "none" /\ going = {} /\ req["main"] = "none" /\ events = <<>>
    BY <1>5 DEF EnablesFetch, PausedAsAsked
  <2> QED BY <1>5, <2>1 DEF EnablesFetch
<1>6. CASE EnableFails
  BY <1>6 DEF EnableFails
<1>7. CASE ReceivesPaused
  <2> SUFFICES ASSUME ~ask.used PROVE MainComesFirst' BY <1>7, Taken
  <2>1. PICK c \in Continued :
          /\ c.r = events[1] /\ going' = going \cup {c}
          /\ c.over => override /\ override' = FALSE /\ task' = "awaiting"
          /\ ~c.over => override' = override /\ task' = "listening"
    BY <1>7, Taken
  <2>2. /\ task = "listening" /\ UNCHANGED <<ask, nav, patterns, req, sent, reply, landed>>
        /\ Len(events) >= 1
    BY <1>7, Taken
  <2>5. Len(events) \in Nat BY DEF InterceptTypes
  <2>3. override => c.r = "main" BY <2>1, <2>2, <2>5
  <2>4. ~(override' /\ task' = "listening")
    <3>1. override => Head(events) = "main" BY <2>1, <2>2, <2>3, <2>5
    <3>2. override' = left(Head(events)) BY <1>7 DEF ReceivesPaused
    <3> QED BY <3>1, <3>2 DEF left, Document
  <2> QED BY <2>1, <2>2, <2>3, <2>4, <2>5
<1>8. ASSUME NEW c \in going, BrowserContinues(c) PROVE MainComesFirst'
  <2> SUFFICES ASSUME ~ask.used PROVE MainComesFirst' BY <1>8, LetGo
  <2>1. UNCHANGED <<ask, nav, patterns, events, override>> /\ going' = going \ {c}
    BY <1>8, LetGo
  <2>2. ~(override /\ task' = "listening")
    BY <1>8, LetGo DEF PausedAsAsked
  <2>3. \A s \in Requests : sent'[s].over => s = "main"
    <3>1. CASE sent' = sent BY <3>1
    <3>2. CASE sent' # sent
      <4>1. sent' = [sent EXCEPT ![c.r] = [over |-> c.over, creds |-> c.creds,
                                         form |-> c.over /\ ask.form, how |-> "continued"]]
        BY <1>8, <3>2, LetGo
      <4>2. c.over => c.r = "main" OBVIOUS
      <4> QED BY <4>1, <4>2 DEF InterceptTypes
    <3> QED BY <3>1, <3>2
  <2>4. req'["main"] # "out" => \A s \in Requests \ {"main"} : req'[s] = "none"
    <3>1. CASE req' = req BY <3>1
    <3>2. CASE req' # req
      <4>1. req[c.r] = "paused" /\ req' = [req EXCEPT ![c.r] = "out"] BY <1>8, <3>2, LetGo
      <4>2. c.r \in Requests BY DEF InterceptTypes, Continued
      <4> QED BY <4>1, <4>2 DEF InterceptTypes, Requests
    <3> QED BY <3>1, <3>2
  <2> QED BY <2>1, <2>2, <2>3, <2>4
<1>9. CASE DisablesFetch
  BY <1>9 DEF DisablesFetch, Released, Sent, InterceptTypes, Requests
<1>10. CASE NavigationDone
  BY <1>10 DEF NavigationDone, joined, Aborted
<1>11. CASE NavigationTimesOut
  BY <1>11 DEF NavigationTimesOut, Aborted
<1>12. CASE FetchDetaches
  BY <1>12 DEF FetchDetaches, ReleasesAll, Released, Sent, InterceptTypes, Requests
<1>13. CASE UNCHANGED interceptVars BY <1>13 DEF interceptVars
<1> QED
  BY <1>1, <1>2, <1>3, <1>4, <1>5, <1>6, <1>7, <1>8, <1>9, <1>10, <1>11, <1>12, <1>13
     DEF InterceptNext

\* Credentials are put on what goes to the target's origin.
LEMMA CredentialsStep ==
  ASSUME InterceptTypes, CredentialsAtHome, [InterceptNext]_interceptVars
  PROVE  CredentialsAtHome'
<1> USE DEF CredentialsAtHome, InterceptTypes, sameOrigin
<1>1. ASSUME NEW r \in Requests, TabRequests(r) PROVE CredentialsAtHome'
  BY <1>1 DEF TabRequests, MayRequest, pauses, queued, Sent, Unsent
<1>2. ASSUME NEW r \in Requests, PageGivesUp(r) PROVE CredentialsAtHome'
  BY <1>2 DEF PageGivesUp
<1>3. CASE PageNavigates
  BY <1>3 DEF PageNavigates
<1>4. CASE Navigates
  BY <1>4 DEF Navigates
<1>5. CASE EnablesFetch
  BY <1>5 DEF EnablesFetch
<1>6. CASE EnableFails
  BY <1>6 DEF EnableFails
<1>7. CASE ReceivesPaused
  <2>1. PICK c \in Continued : c.creds = sameOrigin(c.r) /\ going' = going \cup {c}
    BY <1>7, Taken
  <2> QED BY <1>7, <2>1, Taken
<1>8. ASSUME NEW c \in going, BrowserContinues(c) PROVE CredentialsAtHome'
  <2>1. ask' = ask /\ going' = going \ {c} /\ c.creds = sameOrigin(c.r) BY <1>8, LetGo
  <2>2. sent' = sent \/ sent' = [sent EXCEPT ![c.r] = [over |-> c.over, creds |-> c.creds,
                                         form |-> c.over /\ ask.form, how |-> "continued"]]
    BY <1>8, LetGo
  <2>3. \A r \in Requests : sent'[r].creds => sent[r].creds \/ (r = c.r /\ c.creds) BY <2>2
  <2>4. \A r \in Requests : sent'[r].creds => ask.scoped /\ AtTarget(r) BY <2>1, <2>3
  <2> HIDE DEF InterceptTypes
  <2> QED BY <2>1, <2>4
<1>9. CASE DisablesFetch
  BY <1>9 DEF DisablesFetch, Released, Sent, Sendings
<1>10. CASE NavigationDone
  BY <1>10 DEF NavigationDone, joined, Aborted
<1>11. CASE NavigationTimesOut
  BY <1>11 DEF NavigationTimesOut, Aborted
<1>12. CASE FetchDetaches
  BY <1>12 DEF FetchDetaches, ReleasesAll, Released, Sent, Sendings
<1>13. CASE UNCHANGED interceptVars BY <1>13 DEF interceptVars
<1> QED
  BY <1>1, <1>2, <1>3, <1>4, <1>5, <1>6, <1>7, <1>8, <1>9, <1>10, <1>11, <1>12, <1>13
     DEF InterceptNext

\* What the page asks of its own origin carries them.
LEMMA OwnStep ==
  ASSUME InterceptTypes, PausedAsAsked, CredentialsAtHome, MainComesFirst, ToldIsSent,
         OwnRequestsCarryThem, [InterceptNext]_interceptVars
  PROVE  OwnRequestsCarryThem'
<1> USE DEF OwnRequestsCarryThem
<1>1. ASSUME NEW r \in Requests, TabRequests(r) PROVE OwnRequestsCarryThem'
  <2> SUFFICES ASSUME NEW s \in Requests, ask.scoped, AtTarget(s), req'[s] = "out", s = r,
                      ~pauses(r)
               PROVE  ask.used \/ nav = "detached"
    <3>1. UNCHANGED <<ask, nav>> BY <1>1, Requested
    <3>2. CASE pauses(r) BY <1>1, <3>1, <3>2, Requested DEF InterceptTypes
    <3>3. CASE ~pauses(r)
      <4>1. req' = [req EXCEPT ![r] = "out"] /\ sent' = [sent EXCEPT ![r] = [over |-> FALSE,
                                          creds |-> FALSE, form |-> FALSE, how |-> "free"]]
        BY <1>1, <3>3, Requested
      <4> QED BY <3>1, <3>3, <4>1 DEF InterceptTypes
    <3> QED BY <3>2, <3>3
  <2>1. "own" \notin patterns BY DEF pauses
  <2>2. CASE r = "main" BY <1>1, <2>1, <2>2, Requested DEF MayRequest, PausedAsAsked
  <2>3. CASE r = "sub" BY <1>1, <2>1, <2>3, Requested DEF MayRequest, PausedAsAsked
  <2> QED BY <2>2, <2>3 DEF AtTarget
<1>2. ASSUME NEW r \in Requests, PageGivesUp(r) PROVE OwnRequestsCarryThem'
  BY <1>2 DEF PageGivesUp
<1>3. CASE PageNavigates
  BY <1>3 DEF PageNavigates
<1>4. CASE Navigates
  BY <1>4 DEF Navigates
<1>5. CASE EnablesFetch
  BY <1>5 DEF EnablesFetch
<1>6. CASE EnableFails
  BY <1>6 DEF EnableFails
<1>7. CASE ReceivesPaused
  BY <1>7 DEF ReceivesPaused, continue_params, overridden, left, sameOrigin
<1>8. ASSUME NEW c \in going, BrowserContinues(c) PROVE OwnRequestsCarryThem'
  <2>1. UNCHANGED <<ask, nav>> BY <1>8, LetGo
  <2>2. CASE req' = req /\ sent' = sent BY <2>1, <2>2
  <2>3. CASE ~(req' = req /\ sent' = sent)
    <3>1. /\ req' = [req EXCEPT ![c.r] = "out"]
          /\ sent' = [sent EXCEPT ![c.r] = [over |-> c.over, creds |-> c.creds,
                                         form |-> c.over /\ ask.form, how |-> "continued"]]
      BY <1>8, <2>3, LetGo
    <3>2. c.creds = sameOrigin(c.r) BY DEF CredentialsAtHome
    <3> QED BY <2>1, <3>1, <3>2 DEF InterceptTypes, sameOrigin
  <2> QED BY <2>2, <2>3
<1>9. CASE DisablesFetch
  <2>1. ~ask.scoped /\ ask' = ask BY <1>9 DEF DisablesFetch, PausedAsAsked
  <2> QED BY <2>1
<1>10. CASE NavigationDone
  BY <1>10 DEF NavigationDone, joined, Aborted
<1>11. CASE NavigationTimesOut
  BY <1>11 DEF NavigationTimesOut, Aborted
<1>12. CASE FetchDetaches
  BY <1>12 DEF FetchDetaches, ReleasesAll, Released, Sent, InterceptTypes
<1>13. CASE UNCHANGED interceptVars BY <1>13 DEF interceptVars
<1> QED
  BY <1>1, <1>2, <1>3, <1>4, <1>5, <1>6, <1>7, <1>8, <1>9, <1>10, <1>11, <1>12, <1>13
     DEF InterceptNext

-------------------------------------------------------------------------------
(* The intercept: the theorems.                                            *)

\* Where the override is, what was let go and with what (navigate_with_method).
THEOREM InterceptInvariant == InterceptSpec => []InterceptInv
<1>1. InterceptInit => InterceptInv
  <2> SUFFICES ASSUME InterceptInit PROVE InterceptInv OBVIOUS
  <2>1. InterceptTypes
    <3>1. sent \in [Requests -> Sendings] BY DEF InterceptInit, Unsent, Sendings
    <3>2. events \in Seq(Requests) BY DEF InterceptInit
    <3>3. req \in [Requests -> {"none", "paused", "out", "gone"}] BY DEF InterceptInit
    <3> QED BY <3>1, <3>2, <3>3 DEF InterceptInit, InterceptTypes, Navs
  <2>2. PausedAsAsked
    BY DEF InterceptInit, PausedAsAsked, Unsent, Requests
  <2>6. ToldIsSent BY DEF InterceptInit, ToldIsSent, Unsent
  <2>3. OverrideOnce /\ CredentialsAtHome
    BY DEF InterceptInit, OverrideOnce, CredentialsAtHome, Unsent
  <2>4. MainComesFirst BY DEF InterceptInit, MainComesFirst, Unsent
  <2>5. OwnRequestsCarryThem BY DEF InterceptInit, OwnRequestsCarryThem
  <2> QED BY <2>1, <2>2, <2>3, <2>4, <2>5, <2>6 DEF InterceptInv
<1>2. InterceptInv /\ [InterceptNext]_interceptVars => InterceptInv'
  BY InterceptTypesStep, PausedStep, OverrideStep, ToldStep, MainStep, CredentialsStep, OwnStep
     DEF InterceptInv
<1> QED BY <1>1, <1>2, PTL DEF InterceptSpec

\* The method and body go out once, with the navigation's document in a tab of
\* its own, and have gone out when it is reported done; the credentials go to the
\* origin that was asked for, on all that is asked of it until the detach, and
\* nowhere else (navigate_with_method, continue_params).
THEOREM OverridesAreKept == InterceptSpec => []NavigationKeepsItsOverride
<1>1. InterceptInv => HeadersStayAtTheirOrigin
  BY DEF InterceptInv, CredentialsAtHome, HeadersStayAtTheirOrigin, sameOrigin
<1>2. InterceptInv => ReissuedOnceWhenReported
  <2> SUFFICES ASSUME InterceptInv PROVE ReissuedOnceWhenReported OBVIOUS
  <2> DEFINE reissued == {r \in Requests : sent[r].over}
  <2>1. Cardinality(reissued) <= 1
    <3>1. CASE reissued = {} BY <3>1, FS_EmptySet
    <3>2. CASE reissued # {}
      <4>1. PICK r \in reissued : TRUE BY <3>2
      <4>2. reissued = {r} BY <4>1 DEF InterceptInv, OverrideOnce
      <4>3. Cardinality(reissued) = 1 BY <4>2, FS_Singleton
      <4> HIDE DEF reissued
      <4> QED BY <4>3
    <3> QED BY <3>1, <3>2
  <2>2. nav = "navigated" /\ ask.override => reissued # {} BY DEF InterceptInv, ToldIsSent
  <2>3. ~ask.used => reissued \subseteq {"main"} BY DEF InterceptInv, MainComesFirst
  <2> HIDE DEF reissued
  <2> QED BY <2>1, <2>2, <2>3 DEF ReissuedOnceWhenReported, reissued
<1>3. InterceptInv => NavigationKeepsItsOverride
  BY <1>1, <1>2 DEF InterceptInv, NavigationKeepsItsOverride
<1> QED BY <1>3, InterceptInvariant, PTL

-------------------------------------------------------------------------------
(* The plain waits: the invariant.                                         *)

WaitTypes ==
  /\ wait \in Modes
  /\ wstage \in {"starts", "subscribed", "enabling", "looked", "waits", "over"}
  /\ clock \in Nat /\ spare \in Nat /\ until \in Nat /\ pollAt \in Nat /\ since \in Nat
  /\ holds \in BOOLEAN /\ replays \in BOOLEAN /\ listening \in BOOLEAN /\ lost \in BOOLEAN
  /\ unread \in Seq({"it", "other"})
  /\ ended \in {"none", "satisfied", "expired", "failed"}

\* Which stages a mode goes through, and how far the clock is in them.
ClockInStage ==
  /\ since <= clock
  /\ wstage = "starts" => clock = 0
  /\ wstage \in {"subscribed", "enabling"} => wait = "idle"
  /\ wstage = "looked" => /\ wait # "idle" /\ pollAt <= clock /\ pollAt <= until
                          /\ wait # "load" => clock = 0
  /\ wstage = "waits" /\ polled => clock <= pollAt /\ pollAt <= clock + Every

\* Once the events are on, an idle page is among the unread.
IdleIsUnread ==
  wait = "idle" =>
    /\ wstage \in {"subscribed", "enabling", "waits"} => listening
    /\ wstage \in {"enabling", "waits"} /\ ~lost =>
         replays /\ (holds => \E i \in 1 .. Len(unread) : unread[i] = "it")
    /\ wstage = "waits" /\ ~lost /\ holds =>
         clock < until \/ since + Every >= until \/ pollAt = until

\* What came to hold is looked at within one interval.
PollIsDue ==
  wstage = "waits" /\ polled /\ ~lost /\ holds =>
    \/ pollAt <= since + Every
    \/ pollAt = clock /\ clock < until
    \/ wait = "load" /\ pollAt = until

WaitsInv ==
  /\ WaitTypes /\ ClockInStage /\ IdleIsUnread /\ PollIsDue /\ NothingWasMissed
  /\ ended # "none" => wstage = "over"

-------------------------------------------------------------------------------
(* The plain waits: budget and channel.                                    *)

\* The budget of a wait is a number of units (explicit_wait_budget).
LEMMA BudgetIsNat ==
  ASSUME NEW remaining \in Nat, NEW asked \in Nat
  PROVE  explicit_wait_budget(remaining, asked) \in Nat
BY WaitsAssumption DEF explicit_wait_budget, smaller

\* An event reaches whoever listens, or the loss is noted (broadcast).
LEMMA Emitted ==
  ASSUME WaitTypes, NEW what \in {"it", "other"}, Emits(what)
  PROVE  /\ unread' \in Seq({"it", "other"}) /\ lost' \in BOOLEAN /\ (lost => lost')
         /\ listening /\ ~lost' => unread' = Append(unread, what)
<1> DEFINE q == Append(unread, what)
<1>1. unread \in Seq({"it", "other"}) /\ q \in Seq({"it", "other"}) /\ Len(q) \in Nat
  BY DEF WaitTypes
<1>2. Heard(q) \in Seq({"it", "other"})
  <2> HIDE DEF q
  <2>1. CASE Len(q) > Kept
    <3>1. Len(q) - Kept + 1 \in 1 .. Len(q) BY <1>1, <2>1, WaitsAssumption
    <3>2. SubSeq(q, Len(q) - Kept + 1, Len(q)) \in Seq({"it", "other"}) BY <1>1, <3>1
    <3> QED BY <2>1, <3>2 DEF Heard
  <2>2. CASE ~(Len(q) > Kept) BY <1>1, <2>2 DEF Heard
  <2> QED BY <2>1, <2>2
<1>3. unread' = (IF listening THEN Heard(q) ELSE unread)
      /\ lost' = (lost \/ (listening /\ Len(q) > Kept))
  BY DEF Emits
<1>4. lost \in BOOLEAN /\ listening \in BOOLEAN BY DEF WaitTypes
<1>5. lost' \in BOOLEAN /\ (lost => lost') BY <1>3, <1>4
<1>6. listening /\ ~lost' => unread' = q BY <1>3 DEF Heard
<1>7. unread' \in Seq({"it", "other"}) BY <1>1, <1>2, <1>3
<1> QED BY <1>5, <1>6, <1>7

\* What was unread stays unread when more is heard.
LEMMA StillUnread ==
  ASSUME WaitTypes, NEW what \in {"it", "other"}, unread' = Append(unread, what),
         what = "it" \/ \E i \in 1 .. Len(unread) : unread[i] = "it"
  PROVE  \E i \in 1 .. Len(unread') : unread'[i] = "it"
<1>1. unread \in Seq({"it", "other"}) BY DEF WaitTypes
<1>2. /\ Len(unread) \in Nat /\ Len(unread') = Len(unread) + 1
      /\ unread'[Len(unread) + 1] = what
      /\ \A i \in 1 .. Len(unread) : unread'[i] = unread[i]
  BY <1>1
<1>3. CASE what = "it" BY <1>2, <1>3
<1>4. CASE what # "it"
  <2>1. PICK i \in 1 .. Len(unread) : unread[i] = "it" BY <1>4
  <2>2. i \in 1 .. Len(unread') /\ unread'[i] = "it" BY <1>2, <2>1
  <2> QED BY <2>2
<1> QED BY <1>3, <1>4

\* Of an idle page the wait hears, unless it has not asked for reports.
LEMMA PageTells ==
  ASSUME PageChanges
  PROVE  /\ wstage # "over"
         /\ UNCHANGED <<wait, wstage, clock, spare, until, pollAt, replays, listening, ended>>
         /\ \/ ~holds /\ holds' = TRUE /\ since' = clock
            \/ wait = "selector" /\ holds' = FALSE /\ since' = since
         /\ wait = "idle" /\ replays => Emits("it")
         /\ Emits("it") \/ UNCHANGED <<unread, lost>>
BY DEF PageChanges

LEMMA OthersTell ==
  ASSUME OtherEvents
  PROVE  /\ wstage # "over"
         /\ UNCHANGED <<wait, wstage, clock, spare, until, pollAt, holds, since, replays, listening, ended>>
         /\ \E what \in {"it", "other"} : Emits(what)
BY DEF OtherEvents

-------------------------------------------------------------------------------
(* The plain waits: their invariant is inductive.                          *)

\* Type correctness of a plain wait (wait.rs).
LEMMA WaitTypesStep ==
  ASSUME WaitTypes, ClockInStage, [WaitsNext]_waitVars
  PROVE  WaitTypes'
<1>1. CASE BeginsIdle
  BY <1>1 DEF BeginsIdle, ahead, WaitTypes
<1>2. CASE Enables
  <2>1. unread' \in Seq({"it", "other"}) /\ lost' \in BOOLEAN
    BY <1>2, Emitted DEF Enables, WaitTypes
  <2> QED BY <1>2, <2>1 DEF Enables, WaitTypes
<1>3. CASE Enabled
  <2>1. CASE spare > clock
    <3>0. spare - clock \in Nat /\ Asked \in Nat BY <2>1, WaitsAssumption DEF WaitTypes
    <3>1. explicit_wait_budget(spare - clock, Asked) \in Nat BY <3>0, BudgetIsNat
    <3> QED BY <1>3, <2>1, <3>1 DEF Enabled, WaitTypes
  <2>2. CASE ~(spare > clock) BY <1>3, <2>2 DEF Enabled, Over, WaitTypes
  <2> QED BY <2>1, <2>2
<1>4. CASE Begins
  <2>1. explicit_wait_budget(spare, Asked) \in Nat BY BudgetIsNat, WaitsAssumption DEF WaitTypes
  <2>2. wstage' \in {"looked", "over"} /\ ended' \in {ended, "satisfied"}
    BY <1>4 DEF Begins, Over
  <2> QED BY <1>4, <2>1, <2>2 DEF Begins, WaitTypes
<1>5. CASE Looked
  <2>1. pollAt <= clock BY <1>5 DEF Looked, ClockInStage
  <2>2. clock - pollAt \in Nat BY <2>1 DEF WaitTypes
  <2> QED BY <1>5, <2>2 DEF Looked, WaitTypes, heardOf
<1>6. CASE Receives
  <2>1. unread' \in Seq({"it", "other"}) BY <1>6 DEF Receives, WaitTypes
  <2>2. wstage' \in {"waits", "over"} /\ ended' \in {ended, "satisfied"}
    BY <1>6 DEF Receives, Over
  <2> QED BY <1>6, <2>1, <2>2 DEF Receives, WaitTypes
<1>7. CASE Polls
  <2>1. pollAt' \in Nat BY <1>7, WaitsAssumption DEF Polls, WaitTypes
  <2>2. /\ wstage' \in {"waits", "over"} /\ lost' \in {lost, TRUE}
        /\ ended' \in {ended, "satisfied", "failed"}
    BY <1>7 DEF Polls, Over
  <2> QED BY <1>7, <2>1, <2>2 DEF Polls, WaitTypes
<1>8. CASE RunsOut
  <2>1. wstage' = "over" /\ ended' \in {"satisfied", "expired"} BY <1>8 DEF RunsOut, Over
  <2> QED BY <1>8, <2>1 DEF RunsOut, WaitTypes
<1>9. CASE PageChanges
  <2>1. unread' \in Seq({"it", "other"}) /\ lost' \in BOOLEAN
    BY <1>9, PageTells, Emitted DEF WaitTypes
  <2> QED BY <1>9, <2>1, PageTells DEF WaitTypes
<1>10. CASE OtherEvents
  <2>1. unread' \in Seq({"it", "other"}) /\ lost' \in BOOLEAN
    BY <1>10, OthersTell, Emitted DEF WaitTypes
  <2> QED BY <1>10, <2>1, OthersTell DEF WaitTypes
<1>11. CASE WaitsTick
  BY <1>11 DEF WaitsTick, WaitTypes
<1>12. CASE UNCHANGED waitVars BY <1>12 DEF waitVars, WaitTypes
<1> QED
  BY <1>1, <1>2, <1>3, <1>4, <1>5, <1>6, <1>7, <1>8, <1>9, <1>10, <1>11, <1>12 DEF WaitsNext

\* The clock keeps to the stage; a poll is never left behind.
LEMMA ClockStep ==
  ASSUME WaitTypes, ClockInStage, [WaitsNext]_waitVars
  PROVE  ClockInStage'
<1> USE DEF ClockInStage, WaitTypes, polled
<1>1. CASE BeginsIdle
  BY <1>1 DEF BeginsIdle, ahead
<1>2. CASE Enables
  BY <1>2 DEF Enables
<1>3. CASE Enabled
  <2>1. wait = "idle" /\ wstage' \in {"waits", "over"} /\ UNCHANGED <<wait, clock, since>>
    BY <1>3 DEF Enabled, Over
  <2> QED BY <2>1
<1>4. CASE Begins
  <2>1. /\ wait # "idle" /\ wstage' \in {"looked", "over"} /\ clock = 0 /\ pollAt' = clock
        /\ UNCHANGED <<wait, clock, since>>
        /\ until' = clock + explicit_wait_budget(spare, Asked)
    BY <1>4 DEF Begins, Over
  <2>2. explicit_wait_budget(spare, Asked) \in Nat BY BudgetIsNat, WaitsAssumption
  <2> QED BY <2>1, <2>2
<1>5. CASE Looked
  BY <1>5, WaitsAssumption DEF Looked
<1>6. CASE Receives
  <2>1. /\ wstage' \in {"waits", "over"}
        /\ wstage = "waits"
        /\ UNCHANGED <<wait, clock, pollAt, since>>
    BY <1>6 DEF Receives, Over
  <2> QED BY <2>1
<1>7. CASE Polls
  <2>1. /\ wstage' \in {"waits", "over"}
        /\ pollAt' = clock + Every
        /\ UNCHANGED <<wait, clock, since>>
    BY <1>7 DEF Polls, Over
  <2> QED BY <2>1, WaitsAssumption
<1>8. CASE RunsOut
  BY <1>8 DEF RunsOut, Over
<1>9. CASE PageChanges
  <2>1. /\ UNCHANGED <<wait, wstage, clock, until, pollAt>> /\ since' \in {since, clock}
    BY <1>9, PageTells
  <2> QED BY <2>1
<1>10. CASE OtherEvents
  BY <1>10, OthersTell
<1>11. CASE WaitsTick
  <2>1. clock' = clock + 1 /\ UNCHANGED <<wait, wstage, until, pollAt, since>>
    BY <1>11 DEF WaitsTick
  <2>2. /\ wstage # "starts" /\ (wstage = "looked" => wait = "load")
        /\ wstage = "waits" => ~(polled /\ clock = pollAt)
    BY <1>11 DEF WaitsTick
  <2>3. wstage = "waits" /\ polled => clock + 1 <= pollAt /\ pollAt <= clock + 1 + Every
    BY <2>2, WaitsAssumption
  <2>4. wait \in Modes /\ clock \in Nat /\ since <= clock + 1 OBVIOUS
  <2>5. wstage' = "waits" /\ polled' => clock' <= pollAt' /\ pollAt' <= clock' + Every
    BY <2>1, <2>3
  <2>6. since' <= clock' BY <2>1, <2>4
  <2>7. wstage = "looked" => pollAt <= clock + 1 BY <2>4
  <2> QED BY <2>1, <2>2, <2>5, <2>6, <2>7
<1>12. CASE UNCHANGED waitVars BY <1>12 DEF waitVars
<1> QED
  BY <1>1, <1>2, <1>3, <1>4, <1>5, <1>6, <1>7, <1>8, <1>9, <1>10, <1>11, <1>12 DEF WaitsNext

\* An idle page is heard of or was lost (wait_for_network_idle).
LEMMA IdleStep ==
  ASSUME WaitTypes, ClockInStage, IdleIsUnread, [WaitsNext]_waitVars
  PROVE  IdleIsUnread'
<1> USE DEF IdleIsUnread
<1>1. CASE BeginsIdle
  BY <1>1 DEF BeginsIdle, ahead
<1>2. CASE Enables
  <2> SUFFICES ASSUME wait = "idle", ~lost' PROVE IdleIsUnread' BY <1>2 DEF Enables
  <2>1. listening /\ wstage' = "enabling" /\ UNCHANGED <<wait, holds, listening>>
    BY <1>2 DEF Enables
  <2>2. replays' BY <1>2 DEF Enables
  <2>3. holds => unread' = Append(unread, "it") BY <1>2, <2>1, Emitted DEF Enables
  <2>4. holds => \E i \in 1 .. Len(unread') : unread'[i] = "it" BY <2>3, StillUnread
  <2> QED BY <2>1, <2>2, <2>4
<1>3. CASE Enabled
  <2> SUFFICES ASSUME wait = "idle", spare > clock PROVE IdleIsUnread'
    BY <1>3 DEF Enabled, Over
  <2>1. /\ wstage' = "waits" /\ listening' = TRUE /\ pollAt' = clock
        /\ until' = clock + explicit_wait_budget(spare - clock, Asked)
        /\ UNCHANGED <<wait, clock, holds, since, replays, unread, lost>>
    BY <1>3 DEF Enabled
  <2>2. explicit_wait_budget(spare - clock, Asked) \in Nat
    <3>1. spare - clock \in Nat /\ Asked \in Nat BY WaitsAssumption DEF WaitTypes
    <3> QED BY <3>1, BudgetIsNat
  <2>3. clock < until' \/ pollAt' = until' BY <2>1, <2>2 DEF WaitTypes
  <2> QED BY <1>3, <2>1, <2>3 DEF Enabled
<1>4. CASE Begins
  BY <1>4 DEF Begins
<1>5. CASE Looked
  BY <1>5 DEF Looked, ClockInStage
<1>6. CASE Receives
  <2>1. CASE Head(unread) = "it" BY <1>6, <2>1 DEF Receives, Over
  <2>2. CASE Head(unread) # "it"
    <3>1. unread \in Seq({"it", "other"}) /\ unread # <<>> BY <1>6 DEF Receives, WaitTypes
    <3>2. /\ Len(unread) \in Nat /\ Len(unread') = Len(unread) - 1 /\ unread[1] = Head(unread)
          /\ \A i \in 1 .. Len(unread') : unread'[i] = unread[i + 1]
      BY <1>6, <3>1 DEF Receives
    <3>3. ASSUME NEW i \in 1 .. Len(unread), unread[i] = "it"
          PROVE  \E j \in 1 .. Len(unread') : unread'[j] = "it"
      <4>1. i # 1 BY <2>2, <3>2, <3>3
      <4>2. i - 1 \in 1 .. Len(unread') /\ unread'[i - 1] = unread[i] BY <3>2, <4>1
      <4> QED BY <3>3, <4>2
    <3>4. UNCHANGED <<wait, wstage, clock, until, pollAt, holds, since, replays, listening, lost>>
      BY <1>6, <2>2 DEF Receives
    <3> QED BY <3>3, <3>4
  <2> QED BY <2>1, <2>2
<1>7. CASE Polls
  BY <1>7 DEF Polls, polled
<1>8. CASE RunsOut
  BY <1>8 DEF RunsOut, Over
<1>9. CASE PageChanges
  <2> SUFFICES ASSUME wait = "idle" PROVE IdleIsUnread' BY <1>9, PageTells
  <2>1. /\ UNCHANGED <<wait, wstage, clock, spare, until, pollAt, replays, listening, ended>>
        /\ holds' = TRUE /\ since' = clock /\ (replays => Emits("it"))
        /\ Emits("it") \/ UNCHANGED <<unread, lost>>
    BY <1>9, PageTells
  <2>2. lost => lost' BY <2>1, Emitted
  <2>3. listening /\ replays /\ ~lost' => \E i \in 1 .. Len(unread') : unread'[i] = "it"
    <3> SUFFICES ASSUME listening, replays, ~lost'
                 PROVE  \E i \in 1 .. Len(unread') : unread'[i] = "it"
      OBVIOUS
    <3>1. unread' = Append(unread, "it") BY <2>1, Emitted
    <3> QED BY <3>1, StillUnread
  <2>4. clock < until \/ clock + Every >= until BY WaitsAssumption DEF WaitTypes
  <2> QED BY <2>1, <2>2, <2>3, <2>4
<1>10. CASE OtherEvents
  <2> SUFFICES ASSUME wait = "idle" PROVE IdleIsUnread' BY <1>10, OthersTell
  <2>1. UNCHANGED <<wait, wstage, clock, spare, until, pollAt, holds, since, replays, listening, ended>>
    BY <1>10, OthersTell
  <2>2. PICK what \in {"it", "other"} : Emits(what) BY <1>10, OthersTell
  <2>3. lost => lost' BY <2>2, Emitted
  <2>4. ASSUME listening, ~lost', \E i \in 1 .. Len(unread) : unread[i] = "it"
        PROVE  \E i \in 1 .. Len(unread') : unread'[i] = "it"
    <3>1. unread' = Append(unread, what) BY <2>2, <2>4, Emitted
    <3> QED BY <2>4, <3>1, StillUnread
  <2> QED BY <2>1, <2>3, <2>4
<1>11. CASE WaitsTick
  <2> SUFFICES ASSUME wait = "idle" PROVE IdleIsUnread' BY <1>11 DEF WaitsTick
  <2>1. UNCHANGED <<wait, wstage, until, pollAt, holds, since, replays, listening, unread, lost>>
    BY <1>11 DEF WaitsTick
  <2>2. wstage = "waits" => unread = <<>> BY <1>11 DEF WaitsTick, heardOf
  <2>3. wstage = "waits" /\ ~lost => ~holds BY <2>2
  <2> QED BY <2>1, <2>3
<1>12. CASE UNCHANGED waitVars BY <1>12 DEF waitVars
<1> QED
  BY <1>1, <1>2, <1>3, <1>4, <1>5, <1>6, <1>7, <1>8, <1>9, <1>10, <1>11, <1>12 DEF WaitsNext

\* What came to hold is polled in time (wait_for_load).
LEMMA PollStep ==
  ASSUME WaitTypes, ClockInStage, PollIsDue, [WaitsNext]_waitVars
  PROVE  PollIsDue'
<1> USE DEF PollIsDue, polled
<1>1. CASE BeginsIdle
  BY <1>1 DEF BeginsIdle, ahead
<1>2. CASE Enables
  BY <1>2 DEF Enables
<1>3. CASE Enabled
  BY <1>3 DEF Enabled, ClockInStage
<1>4. CASE Begins
  <2>1. wstage' \in {"looked", "over"} BY <1>4 DEF Begins, Over
  <2> QED BY <2>1
<1>5. CASE Looked
  <2>1. /\ wait # "idle" /\ pollAt <= clock /\ pollAt <= until /\ (wait # "load" => clock = 0)
        /\ since <= clock
    BY <1>5 DEF Looked, ClockInStage
  <2>2. /\ until' = until + (clock - pollAt)
        /\ pollAt' = clock
        /\ UNCHANGED <<wait, clock, holds, since, lost>>
    BY <1>5 DEF Looked
  <2>3. pollAt' <= until' BY <2>1, <2>2 DEF WaitTypes
  <2>4. CASE wait = "load" BY <2>2, <2>3, <2>4 DEF WaitTypes
  <2>5. CASE wait # "load" BY <2>1, <2>2, <2>5, WaitsAssumption DEF WaitTypes
  <2> QED BY <2>4, <2>5
<1>6. CASE Receives
  <2>1. wstage = "waits" /\ UNCHANGED <<wait, clock, until, pollAt, holds, since, lost>>
    BY <1>6 DEF Receives
  <2> QED BY <2>1
<1>7. CASE Polls
  <2>1. ~(wstage' = "waits" /\ ~lost' /\ holds') BY <1>7 DEF Polls, Over
  <2> QED BY <2>1
<1>8. CASE RunsOut
  BY <1>8 DEF RunsOut, Over
<1>9. CASE PageChanges
  <2>1. /\ UNCHANGED <<wait, wstage, clock, spare, until, pollAt, replays, listening, ended>>
        /\ \/ ~holds /\ holds' = TRUE /\ since' = clock
           \/ wait = "selector" /\ holds' = FALSE /\ since' = since
    BY <1>9, PageTells
  <2> QED BY <2>1 DEF ClockInStage, polled
<1>10. CASE OtherEvents
  <2>1. /\ UNCHANGED <<wait, wstage, clock, spare, until, pollAt, holds, since>>
        /\ lost => lost'
    BY <1>10, OthersTell, Emitted
  <2> QED BY <2>1
<1>11. CASE WaitsTick
  <2>1. UNCHANGED <<wait, wstage, until, pollAt, holds, since, lost>> BY <1>11 DEF WaitsTick
  <2>2. wstage = "waits" /\ polled => clock # pollAt BY <1>11 DEF WaitsTick, polled
  <2> QED BY <2>1, <2>2
<1>12. CASE UNCHANGED waitVars BY <1>12 DEF waitVars
<1> QED
  BY <1>1, <1>2, <1>3, <1>4, <1>5, <1>6, <1>7, <1>8, <1>9, <1>10, <1>11, <1>12 DEF WaitsNext

\* A wait that runs out of time had nothing to see.
LEMMA MissedStep ==
  ASSUME WaitTypes, ClockInStage, IdleIsUnread, PollIsDue, NothingWasMissed,
         ended # "none" => wstage = "over", [WaitsNext]_waitVars
  PROVE  NothingWasMissed' /\ (ended' # "none" => wstage' = "over")
<1>1. CASE BeginsIdle
  <2>1. /\ wstage # "over"
        /\ ended' \in {ended, "satisfied", "failed"}
        /\ (ended' # ended => wstage' = "over")
    BY <1>1 DEF BeginsIdle, ahead
  <2> QED BY <2>1 DEF NothingWasMissed
<1>2. CASE Enables
  <2>1. /\ wstage # "over"
        /\ ended' \in {ended, "satisfied", "failed"}
        /\ (ended' # ended => wstage' = "over")
    BY <1>2 DEF Enables
  <2> QED BY <2>1 DEF NothingWasMissed
<1>3. CASE Enabled
  <2>1. /\ wstage # "over"
        /\ ended' \in {ended, "satisfied", "failed"}
        /\ (ended' # ended => wstage' = "over")
    BY <1>3 DEF Enabled, Over
  <2> QED BY <2>1 DEF NothingWasMissed
<1>4. CASE Begins
  <2>1. /\ wstage # "over"
        /\ ended' \in {ended, "satisfied", "failed"}
        /\ (ended' # ended => wstage' = "over")
    BY <1>4 DEF Begins, Over, looksFirst
  <2> QED BY <2>1 DEF NothingWasMissed
<1>5. CASE Looked
  <2>1. /\ wstage # "over"
        /\ ended' \in {ended, "satisfied", "failed"}
        /\ (ended' # ended => wstage' = "over")
    BY <1>5 DEF Looked
  <2> QED BY <2>1 DEF NothingWasMissed
<1>6. CASE Receives
  <2>1. /\ wstage # "over"
        /\ ended' \in {ended, "satisfied", "failed"}
        /\ (ended' # ended => wstage' = "over")
    BY <1>6 DEF Receives, Over
  <2> QED BY <2>1 DEF NothingWasMissed
<1>7. CASE Polls
  <2>1. /\ wstage # "over"
        /\ ended' \in {ended, "satisfied", "failed"}
        /\ (ended' # ended => wstage' = "over")
    BY <1>7 DEF Polls, Over
  <2> QED BY <2>1 DEF NothingWasMissed
<1>8. CASE RunsOut
  <2>1. /\ wstage = "waits" /\ clock >= until /\ wstage' = "over"
        /\ UNCHANGED <<wait, clock, until, pollAt, holds, since, lost>>
        /\ ended' = "expired" => ~sleepsOnly
    BY <1>8 DEF RunsOut, Over
  <2> SUFFICES ASSUME ~lost, holds, ~sleepsOnly
               PROVE  since + Every >= until \/ (heardOf /\ pollAt = until)
    BY <2>1 DEF NothingWasMissed, heardOf
  <2>2. CASE wait = "idle" BY <2>1, <2>2 DEF IdleIsUnread, heardOf, WaitTypes
  <2>3. CASE wait \in {"load", "selector"}
    <3>1. polled BY <2>3 DEF polled
    <3>2. clock <= pollAt BY <2>1, <3>1 DEF ClockInStage
    <3>3. pollAt <= since + Every \/ (wait = "load" /\ pollAt = until)
      BY <2>1, <3>1 DEF PollIsDue, WaitTypes
    <3> QED BY <2>1, <3>2, <3>3, WaitsAssumption DEF heardOf, WaitTypes
  <2> QED BY <2>2, <2>3, ModesAssumption DEF WaitTypes, sleepsOnly
<1>9. CASE PageChanges
  BY <1>9, PageTells DEF NothingWasMissed
<1>10. CASE OtherEvents
  BY <1>10, OthersTell DEF NothingWasMissed
<1>11. CASE WaitsTick
  <2>1. /\ wstage # "over"
        /\ ended' \in {ended, "satisfied", "failed"}
        /\ (ended' # ended => wstage' = "over")
    BY <1>11 DEF WaitsTick
  <2> QED BY <2>1 DEF NothingWasMissed
<1>12. CASE UNCHANGED waitVars BY <1>12 DEF waitVars, NothingWasMissed, heardOf
<1> QED
  BY <1>1, <1>2, <1>3, <1>4, <1>5, <1>6, <1>7, <1>8, <1>9, <1>10, <1>11, <1>12 DEF WaitsNext

-------------------------------------------------------------------------------
(* The plain waits: the theorems.                                          *)

\* Where a wait is, what it has heard and when it looks (wait.rs).
THEOREM WaitsInvariant == WaitsSpec => []WaitsInv
<1>1. WaitsInit => WaitsInv
  <2> SUFFICES ASSUME WaitsInit PROVE WaitsInv OBVIOUS
  <2>1. WaitTypes
    <3>1. spare \in Nat BY WaitsAssumption DEF WaitsInit
    <3>2. unread \in Seq({"it", "other"}) BY DEF WaitsInit
    <3> QED BY <3>1, <3>2 DEF WaitsInit, WaitTypes
  <2> QED
    BY <2>1 DEF WaitsInit, WaitsInv, ClockInStage, IdleIsUnread, PollIsDue, NothingWasMissed
<1>2. WaitsInv /\ [WaitsNext]_waitVars => WaitsInv'
  BY WaitTypesStep, ClockStep, IdleStep, PollStep, MissedStep DEF WaitsInv
<1> QED BY <1>1, <1>2, PTL DEF WaitsSpec

\* A wait says that its time ran out only when there was nothing it could have
\* seen in that time, unless events or answers were lost or it had no time
\* (wait_for_network_idle, wait_for_load, wait_for_selector).
THEOREM WaitsMissNothing == WaitsSpec => []NothingWasMissed
<1>1. WaitsInv => NothingWasMissed BY DEF WaitsInv
<1> QED BY <1>1, WaitsInvariant, PTL

-------------------------------------------------------------------------------
(* Downloads: the invariant.                                               *)

Places == {"start", "listed", "navigating", "listening", "looking", "sizing", "reported", "failed"}
Labels == {Unnamed} \cup {p.name[s] : p \in Plans, s \in Savers}
Paths == {fileName(e, n) : e \in Labels, n \in 0 .. Cardinality(Savers)}
Entries == [path : Paths, part : BOOLEAN]
States == {"none", "partial", "whole", "removed"}

DownloadTypes ==
  /\ plan \in Plans /\ writes \in Nat
  /\ disk \in [Savers -> [st : States, path : Paths, size : Nat, at : Nat]]
  /\ dpc \in [Fetches -> Places] /\ expected \in [Fetches -> Labels]
  /\ readable \in [Fetches -> BOOLEAN]
  /\ before \in [Fetches -> SUBSET Entries] /\ cand \in [Fetches -> Entries]
  /\ found \in [Fetches -> [whose : Savers \cup {"nobody"}, st : States, new : BOOLEAN]]

\* A file is saved under its own name or a numbered form of it.
SavedUnderItsName ==
  \A s \in Savers : disk[s].st # "none" =>
    \E n \in 0 .. Cardinality(Savers) : disk[s].path = fileName(plan.name[s], n)

\* What is sized was new, finished and named as the download when it was picked.
PickedQualifies ==
  \A f \in Fetches :
    /\ expected[f] \in {Unnamed, plan.name[f]}
    /\ dpc[f] = "sizing" =>
         ~cand[f].part /\ cand[f] \notin before[f] /\ fits(cand[f].path, expected[f])

DownloadInv ==
  /\ DownloadTypes /\ SavedUnderItsName /\ PickedQualifies /\ DownloadIsTheTabs

-------------------------------------------------------------------------------
(* Downloads: the numbered names.                                          *)

\* There is a free number for every name, however many files there are.
LEMMA FreeNumber ==
  ASSUME NEW name
  PROVE  \E n \in 0 .. Cardinality(Savers) :
           /\ freePath(name) = fileName(name, n)
           /\ freePath(name) \notin taken
<1> DEFINE C == Cardinality(Savers)
           Free == {k \in 0 .. C : fileName(name, k) \notin taken}
<1>1. C \in Nat BY SaversAssumption, FS_CardinalityType
<1>2. Free # {}
  <2> SUFFICES ASSUME Free = {} PROVE FALSE OBVIOUS
  <2> DEFINE f == [k \in 0 .. C |-> CHOOSE s \in Present : disk[s].path = fileName(name, k)]
  <2>1. \A k \in 0 .. C : \E s \in Present : disk[s].path = fileName(name, k) BY DEF taken
  <2>2. \A k \in 0 .. C : f[k] \in Present /\ disk[f[k]].path = fileName(name, k) BY <2>1
  <2>3. f \in [0 .. C -> Savers] BY <2>2 DEF Present
  <2>4. IsFiniteSet(0 .. C) /\ Cardinality(0 .. C) = C + 1 BY <1>1, FS_Interval
  <2> HIDE DEF f, C
  <2>5. C < Cardinality(0 .. C) BY <1>1, <2>4
  <2>6. \E x, y \in 0 .. C : x # y /\ f[x] = f[y]
    <3> DEFINE Numbers == 0 .. C
    <3>1. IsFiniteSet(Numbers) BY <2>4
    <3>2. Cardinality(Savers) < Cardinality(Numbers) BY <2>5 DEF C
    <3>3. f \in [Numbers -> Savers] BY <2>3
    <3> HIDE DEF Numbers
    <3>4. IsFiniteSet(Savers) BY SaversAssumption
    <3>5. \E x, y \in Numbers : x # y /\ f[x] = f[y]
      BY ONLY <3>1, <3>2, <3>3, <3>4, FS_PigeonHole
    <3> QED BY <3>5 DEF Numbers
  <2>7. PICK x \in 0 .. C, y \in 0 .. C : x # y /\ f[x] = f[y] BY <2>6
  <2>8. fileName(name, x) = fileName(name, y) BY <2>2, <2>7
  <2>9. x = y BY <2>8 DEF fileName
  <2> QED BY <2>7, <2>9
<1>3. PICK n \in Free : \A m \in Free : n <= m
  <2>1. Free \in SUBSET Nat BY <1>1
  <2> HIDE DEF Free
  <2> QED BY <1>2, <2>1, LeastNatural
<1>4. n \in 0 .. C /\ fileName(name, n) \notin taken
      /\ \A j \in 0 .. (n - 1) : fileName(name, j) \in taken
  BY <1>1, <1>3
<1> DEFINE P(k) == /\ fileName(name, k) \notin taken
                   /\ \A j \in 0 .. (k - 1) : fileName(name, j) \in taken
           ch == CHOOSE k \in 0 .. C : P(k)
<1>5. ch \in 0 .. C /\ P(ch) BY <1>4
<1>6. freePath(name) = fileName(name, ch) BY DEF freePath
<1> HIDE DEF ch, C
<1> QED BY <1>5, <1>6 DEF C

\* What a name is saved as is named as that download's, and the other way round
\* (is_download_named).
LEMMA SaverIsAlike ==
  ASSUME NEW s, NEW f, NEW n \in 0 .. Cardinality(Savers),
         is_download_named(fileName(plan.name[s], n), plan.name[f])
  PROVE  Alike(s, f)
BY DEF Alike

-------------------------------------------------------------------------------
(* Downloads: the invariant is inductive.                                  *)

\* What lies in the directory is an entry of it.
LEMMA PathOfIsEntry ==
  ASSUME DownloadTypes, NEW s \in Savers
  PROVE  pathOf(s) \in Entries /\ pathOf(s).path = disk[s].path
         /\ pathOf(s).part = (disk[s].st = "partial" /\ plan.staged)
<1>1. plan.staged \in BOOLEAN /\ disk[s].path \in Paths BY PlansAssumption DEF DownloadTypes
<1> QED BY <1>1 DEF pathOf, Entries

\* Type correctness of a directory of downloads (download.rs).
LEMMA DownloadTypesStep ==
  ASSUME DownloadTypes, [DownloadNext]_downloadVars
  PROVE  DownloadTypes'
<1>1. ASSUME NEW s \in Savers, StartsSaving(s) PROVE DownloadTypes'
  <2>1. freePath(plan.name[s]) \in Paths
    <3>1. PICK n \in 0 .. Cardinality(Savers) : freePath(plan.name[s]) = fileName(plan.name[s], n)
      BY FreeNumber
    <3>2. plan.name[s] \in Labels BY DEF Labels, DownloadTypes
    <3> QED BY <3>1, <3>2 DEF Paths
  <2>2. disk' \in [Savers -> [st : States, path : Paths, size : Nat, at : Nat]]
    BY <1>1, <2>1 DEF StartsSaving, DownloadTypes, States
  <2> QED BY <1>1, <2>2 DEF StartsSaving, DownloadTypes, fetchSide
<1>2. ASSUME NEW s \in Savers, SavesMore(s) PROVE DownloadTypes'
  <2> DEFINE file == [disk[s] EXCEPT !.size = @ + 1, !.at = writes + 1]
  <2>0. file \in [st : States, path : Paths, size : Nat, at : Nat]
    <3>1. disk[s] \in [st : States, path : Paths, size : Nat, at : Nat] BY DEF DownloadTypes
    <3>2. disk[s].size + 1 \in Nat /\ writes + 1 \in Nat BY <3>1 DEF DownloadTypes
    <3> QED BY <3>1, <3>2
  <2>1. disk' \in [Savers -> [st : States, path : Paths, size : Nat, at : Nat]]
    <3>1. disk' = [disk EXCEPT ![s] = file] BY <1>2 DEF SavesMore, DownloadTypes
    <3> HIDE DEF file
    <3> QED BY <2>0, <3>1 DEF DownloadTypes
  <2> QED BY <1>2, <2>1 DEF SavesMore, DownloadTypes, fetchSide
<1>3. ASSUME NEW s \in Savers, EndsSaving(s) PROVE DownloadTypes'
  <2>1. disk' \in [Savers -> [st : States, path : Paths, size : Nat, at : Nat]]
    BY <1>3 DEF EndsSaving, DownloadTypes, States
  <2> QED BY <1>3, <2>1 DEF EndsSaving, DownloadTypes, fetchSide
<1>4. ASSUME NEW f \in Fetches, configure_download_capture(f) PROVE DownloadTypes'
  BY <1>4 DEF configure_download_capture, at, browserSide, DownloadTypes, Places
<1>5. ASSUME NEW f \in Fetches, snapshot_download_dir(f) PROVE DownloadTypes'
  <2>1. listing \subseteq Entries BY PathOfIsEntry DEF listing, Present
  <2> QED BY <1>5, <2>1 DEF snapshot_download_dir, at, browserSide, DownloadTypes, Places
<1>6. ASSUME NEW f \in Fetches, NavigateReturns(f) PROVE DownloadTypes'
  BY <1>6 DEF NavigateReturns, at, browserSide, DownloadTypes, Places
<1>7. ASSUME NEW f \in Fetches, wait_for_download_start(f) PROVE DownloadTypes'
  <2>1. plan.name[f] \in Labels /\ Unnamed \in Labels
    BY DownloadAssumption DEF Labels, DownloadTypes
  <2>2. expected' \in [Fetches -> Labels]
    BY <1>7, <2>1 DEF wait_for_download_start, DownloadTypes
  <2> QED BY <1>7, <2>2 DEF wait_for_download_start, at, browserSide, DownloadTypes, Places
<1>8. ASSUME NEW f \in Fetches, newest_completed_download(f) PROVE DownloadTypes'
  <2>1. cand' \in [Fetches -> Entries]
    BY <1>8, PathOfIsEntry DEF newest_completed_download, Qualifying, Present, DownloadTypes
  <2> QED BY <1>8, <2>1 DEF newest_completed_download, at, browserSide, DownloadTypes, Places
<1>9. ASSUME NEW f \in Fetches, wait_for_download_file(f) PROVE DownloadTypes'
  <2>1. found' \in [Fetches -> [whose : Savers \cup {"nobody"}, st : States, new : BOOLEAN]]
    <3>1. CASE \E s \in Behind(f) : disk[s].size = size1[f]
      <4> DEFINE s == CHOOSE s \in Behind(f) : TRUE
      <4>1. s \in Behind(f) BY <3>1
      <4>2. s \in Savers /\ disk[s].st \in States BY <4>1 DEF Behind, Present, DownloadTypes
      <4>3. found' = [found EXCEPT ![f] = [whose |-> s, st |-> disk[s].st,
                                             new |-> cand[f] \notin before[f]]]
        BY <1>9, <3>1 DEF wait_for_download_file
      <4> HIDE DEF s
      <4> QED BY <4>2, <4>3 DEF DownloadTypes
    <3>2. CASE ~\E s \in Behind(f) : disk[s].size = size1[f]
      BY <1>9, <3>2 DEF wait_for_download_file, DownloadTypes
    <3> QED BY <3>1, <3>2
  <2>2. dpc' \in [Fetches -> Places]
    BY <1>9 DEF wait_for_download_file, at, DownloadTypes, Places
  <2> QED BY <1>9, <2>1, <2>2 DEF wait_for_download_file, browserSide, DownloadTypes
<1>10. ASSUME NEW f \in Fetches, DownloadTimesOut(f) PROVE DownloadTypes'
  BY <1>10 DEF DownloadTimesOut, at, browserSide, DownloadTypes, Places
<1>11. CASE UNCHANGED downloadVars BY <1>11 DEF downloadVars, DownloadTypes
<1> QED
  BY <1>1, <1>2, <1>3, <1>4, <1>5, <1>6, <1>7, <1>8, <1>9, <1>10, <1>11 DEF DownloadNext

\* Files are named as their saver's downloads.
LEMMA SavedStep ==
  ASSUME DownloadTypes, SavedUnderItsName, [DownloadNext]_downloadVars
  PROVE  SavedUnderItsName'
<1> USE DEF SavedUnderItsName
<1>1. ASSUME NEW s \in Savers, StartsSaving(s) PROVE SavedUnderItsName'
  <2>1. PICK n \in 0 .. Cardinality(Savers) : freePath(plan.name[s]) = fileName(plan.name[s], n)
    BY FreeNumber
  <2>2. disk' = [disk EXCEPT ![s] = [st |-> "partial", path |-> freePath(plan.name[s]),
                                     size |-> 0, at |-> writes]] /\ plan' = plan
    BY <1>1 DEF StartsSaving
  <2>3. \A r \in Savers : r # s => disk'[r] = disk[r] BY <2>2 DEF DownloadTypes
  <2>4. disk'[s].path = freePath(plan.name[s]) BY <2>2 DEF DownloadTypes
  <2> QED BY <2>1, <2>2, <2>3, <2>4
<1>2. ASSUME NEW s \in Savers, SavesMore(s) PROVE SavedUnderItsName'
  <2>1. \A r \in Savers : disk'[r].path = disk[r].path /\ disk'[r].st = disk[r].st
    BY <1>2 DEF SavesMore, DownloadTypes
  <2> QED BY <1>2, <2>1 DEF SavesMore
<1>3. ASSUME NEW s \in Savers, EndsSaving(s) PROVE SavedUnderItsName'
  <2>1. \A r \in Savers : disk'[r].path = disk[r].path /\ (disk[r].st = "none" => disk'[r].st = "none")
    BY <1>3 DEF EndsSaving, DownloadTypes
  <2> QED BY <1>3, <2>1 DEF EndsSaving
<1>4. ASSUME NEW f \in Fetches, configure_download_capture(f) PROVE SavedUnderItsName'
  BY <1>4 DEF configure_download_capture, at, browserSide
<1>5. ASSUME NEW f \in Fetches, snapshot_download_dir(f) PROVE SavedUnderItsName'
  BY <1>5 DEF snapshot_download_dir, at, browserSide
<1>6. ASSUME NEW f \in Fetches, NavigateReturns(f) PROVE SavedUnderItsName'
  BY <1>6 DEF NavigateReturns, at, browserSide
<1>7. ASSUME NEW f \in Fetches, wait_for_download_start(f) PROVE SavedUnderItsName'
  BY <1>7 DEF wait_for_download_start, at, browserSide
<1>8. ASSUME NEW f \in Fetches, newest_completed_download(f) PROVE SavedUnderItsName'
  BY <1>8 DEF newest_completed_download, at, browserSide
<1>9. ASSUME NEW f \in Fetches, wait_for_download_file(f) PROVE SavedUnderItsName'
  BY <1>9 DEF wait_for_download_file, at, browserSide
<1>10. ASSUME NEW f \in Fetches, DownloadTimesOut(f) PROVE SavedUnderItsName'
  BY <1>10 DEF DownloadTimesOut, at, browserSide
<1>11. CASE UNCHANGED downloadVars BY <1>11 DEF downloadVars
<1> QED
  BY <1>1, <1>2, <1>3, <1>4, <1>5, <1>6, <1>7, <1>8, <1>9, <1>10, <1>11 DEF DownloadNext

\* What is sized has been picked for its name, and as new and finished.
LEMMA PickedStep ==
  ASSUME DownloadTypes, PickedQualifies, [DownloadNext]_downloadVars
  PROVE  PickedQualifies'
<1> USE DEF PickedQualifies, DownloadTypes
<1>1. ASSUME NEW s \in Savers, StartsSaving(s) PROVE PickedQualifies'
  BY <1>1 DEF StartsSaving, fetchSide
<1>2. ASSUME NEW s \in Savers, SavesMore(s) PROVE PickedQualifies'
  BY <1>2 DEF SavesMore, fetchSide
<1>3. ASSUME NEW s \in Savers, EndsSaving(s) PROVE PickedQualifies'
  BY <1>3 DEF EndsSaving, fetchSide
<1>4. ASSUME NEW f \in Fetches, configure_download_capture(f) PROVE PickedQualifies'
  BY <1>4 DEF configure_download_capture, at, browserSide
<1>5. ASSUME NEW f \in Fetches, snapshot_download_dir(f) PROVE PickedQualifies'
  BY <1>5 DEF snapshot_download_dir, at, browserSide
<1>6. ASSUME NEW f \in Fetches, NavigateReturns(f) PROVE PickedQualifies'
  BY <1>6 DEF NavigateReturns, at, browserSide
<1>7. ASSUME NEW f \in Fetches, wait_for_download_start(f) PROVE PickedQualifies'
  <2>1. dpc' = [dpc EXCEPT ![f] = IF navigation_became_download(f) /\ hasDir[f] THEN "looking" ELSE "failed"]
        /\ UNCHANGED <<plan, before, cand>>
    BY <1>7 DEF wait_for_download_start, at, browserSide
  <2>2. PICK e \in {plan.name[f], Unnamed} : expected' = [expected EXCEPT ![f] = e]
    BY <1>7 DEF wait_for_download_start
  <2> QED BY <2>1, <2>2
<1>8. ASSUME NEW f \in Fetches, newest_completed_download(f) PROVE PickedQualifies'
  <2>1. PICK s \in Qualifying(f) : cand' = [cand EXCEPT ![f] = pathOf(s)]
    BY <1>8 DEF newest_completed_download
  <2>2. ~pathOf(s).part /\ pathOf(s) \notin before[f] /\ fits(pathOf(s).path, expected[f])
    BY <2>1 DEF Qualifying, isNew, looksFinished
  <2>3. /\ dpc' = [dpc EXCEPT ![f] = "sizing"] /\ UNCHANGED <<expected, before, plan>>
    BY <1>8 DEF newest_completed_download, at, browserSide
  <2> QED BY <2>1, <2>2, <2>3
<1>9. ASSUME NEW f \in Fetches, wait_for_download_file(f) PROVE PickedQualifies'
  <2>1. \E place \in {"reported", "looking"} : dpc' = [dpc EXCEPT ![f] = place]
    BY <1>9 DEF wait_for_download_file, at
  <2> QED BY <1>9, <2>1 DEF wait_for_download_file, browserSide
<1>10. ASSUME NEW f \in Fetches, DownloadTimesOut(f) PROVE PickedQualifies'
  BY <1>10 DEF DownloadTimesOut, at, browserSide
<1>11. CASE UNCHANGED downloadVars BY <1>11 DEF downloadVars
<1> QED
  BY <1>1, <1>2, <1>3, <1>4, <1>5, <1>6, <1>7, <1>8, <1>9, <1>10, <1>11 DEF DownloadNext

\* A report stays as good as it was when nothing it is judged by changes.
LEMMA ReportsStay ==
  ASSUME DownloadIsTheTabs, UNCHANGED plan,
         \A g \in Fetches : dpc'[g] = "reported" =>
           /\ dpc[g] = "reported"
           /\ found'[g] = found[g] /\ expected'[g] = expected[g] /\ readable'[g] = readable[g]
  PROVE  DownloadIsTheTabs'
<1>1. \A s, f : Alike(s, f)' <=> Alike(s, f) BY DEF Alike
<1>2. Reported' \subseteq Reported BY DEF Reported
<1> USE DEF Reported
<1>3. ReportedIsWhole' BY <1>2 DEF DownloadIsTheTabs, ReportedIsWhole
<1>4. ReportedIsNew' BY <1>2 DEF DownloadIsTheTabs, ReportedIsNew
<1>5. NamedReportIsOwn' BY <1>1, <1>2 DEF DownloadIsTheTabs, NamedReportIsOwn
<1> QED BY <1>3, <1>4, <1>5 DEF DownloadIsTheTabs

\* The file behind what was picked, when it is one, is whole, new, and named as the
\* download if its name was heard (wait_for_download_file).
LEMMA PickIsTheTabs ==
  ASSUME DownloadTypes, SavedUnderItsName, PickedQualifies,
         NEW f \in Fetches, dpc[f] = "sizing", NEW s \in Behind(f)
  PROVE  /\ plan.staged => disk[s].st = "whole"
         /\ cand[f] \notin before[f]
         /\ expected[f] # Unnamed => Alike(s, f)
<1>1. s \in Savers /\ disk[s].st \in {"partial", "whole"} /\ pathOf(s) = cand[f]
  BY DEF Behind, Present
<1>2. ~cand[f].part /\ cand[f] \notin before[f] /\ fits(cand[f].path, expected[f])
      /\ expected[f] \in {Unnamed, plan.name[f]}
  BY DEF PickedQualifies
<1>3. ASSUME plan.staged PROVE disk[s].st = "whole" BY <1>1, <1>2, <1>3, PathOfIsEntry
<1>4. ASSUME expected[f] # Unnamed PROVE Alike(s, f)
  <2>1. is_download_named(disk[s].path, plan.name[f])
    BY <1>1, <1>2, <1>4, PathOfIsEntry DEF fits
  <2>2. PICK n \in 0 .. Cardinality(Savers) : disk[s].path = fileName(plan.name[s], n)
    BY <1>1 DEF SavedUnderItsName
  <2> QED BY <2>1, <2>2 DEF Alike
<1> QED BY <1>2, <1>3, <1>4

\* What a fetch reports stays reported, and is its tab's when it is reported.
LEMMA ReportStep ==
  ASSUME DownloadTypes, SavedUnderItsName, PickedQualifies, DownloadIsTheTabs,
         [DownloadNext]_downloadVars
  PROVE  DownloadIsTheTabs'
<1>1. ASSUME NEW s \in Savers, StartsSaving(s) PROVE DownloadIsTheTabs'
  BY <1>1, ReportsStay DEF StartsSaving, fetchSide, DownloadTypes
<1>2. ASSUME NEW s \in Savers, SavesMore(s) PROVE DownloadIsTheTabs'
  BY <1>2, ReportsStay DEF SavesMore, fetchSide, DownloadTypes
<1>3. ASSUME NEW s \in Savers, EndsSaving(s) PROVE DownloadIsTheTabs'
  BY <1>3, ReportsStay DEF EndsSaving, fetchSide, DownloadTypes
<1>4. ASSUME NEW f \in Fetches, configure_download_capture(f) PROVE DownloadIsTheTabs'
  BY <1>4, ReportsStay DEF configure_download_capture, at, browserSide, DownloadTypes
<1>5. ASSUME NEW f \in Fetches, snapshot_download_dir(f) PROVE DownloadIsTheTabs'
  BY <1>5, ReportsStay DEF snapshot_download_dir, at, browserSide, DownloadTypes
<1>6. ASSUME NEW f \in Fetches, NavigateReturns(f) PROVE DownloadIsTheTabs'
  BY <1>6, ReportsStay DEF NavigateReturns, at, browserSide, DownloadTypes
<1>7. ASSUME NEW f \in Fetches, wait_for_download_start(f) PROVE DownloadIsTheTabs'
  BY <1>7, ReportsStay DEF wait_for_download_start, at, browserSide, DownloadTypes
<1>8. ASSUME NEW f \in Fetches, newest_completed_download(f) PROVE DownloadIsTheTabs'
  BY <1>8, ReportsStay DEF newest_completed_download, at, browserSide, DownloadTypes
<1>9. ASSUME NEW f \in Fetches, wait_for_download_file(f) PROVE DownloadIsTheTabs'
  <2>1. CASE \E s \in Behind(f) : disk[s].size = size1[f]
    <3> DEFINE s == CHOOSE s \in Behind(f) : TRUE
    <3>1. s \in Behind(f) BY <2>1
    <3>2. dpc[f] = "sizing" /\ dpc' = [dpc EXCEPT ![f] = "reported"]
          /\ UNCHANGED <<plan, expected, readable>>
          /\ found' = [found EXCEPT ![f] = [whose |-> s, st |-> disk[s].st,
                                           new |-> cand[f] \notin before[f]]]
      BY <1>9, <2>1 DEF wait_for_download_file, at, browserSide
    <3> HIDE DEF s
    <3>3. found'[f].whose = s /\ found'[f].st = disk[s].st
          /\ found'[f].new = (cand[f] \notin before[f])
      BY <3>2 DEF DownloadTypes
    <3>4. /\ plan.staged => disk[s].st = "whole"
          /\ cand[f] \notin before[f]
          /\ expected[f] # Unnamed => Alike(s, f)
      BY <3>1, <3>2, PickIsTheTabs
    <3>5. \A g \in Fetches \ {f} : (dpc'[g] = "reported" => dpc[g] = "reported")
                                   /\ found'[g] = found[g]
      BY <3>2 DEF DownloadTypes
    <3>6. s \in Savers BY <3>1 DEF Behind, Present
    <3>7. \A r, g : Alike(r, g)' <=> Alike(r, g) BY <3>2 DEF Alike
    <3>8. ReportedIsWhole'
      BY <3>2, <3>3, <3>4, <3>5 DEF ReportedIsWhole, DownloadIsTheTabs, Reported
    <3>9. ReportedIsNew'
      BY <3>2, <3>3, <3>4, <3>5 DEF ReportedIsNew, DownloadIsTheTabs, Reported
    <3>10. NamedReportIsOwn'
      BY <3>2, <3>3, <3>4, <3>5, <3>6, <3>7 DEF NamedReportIsOwn, DownloadIsTheTabs, Reported
    <3> QED BY <3>8, <3>9, <3>10 DEF DownloadIsTheTabs
  <2>2. CASE ~\E s \in Behind(f) : disk[s].size = size1[f]
    BY <1>9, <2>2, ReportsStay DEF wait_for_download_file, at, browserSide, DownloadTypes
  <2> QED BY <2>1, <2>2
<1>10. ASSUME NEW f \in Fetches, DownloadTimesOut(f) PROVE DownloadIsTheTabs'
  BY <1>10, ReportsStay DEF DownloadTimesOut, at, browserSide, DownloadTypes
<1>11. CASE UNCHANGED downloadVars BY <1>11, ReportsStay DEF downloadVars
<1> QED
  BY <1>1, <1>2, <1>3, <1>4, <1>5, <1>6, <1>7, <1>8, <1>9, <1>10, <1>11 DEF DownloadNext

-------------------------------------------------------------------------------
(* Downloads: the theorems.                                                *)

\* Nothing is saved, picked or reported yet.
LEMMA DownloadInitInv == DownloadInit => DownloadInv
<1> SUFFICES ASSUME DownloadInit PROVE DownloadInv OBVIOUS
<1> USE DEF DownloadInit
<1>1. Unnamed \in Labels /\ 0 \in 0 .. Cardinality(Savers)
  BY SaversAssumption, FS_CardinalityType DEF Labels
<1>2. \A e \in Labels : <<e, 0>> \in Paths /\ fileName(e, 0) = <<e, 0>>
  BY <1>1 DEF Paths, fileName
<1>3. NoFile \in [st : States, path : Paths, size : Nat, at : Nat] /\ NoFile.st = "none"
  BY <1>1, <1>2 DEF NoFile, States
<1>4. \A s \in Savers : plan.name[s] \in Labels BY DEF Labels
<1>5. PICK old \in BOOLEAN :
        disk = [s \in Savers |->
                  IF s \notin Fetches /\ old
                    THEN [st |-> "whole", path |-> <<plan.name[s], 0>>, size |-> 1, at |-> 0]
                    ELSE NoFile]
  OBVIOUS
<1>6. disk \in [Savers -> [st : States, path : Paths, size : Nat, at : Nat]]
  <2>1. \A s \in Savers : [st |-> "whole", path |-> <<plan.name[s], 0>>, size |-> 1, at |-> 0]
                            \in [st : States, path : Paths, size : Nat, at : Nat]
    BY <1>2, <1>4 DEF States
  <2> QED BY <1>3, <1>5, <2>1
<1>7. DownloadTypes
  <2>1. NoPath \in Entries BY <1>1, <1>2 DEF NoPath, Entries
  <2>2. NoFind \in [whose : Savers \cup {"nobody"}, st : States, new : BOOLEAN]
    BY DEF NoFind, States
  <2> QED BY <1>1, <1>6, <2>1, <2>2 DEF DownloadTypes, Places
<1>8. SavedUnderItsName
  <2>1. \A s \in Savers : disk[s].st # "none" => disk[s].path = <<plan.name[s], 0>>
    BY <1>3, <1>5
  <2> QED BY <1>1, <1>2, <1>4, <2>1 DEF SavedUnderItsName
<1>9. PickedQualifies BY DEF PickedQualifies
<1>10. DownloadIsTheTabs
  BY DEF DownloadIsTheTabs, ReportedIsWhole, ReportedIsNew, NamedReportIsOwn, Reported
<1> QED BY <1>7, <1>8, <1>9, <1>10 DEF DownloadInv

\* Type correctness, and what is saved, picked and reported, in every run of the
\* browser and the fetches of one profile (download.rs).
THEOREM DownloadInvariant == DownloadSpec => []DownloadInv
<1>1. DownloadInit => DownloadInv BY DownloadInitInv
<1>2. DownloadInv /\ [DownloadNext]_downloadVars => DownloadInv'
  BY DownloadTypesStep, SavedStep, PickedStep, ReportStep DEF DownloadInv
<1> QED BY <1>1, <1>2, PTL DEF DownloadSpec

\* However many download at once into the directory the fetches share, what a fetch
\* reports is whole if downloads are staged, was not there when it began, and is its
\* own tab's if it heard the name and no other is saved under a like one
\* (newest_completed_download, wait_for_download_file).
THEOREM DownloadsAreTheTabs == DownloadSpec => []DownloadIsTheTabs
<1>1. DownloadInv => DownloadIsTheTabs BY DEF DownloadInv
<1> QED BY <1>1, DownloadInvariant, PTL

-------------------------------------------------------------------------------
(* Capture: the invariant.                                                 *)

Kinds == {Artifacts[i] : i \in 1 .. Len(Artifacts)}
\* What is still to be captured is the end of the list, and what was before it.
Rest(s) == /\ s \in Seq(Kinds) /\ Len(s) <= Len(Artifacts)
           /\ \A i \in 1 .. Len(s) : s[i] = Artifacts[i + (Len(Artifacts) - Len(s))]
Before(s) == {Artifacts[i] : i \in 1 .. (Len(Artifacts) - Len(s))}

Early == {"commit", "evaluate", "observe", "snapshot"}
Stages == [name : Kinds, status : {"ok", "timeout", "error"}]
Notes == [main : {"none", tabPage.main}, status : {0, statusOf(tabPage.main)}, snap : BOOLEAN,
          final : {"initial", "target", "blank"}, blocked : BOOLEAN,
          ready : {"off", "satisfied", "timeout", "blocked"}]

CaptureTypes ==
  /\ url \in {"initial", "target", "blank"}
  /\ step \in Early \cup {"capture", "capturing", "judge", "end"}
  /\ Rest(todo) /\ stages \in Seq(Stages) /\ noted \in Notes
  /\ tab \in [open : BOOLEAN, named : BOOLEAN, retained : BOOLEAN]
  /\ bodies \in [DOMAIN Bodies -> {"left", "kept", "cut", "skipped", "failed", "unread"}]

\* Where the fetch is, what is under way and what is left go together.
CaptureIsInOrder ==
  /\ step \in Early => todo = Artifacts /\ stages = <<>> /\ files = {}
  /\ step = "judge" \/ Done => todo = <<>>
  /\ outcome # "none" <=> step = "end"
  /\ IF step = "capturing" THEN todo # <<>> /\ active = <<Current>> ELSE active = <<>>

\* Each artifact behind has one stage at most, a file only with a stage that
\* succeeded, and a warning if it was wanted and none did.
StagesToldOnce ==
  /\ \A i \in 1 .. Len(stages) : stages[i].name \in Before(todo)
  /\ \A i, j \in 1 .. Len(stages) : stages[i].name = stages[j].name => i = j
FilesWereCaptured ==
  \A a \in files : \E i \in 1 .. Len(stages) : stages[i].name = a /\ stages[i].status = "ok"
FailuresAreWarnedOf ==
  \A a \in Before(todo) \ {"bodies"} :
    \/ a \notin order.wanted
    \/ \E i \in 1 .. Len(stages) : stages[i].name = a /\ stages[i].status = "ok"
    \/ \E w \in warned : w[1] = a

\* What was read after the snapshot is of the page asked for, and a wall is reviewed.
SnapshotIsOfThePage ==
  step \in {"capture", "capturing", "judge"} =>
    noted.final = "target" /\ (noted.snap /\ tabPage.wall => review)

\* What the log lost is told when the log is behind, and of a body when it is cut.
WarnsOfNetwork == \E w \in warned : w[1] = "network"
LostIsWarnedOf ==
  /\ "network" \in Before(todo) /\ tabPage.loss => WarnsOfNetwork
  /\ \A r \in DOMAIN Bodies :
       /\ bodies[r] = "kept" => Bodies[r].size <= BodyMax
       /\ bodies[r] \notin {"kept", "left"} => WarnsOfNetwork

CaptureInv ==
  /\ CaptureTypes /\ CaptureIsInOrder /\ StagesToldOnce /\ FilesWereCaptured
  /\ FailuresAreWarnedOf /\ SnapshotIsOfThePage /\ LostIsWarnedOf /\ ReclaimedMeansSeen

-------------------------------------------------------------------------------
(* Capture: the list of the artifacts and the stages of the trace.         *)

\* Ten artifacts, each once, the network's log the last.
LEMMA ArtifactList ==
  /\ Len(Artifacts) = 10 /\ Artifacts \in Seq(Kinds)
  /\ \A i, j \in 1 .. 10 : Artifacts[i] = Artifacts[j] => i = j
  /\ Artifacts[10] = "network"
<1>1. Len(Artifacts) = 10 /\ Artifacts[10] = "network" BY DEF Artifacts
<1>2. \A i, j \in 1 .. 10 : Artifacts[i] = Artifacts[j] => i = j BY DEF Artifacts
<1>3. Artifacts \in Seq(Kinds)
  <2>1. \A i \in 1 .. Len(Artifacts) : Artifacts[i] \in Kinds BY DEF Kinds
  <2>2. Artifacts = [i \in 1 .. Len(Artifacts) |-> Artifacts[i]] BY DEF Artifacts
  <2>3. Len(Artifacts) \in Nat BY <1>1
  <2> QED BY <2>1, <2>2, <2>3
<1> QED BY <1>1, <1>2, <1>3

\* At first all of them are left, at last none.
LEMMA RestEnds ==
  /\ Rest(Artifacts) /\ Before(Artifacts) = {} /\ Artifacts # <<>>
  /\ Before(<<>>) = Kinds
BY ArtifactList DEF Rest, Before, Kinds

\* The next one was not captured before, and when it is the last it is the log.
LEMMA RestMoves ==
  ASSUME NEW s, Rest(s), s # <<>>
  PROVE  /\ Rest(Tail(s)) /\ Head(s) \in Kinds
         /\ Head(s) \notin Before(s)
         /\ Before(Tail(s)) = Before(s) \cup {Head(s)}
         /\ Tail(s) = <<>> => Head(s) = "network"
<1> DEFINE k == Len(Artifacts) - Len(s)
<1>1. s \in Seq(Kinds) /\ Len(s) \in 1 .. 10 /\ k \in 0 .. 9
  <2>1. s \in Seq(Kinds) /\ Len(s) <= 10 BY ArtifactList DEF Rest
  <2>2. Len(s) \in Nat /\ Len(s) # 0 BY <2>1
  <2>3. \A n \in Nat : n # 0 /\ n <= 10 => n \in 1 .. 10 /\ 10 - n \in 0 .. 9 OBVIOUS
  <2>4. Len(s) \in 1 .. 10 /\ 10 - Len(s) \in 0 .. 9 BY <2>1, <2>2, <2>3
  <2> QED BY <2>1, <2>4, ArtifactList
<1>2. Head(s) = Artifacts[k + 1]
  <2>1. Head(s) = s[1] BY <1>1
  <2>2. 1 \in 1 .. Len(s) BY <1>1
  <2> QED BY <1>1, <2>1, <2>2 DEF Rest
<1>3. Tail(s) \in Seq(Kinds) /\ Len(Tail(s)) = Len(s) - 1
      /\ \A i \in 1 .. Len(Tail(s)) : Tail(s)[i] = s[i + 1]
  BY <1>1
<1>4. Rest(Tail(s))
  <2>1. ASSUME NEW i \in 1 .. Len(Tail(s))
        PROVE  Tail(s)[i] = Artifacts[i + (Len(Artifacts) - Len(Tail(s)))]
    <3>1. i + 1 \in 1 .. Len(s) BY <1>1, <1>3
    <3>2. s[i + 1] = Artifacts[(i + 1) + (Len(Artifacts) - Len(s))] BY <3>1 DEF Rest
    <3>3. (i + 1) + (Len(Artifacts) - Len(s)) = i + (Len(Artifacts) - Len(Tail(s)))
      BY <1>1, <1>3, ArtifactList
    <3> QED BY <1>3, <3>2, <3>3
  <2> QED BY <1>1, <1>3, <2>1, ArtifactList DEF Rest
<1>5. Head(s) \notin Before(s)
  <2>1. k + 1 \in 1 .. 10 BY <1>1
  <2>2. \A i \in 1 .. k : i \in 1 .. 10 /\ i # k + 1 BY <1>1
  <2> QED BY <1>2, <2>1, <2>2, ArtifactList DEF Before
<1>6. Before(Tail(s)) = Before(s) \cup {Head(s)}
  <2>1. Len(Artifacts) - Len(Tail(s)) = k + 1 BY <1>1, <1>3, ArtifactList
  <2>2. 1 .. (k + 1) = (1 .. k) \cup {k + 1} BY <1>1
  <2> QED BY <1>2, <2>1, <2>2 DEF Before
<1>7. Tail(s) = <<>> => Head(s) = "network"
  <2>1. Tail(s) = <<>> => Len(s) = 1 BY <1>1, <1>3
  <2>2. Len(s) = 1 => k + 1 = 10 BY <1>1, ArtifactList
  <2> QED BY <1>2, <2>1, <2>2, ArtifactList
<1>8. Head(s) \in Kinds BY <1>1
<1> QED BY <1>4, <1>5, <1>6, <1>7, <1>8

\* Ending the one stage that is under way records it once, as succeeded if it did.
LEMMA OneStageEnds ==
  ASSUME NEW a, NEW end, active = <<a>>, Finishes(a, end)
  PROVE  /\ active' = <<>>
         /\ \E status \in {"ok", "timeout", "error"} :
              /\ stages' = Append(stages, [name |-> a, status |-> status])
              /\ end = "ok" <=> status = "ok"
<1>1. Len(active) = 1 /\ active[1] = a OBVIOUS
<1>2. rposition(a) = 1
  <2> DEFINE P(i) == active[i] = a /\ \A j \in (i + 1) .. Len(active) : active[j] # a
  <2>1. P(1) BY <1>1
  <2>2. 1 .. Len(active) = {1} BY <1>1
  <2>3. rposition(a) = CHOOSE i \in 1 .. Len(active) : P(i) BY DEF rposition
  <2> HIDE DEF P
  <2> QED BY <2>1, <2>2, <2>3
<1>3. without(a) = <<>>
  <2>1. SubSeq(active, 1, 0) = <<>> /\ SubSeq(active, 2, 1) = <<>> OBVIOUS
  <2> QED BY <1>1, <1>2, <2>1 DEF without
<1>4. finish_stage(a, status_for_error(end)) =>
        active' = <<>> /\ stages' = record(a, status_for_error(end))
  BY <1>1, <1>3 DEF finish_stage
<1>5. status_for_error(end) \in {"ok", "timeout", "error"}
      /\ (end = "ok" <=> status_for_error(end) = "ok")
  BY DEF status_for_error
<1>6. CASE end = "navigation_timeout" BY <1>3, <1>6 DEF Finishes, record
<1>7. CASE end # "navigation_timeout" BY <1>4, <1>5, <1>7 DEF Finishes, record
<1> QED BY <1>6, <1>7

\* Only the log is left when it is the next.
LEMMA NetworkIsLast ==
  ASSUME NEW s, Rest(s), s # <<>>, Head(s) = "network"
  PROVE  Tail(s) = <<>> /\ Before(<<>>) = Before(s) \cup {"network"}
<1>1. s \in Seq(Kinds) /\ Len(s) \in Nat /\ Len(s) # 0 /\ Len(s) <= 10
  <2>1. s \in Seq(Kinds) /\ Len(s) <= 10 BY ArtifactList DEF Rest
  <2> QED BY <2>1
<1>2. 1 \in 1 .. Len(s) /\ Head(s) = s[1] BY <1>1
<1>3. s[1] = Artifacts[1 + (Len(Artifacts) - Len(s))] BY <1>2 DEF Rest
<1>4. \A n \in Nat : n # 0 /\ n <= 10 /\ 1 + (10 - n) = 10 => n = 1 OBVIOUS
<1>5. \A n \in Nat : n # 0 /\ n <= 10 => 1 + (10 - n) \in 1 .. 10 OBVIOUS
<1>6. 1 + (10 - Len(s)) \in 1 .. 10 BY <1>1, <1>5
<1>7. Artifacts[1 + (10 - Len(s))] = "network" BY <1>2, <1>3, ArtifactList
<1>8. 1 + (10 - Len(s)) = 10
  <2>1. \A i \in 1 .. 10 : Artifacts[i] = "network" => i = 10 BY ArtifactList
  <2> QED BY <1>6, <1>7, <2>1
<1>9. Len(s) = 1 BY <1>1, <1>4, <1>8
<1>10. Tail(s) = <<>>
  <2>1. Tail(s) \in Seq(Kinds) /\ Len(Tail(s)) = 0 BY <1>1, <1>9
  <2>2. \A q \in Seq(Kinds) : Len(q) = 0 => q = <<>> OBVIOUS
  <2> QED BY <2>1, <2>2
<1> QED BY <1>10, RestMoves

\* A fetch that fails leaves its tab, open or closed, and nothing else of it.
LEMMA FailureLeavesATab ==
  ASSUME CaptureTypes, NEW error, Fails(error)
  PROVE  tab' \in [open : BOOLEAN, named : BOOLEAN, retained : BOOLEAN]
<1>1. PICK closed \in BOOLEAN : tab' = [tab EXCEPT !.open = ~closed, !.retained = ~closed]
  BY DEF Fails, finish_failed_target
<1>2. CASE closed BY <1>1, <1>2 DEF CaptureTypes
<1>3. CASE ~closed BY <1>1, <1>3 DEF CaptureTypes
<1> QED BY <1>2, <1>3

\* The stage of the bodies ends as the others do.
LEMMA BodiesEnd ==
  ASSUME EndsBodies, active = <<"bodies">>
  PROVE  Current = "bodies" /\ \E end : Finishes(Current, end)
<1>1. Current = "bodies" BY DEF EndsBodies
<1>2. CASE finish_stage("bodies", "ok")
  <2>1. status_for_error("ok") = "ok" BY DEF status_for_error
  <2>2. Finishes("bodies", "ok") BY <1>2, <2>1 DEF Finishes
  <2> QED BY <1>1, <2>2
<1>3. CASE \E end : Finishes("bodies", end) BY <1>1, <1>3
<1> QED BY <1>1, <1>2, <1>3 DEF EndsBodies

\* Type correctness of the capture (mod.rs, capture.rs, deadline.rs).
LEMMA CaptureTypesStep ==
  ASSUME CaptureTypes, CaptureIsInOrder, [CaptureNext]_captureVars
  PROVE  CaptureTypes'
<1> USE DEF CaptureTypes, Early
<1>1. CASE Commits
  BY <1>1 DEF Commits, evidence, trace, ending, Notes
<1>2. CASE Expires
  BY <1>2 DEF Expires, evidence, trace, ending, Notes
<1>3. CASE wait_for_navigation_commit
  <2>1. tab' \in [open : BOOLEAN, named : BOOLEAN, retained : BOOLEAN]
    BY <1>3, FailureLeavesATab DEF wait_for_navigation_commit, ending
  <2> QED
    BY <1>3, <2>1 DEF wait_for_navigation_commit, Fails, tabVars, evidence, trace, ending, Notes
<1>4. CASE evaluate_after_wait
  <2>1. tab' \in [open : BOOLEAN, named : BOOLEAN, retained : BOOLEAN]
    BY <1>4, FailureLeavesATab DEF evaluate_after_wait
  <2> QED BY <1>4, <2>1 DEF evaluate_after_wait, Fails, tabVars, evidence, trace, Notes
<1>5. CASE ObservesMain
  <2>1. noted' \in Notes' BY <1>5 DEF ObservesMain, tabVars, Notes
  <2> QED BY <1>5, <2>1 DEF ObservesMain, tabVars, trace, ending
<1>6. CASE CapturesSnapshot
  <2>1. PICK snap \in BOOLEAN :
          \/ noted' = noted
          \/ \E timing \in {0, statusOf(noted.main), statusOf(tabPage.main)} :
               noted' = [noted EXCEPT !.snap = snap, !.final = IF snap THEN url ELSE noted.final,
                                      !.status = timing, !.blocked = Classifies(snap),
                                      !.ready = IF Classifies(snap) /\ @ # "off"
                                                  THEN "blocked" ELSE @]
    BY <1>6 DEF CapturesSnapshot
  <2>2. Classifies(snap) \in BOOLEAN BY DEF Classifies
  <2>3. statusOf(noted.main) \in {0, statusOf(tabPage.main)} BY DEF statusOf, Notes
  <2>4. noted' \in Notes
    <3> HIDE DEF CaptureTypes
    <3>0. noted \in Notes /\ url \in {"initial", "target", "blank"} BY DEF CaptureTypes
    <3> QED BY <2>1, <2>2, <2>3, <3>0 DEF Notes
  <2>5. Notes' = Notes BY <1>6 DEF CapturesSnapshot, tabVars, Notes
  <2> QED BY <1>6, <2>4, <2>5 DEF CapturesSnapshot, Fails, finish_failed_target, tabVars, trace
<1>7. CASE SkipsArtifact
  <2>1. Rest(todo) /\ todo # <<>> BY <1>7 DEF SkipsArtifact, inStep
  <2>2. Rest(Tail(todo)) /\ Current \in Kinds BY <2>1, RestMoves DEF Current
  <2> QED BY <1>7, <2>2 DEF SkipsArtifact, inStep, tabVars, evidence, trace, ending, Notes
<1>8. CASE BeginsCapture
  <2>1. Rest(todo) /\ todo # <<>> BY <1>8 DEF BeginsCapture, inStep
  <2>2. Rest(Tail(todo)) /\ Current \in Kinds BY <2>1, RestMoves DEF Current
  <2>3. CASE over
    <3>1. [name |-> Current, status |-> "timeout"] \in Stages BY <2>2 DEF Stages
    <3>2. stages' = Append(stages, [name |-> Current, status |-> "timeout"])
      BY <1>8, <2>3 DEF BeginsCapture, record
    <3>3. stages' \in Seq(Stages) BY <3>1, <3>2
    <3>4. /\ todo' = Tail(todo)
          /\ UNCHANGED <<step, order, tabPage, url, over, noted, tab, bodies>>
      BY <1>8, <2>3 DEF BeginsCapture, tabVars, ending
    <3> QED BY <2>2, <3>3, <3>4 DEF Notes
  <2>4. CASE ~over BY <1>8, <2>4 DEF BeginsCapture, inStep, begin_stage, tabVars, ending, Notes
  <2> QED BY <2>3, <2>4
<1>9. CASE BodyNotAskedFor
  <2>1. Rest(todo) /\ todo # <<>> BY <1>9 DEF BodyNotAskedFor, inStep
  <2>2. Rest(Tail(todo)) /\ Current \in Kinds BY <2>1, RestMoves DEF Current
  <2> QED BY <1>9, <2>2 DEF BodyNotAskedFor, inStep, tabVars, trace, ending, Notes
<1>10. CASE EndsCapture
  <2>1. Rest(todo) /\ todo # <<>> /\ step = "capturing" BY <1>10 DEF EndsCapture, inStep
  <2>2. Rest(Tail(todo)) /\ Current \in Kinds BY <2>1, RestMoves DEF Current
  <2>3. active = <<Current>> BY <2>1 DEF CaptureIsInOrder
  <2>4. PICK end : Finishes(Current, end) BY <1>10 DEF EndsCapture
  <2>5. PICK status \in {"ok", "timeout", "error"} :
          stages' = Append(stages, [name |-> Current, status |-> status])
    BY <2>3, <2>4, OneStageEnds
  <2>6. [name |-> Current, status |-> status] \in Stages BY <2>2 DEF Stages
  <2>7. stages' \in Seq(Stages) BY <2>5, <2>6
  <2> QED BY <1>10, <2>2, <2>7 DEF EndsCapture, inStep, tabVars, ending, Notes
<1>11. CASE FinishesUnwantedNetwork
  <2>1. Rest(<<>>) BY ArtifactList DEF Rest
  <2> QED BY <1>11, <2>1 DEF FinishesUnwantedNetwork, inStep, tabVars, trace, ending, Notes
<1>12. ASSUME NEW r \in DOMAIN Bodies, CapturesBody(r) PROVE CaptureTypes'
  <2>1. bodies' \in [DOMAIN Bodies -> {"left", "kept", "cut", "skipped", "failed", "unread"}]
    BY <1>12 DEF CapturesBody, bodyKept
  <2> QED BY <1>12, <2>1 DEF CapturesBody, inStep, tabVars, trace, ending, Notes
<1>13. CASE EndsBodies
  <2>1. Rest(todo) /\ todo # <<>> /\ step = "capturing" BY <1>13 DEF EndsBodies, inStep
  <2>2. Rest(Tail(todo)) /\ Current \in Kinds BY <2>1, RestMoves DEF Current
  <2>3. active = <<Current>> BY <2>1 DEF CaptureIsInOrder
  <2>4. PICK end : Finishes(Current, end)
    <3>1. Current = "bodies" BY <1>13 DEF EndsBodies
    <3> QED BY <1>13, <2>3, <3>1, BodiesEnd
  <2>5. PICK status \in {"ok", "timeout", "error"} :
          stages' = Append(stages, [name |-> Current, status |-> status])
    BY <2>3, <2>4, OneStageEnds
  <2>6. [name |-> Current, status |-> status] \in Stages BY <2>2 DEF Stages
  <2>7. stages' \in Seq(Stages) BY <2>5, <2>6
  <2> QED BY <1>13, <2>2, <2>7 DEF EndsBodies, inStep, tabVars, ending, Notes
<1>14. CASE SyncsJar
  BY <1>14 DEF SyncsJar, tabVars, trace, ending, Notes
<1>15. CASE JudgesAndCloses
  <2>1. PICK closed \in BOOLEAN : tab' = [tab EXCEPT !.open = ~closed, !.named = ~closed]
    BY <1>15 DEF JudgesAndCloses
  <2>2. tab' \in [open : BOOLEAN, named : BOOLEAN, retained : BOOLEAN]
    <3>1. CASE closed BY <2>1, <3>1
    <3>2. CASE ~closed BY <2>1, <3>2
    <3> QED BY <3>1, <3>2
  <2>3. /\ UNCHANGED <<order, tabPage, url, over, todo, noted, files, bodies, stages>>
        /\ step' = "end"
    BY <1>15 DEF JudgesAndCloses, tabVars, trace, Notes
  <2> QED BY <2>2, <2>3 DEF Notes
<1>16. CASE UNCHANGED captureVars
  BY <1>16 DEF captureVars, tabVars, evidence, trace, ending, Notes
<1> QED
  BY <1>1, <1>2, <1>3, <1>4, <1>5, <1>6, <1>7, <1>8, <1>9, <1>10, <1>11, <1>12, <1>13, <1>14,
     <1>15, <1>16
     DEF CaptureNext

\* What is left and under way follows where the fetch is.
LEMMA CaptureIsInOrderStep ==
  ASSUME CaptureTypes, CaptureIsInOrder, [CaptureNext]_captureVars
  PROVE  CaptureIsInOrder'
<1>1. CASE Commits
  BY <1>1 DEF Commits, evidence, trace, ending, CaptureIsInOrder, Early, Done, Current
<1>2. CASE Expires
  BY <1>2 DEF Expires, evidence, trace, ending, CaptureIsInOrder, Early, Done, Current
<1>3. CASE wait_for_navigation_commit
  BY <1>3
     DEF wait_for_navigation_commit, Fails, finish_failed_target, tabVars, evidence, trace,
         ending, CaptureIsInOrder, Early, Done, Current
<1>4. CASE evaluate_after_wait
  <2>1. \A end \in run_result({"cdp_error"}) : end # "none" BY DEF run_result
  <2> QED
    BY <1>4, <2>1
       DEF evaluate_after_wait, Fails, finish_failed_target, tabVars, evidence, trace,
           CaptureIsInOrder, Early, Done, Current
<1>5. CASE ObservesMain
  BY <1>5 DEF ObservesMain, tabVars, trace, ending, CaptureIsInOrder, Early, Done, Current
<1>6. CASE CapturesSnapshot
  <2>1. \A f, s : validate_navigation_capture(f, s) # "none" BY DEF validate_navigation_capture
  <2>2. \/ step' = "capture" /\ UNCHANGED outcome
        \/ \E snap, f : step' = "end" /\ outcome' = validate_navigation_capture(f, snap) /\ outcome' # "ok"
    BY <1>6 DEF CapturesSnapshot, Fails
  <2>3. step = "snapshot" /\ UNCHANGED <<todo, stages, files, active>>
    BY <1>6 DEF CapturesSnapshot, tabVars, trace
  <2> QED BY <2>1, <2>2, <2>3 DEF CaptureIsInOrder, Early, Done, Current
<1>7. CASE SkipsArtifact
  BY <1>7
     DEF SkipsArtifact, inStep, tabVars, evidence, trace, ending, CaptureIsInOrder, Early,
         Done, Current
<1>8. CASE BeginsCapture
  <2>1. active = <<>> /\ step = "capture" /\ todo # <<>>
    BY <1>8 DEF BeginsCapture, inStep, CaptureIsInOrder
  <2>2. begun(Current) = <<Current>> BY <2>1 DEF begun, onTop
  <2> QED
    BY <1>8, <2>1, <2>2
       DEF BeginsCapture, inStep, begin_stage, tabVars, ending, CaptureIsInOrder, Early, Done,
           Current
<1>9. CASE BodyNotAskedFor
  BY <1>9
     DEF BodyNotAskedFor, inStep, tabVars, trace, ending, CaptureIsInOrder, Early, Done, Current
<1>10. CASE EndsCapture
  <2>1. step = "capturing" /\ active = <<Current>>
    BY <1>10 DEF EndsCapture, inStep, CaptureIsInOrder
  <2>2. active' = <<>> BY <1>10, <2>1, OneStageEnds DEF EndsCapture
  <2> QED
    BY <1>10, <2>1, <2>2 DEF EndsCapture, inStep, tabVars, ending, CaptureIsInOrder, Early, Done
<1>11. CASE FinishesUnwantedNetwork
  BY <1>11
     DEF FinishesUnwantedNetwork, inStep, tabVars, trace, ending, CaptureIsInOrder, Early,
         Done, Current
<1>12. ASSUME NEW r \in DOMAIN Bodies, CapturesBody(r) PROVE CaptureIsInOrder'
  BY <1>12
     DEF CapturesBody, inStep, tabVars, trace, ending, CaptureIsInOrder, Early, Done, Current
<1>13. CASE EndsBodies
  <2>1. step = "capturing" /\ active = <<Current>>
    BY <1>13 DEF EndsBodies, inStep, CaptureIsInOrder
  <2>2. active' = <<>>
    <3>1. Current = "bodies" BY <1>13 DEF EndsBodies
    <3>2. \E end : Finishes(Current, end) BY <1>13, <2>1, <3>1, BodiesEnd
    <3> QED BY <2>1, <3>2, OneStageEnds
  <2> QED
    BY <1>13, <2>1, <2>2 DEF EndsBodies, inStep, tabVars, ending, CaptureIsInOrder, Early, Done
<1>14. CASE SyncsJar
  BY <1>14 DEF SyncsJar, tabVars, trace, ending, CaptureIsInOrder, Early, Done, Current
<1>15. CASE JudgesAndCloses
  BY <1>15 DEF JudgesAndCloses, tabVars, trace, CaptureIsInOrder, Early, Done, Current
<1>16. CASE UNCHANGED captureVars
  BY <1>16
     DEF captureVars, tabVars, evidence, trace, ending, CaptureIsInOrder, Early, Done, Current
<1> QED
  BY <1>1, <1>2, <1>3, <1>4, <1>5, <1>6, <1>7, <1>8, <1>9, <1>10, <1>11, <1>12, <1>13, <1>14,
     <1>15, <1>16
     DEF CaptureNext

\* What a recorded stage adds: one more of its name, after the others.
LEMMA RecordAdds ==
  ASSUME CaptureTypes, NEW a \in Kinds, NEW status \in {"ok", "timeout", "error"},
         stages' = Append(stages, [name |-> a, status |-> status])
  PROVE  /\ Len(stages') = Len(stages) + 1 /\ Len(stages) \in Nat
         /\ \A i \in 1 .. Len(stages) : stages'[i] = stages[i]
         /\ stages'[Len(stages')].name = a /\ stages'[Len(stages')].status = status
<1>1. stages \in Seq(Stages) BY DEF CaptureTypes
<1>2. [name |-> a, status |-> status] \in Stages BY DEF Stages
<1> QED BY <1>1, <1>2

\* Recording the next artifact's stage and going on keeps one stage for each.
LEMMA RecordsOnce ==
  ASSUME CaptureTypes, StagesToldOnce, todo # <<>>, todo' = Tail(todo),
         NEW status \in {"ok", "timeout", "error"},
         stages' = Append(stages, [name |-> Current, status |-> status])
  PROVE  StagesToldOnce'
<1>1. Rest(todo) BY DEF CaptureTypes
<1>2. /\ Current \in Kinds
      /\ Current \notin Before(todo)
      /\ Before(todo') = Before(todo) \cup {Current}
  BY <1>1, RestMoves DEF Current
<1>3. /\ Len(stages') = Len(stages) + 1 /\ Len(stages) \in Nat
      /\ \A i \in 1 .. Len(stages) : stages'[i] = stages[i]
      /\ stages'[Len(stages')].name = Current
  BY <1>2, RecordAdds
<1>4. \A i \in 1 .. Len(stages') : i \in 1 .. Len(stages) \/ i = Len(stages') BY <1>3
<1>5. \A i \in 1 .. Len(stages') : stages'[i].name \in Before(todo')
  BY <1>2, <1>3, <1>4 DEF StagesToldOnce
<1>6. \A i, j \in 1 .. Len(stages') : stages'[i].name = stages'[j].name => i = j
  <2>1. \A i \in 1 .. Len(stages) : stages'[i].name # Current
    BY <1>2, <1>3 DEF StagesToldOnce
  <2> QED BY <1>3, <1>4, <2>1 DEF StagesToldOnce
<1> QED BY <1>5, <1>6 DEF StagesToldOnce

\* Going on without a stage does too.
LEMMA GoesOn ==
  ASSUME CaptureTypes, StagesToldOnce, todo # <<>>, todo' = Tail(todo), UNCHANGED stages
  PROVE  StagesToldOnce'
<1>1. Rest(todo) BY DEF CaptureTypes
<1>2. Before(todo') = Before(todo) \cup {Current} BY <1>1, RestMoves DEF Current
<1> QED BY <1>2 DEF StagesToldOnce

\* What a capture leaves behind, however it ends.
LEMMA CaptureEnds ==
  ASSUME EndsCapture
  PROVE  \E end :
           /\ Finishes(Current, end) /\ warned \subseteq warned' /\ files \subseteq files'
           /\ end # "ok" => files' = files /\ \E w \in warned' : w[1] = Current
           /\ files' \subseteq files \cup {Current}
           /\ Current = "network" /\ tabPage.loss => \E w \in warned' : w[1] = "network"
<1>1. PICK end \in run_result(faults[Current]), written \in BOOLEAN :
        /\ Finishes(Current, end)
        /\ IF end # "ok"
            THEN warned' = warned \cup {<<Current, codeOf(Current, end)>>} /\ UNCHANGED files
            ELSE /\ files' = files \cup IF written THEN {Current} ELSE {}
                 /\ warned' = warned \cup size_warning(Current)
                      \cup (IF written \/ Current \in SilentlyUnwritten THEN {}
                                                         ELSE {<<Current, "io_error">>})
                      \cup (IF Current = "network" /\ tabPage.loss
                              THEN {<<"network", "artifact_capture_failed">>} ELSE {})
  BY Zenon DEF EndsCapture
<1>2. CASE end # "ok"
  <2>1. warned' = warned \cup {<<Current, codeOf(Current, end)>>} /\ files' = files
    BY <1>1, <1>2
  <2>2. <<Current, codeOf(Current, end)>> \in warned' BY <2>1
  <2>3. <<Current, codeOf(Current, end)>>[1] = Current OBVIOUS
  <2>4. \E w \in warned' : w[1] = Current BY <2>2, <2>3
  <2> QED BY <1>1, <2>1, <2>4
<1>3. CASE end = "ok"
  <2>1. Current = "network" /\ tabPage.loss => <<"network", "artifact_capture_failed">> \in warned'
    BY <1>1, <1>3
  <2>2. <<"network", "artifact_capture_failed">>[1] = "network" OBVIOUS
  <2>3. /\ warned \subseteq warned'
        /\ files \subseteq files'
        /\ files' \subseteq files \cup {Current}
    BY <1>1, <1>3
  <2> QED BY <1>1, <1>3, <2>1, <2>2, <2>3
<1> QED BY <1>2, <1>3

\* The trace tells of each artifact once (deadline.rs).
LEMMA StagesToldOnceStep ==
  ASSUME CaptureTypes, CaptureIsInOrder, StagesToldOnce, [CaptureNext]_captureVars
  PROVE  StagesToldOnce'
<1>1. CASE Commits
  BY <1>1 DEF Commits, evidence, trace, ending, StagesToldOnce
<1>2. CASE Expires
  BY <1>2 DEF Expires, evidence, trace, ending, StagesToldOnce
<1>3. CASE wait_for_navigation_commit
  BY <1>3
     DEF wait_for_navigation_commit, Fails, finish_failed_target, tabVars, evidence, trace,
         ending, StagesToldOnce
<1>4. CASE evaluate_after_wait
  BY <1>4
     DEF evaluate_after_wait, Fails, finish_failed_target, tabVars, evidence, trace,
         StagesToldOnce
<1>5. CASE ObservesMain
  BY <1>5 DEF ObservesMain, tabVars, trace, ending, StagesToldOnce
<1>6. CASE CapturesSnapshot
  BY <1>6 DEF CapturesSnapshot, Fails, finish_failed_target, tabVars, trace, StagesToldOnce
<1>7. CASE SkipsArtifact
  BY <1>7, GoesOn DEF SkipsArtifact, inStep, tabVars, evidence, trace, ending
<1>8. CASE BeginsCapture
  <2>1. todo # <<>> /\ UNCHANGED <<order, tabPage, files, bodies, noted, review>>
    BY <1>8 DEF BeginsCapture, inStep, tabVars, ending
  <2>2. CASE over
    <3>1. /\ todo' = Tail(todo)
          /\ stages' = Append(stages, [name |-> Current, status |-> "timeout"])
          /\ warned' = warned \cup {<<Current, "navigation_timeout">>}
      BY <1>8, <2>2 DEF BeginsCapture, record
    <3> QED BY <2>1, <3>1, RecordsOnce
  <2>3. CASE ~over
    <3>1. UNCHANGED <<todo, stages, warned>> BY <1>8, <2>3 DEF BeginsCapture, begin_stage
    <3> QED BY <2>1, <3>1 DEF StagesToldOnce
  <2> QED BY <2>2, <2>3
<1>9. CASE BodyNotAskedFor
  BY <1>9, GoesOn DEF BodyNotAskedFor, inStep, tabVars, trace, ending
<1>10. CASE EndsCapture
  <2>1. Rest(todo) /\ todo # <<>> /\ step = "capturing"
    BY <1>10 DEF EndsCapture, CaptureTypes, inStep
  <2>2. Rest(Tail(todo)) /\ Current \in Kinds BY <2>1, RestMoves DEF Current
  <2>3. active = <<Current>> BY <2>1 DEF CaptureIsInOrder
  <2>4. PICK end :
          /\ Finishes(Current, end) /\ warned \subseteq warned' /\ files \subseteq files'
          /\ end # "ok" => files' = files /\ \E w \in warned' : w[1] = Current
          /\ files' \subseteq files \cup {Current}
          /\ Current = "network" /\ tabPage.loss => \E w \in warned' : w[1] = "network"
    BY <1>10, CaptureEnds
  <2>5. PICK status \in {"ok", "timeout", "error"} :
          /\ stages' = Append(stages, [name |-> Current, status |-> status])
          /\ end = "ok" <=> status = "ok"
    BY <2>3, <2>4, OneStageEnds
  <2>6. todo' = Tail(todo) /\ UNCHANGED <<order, tabPage, bodies, noted, review>>
    BY <1>10 DEF EndsCapture, tabVars, ending
  <2> QED BY <2>1, <2>5, <2>6, RecordsOnce
<1>11. CASE FinishesUnwantedNetwork
  <2>1. Before(todo') = Kinds BY <1>11, RestEnds DEF FinishesUnwantedNetwork
  <2>2. Before(todo) \subseteq Kinds BY ArtifactList DEF Before, Kinds, CaptureTypes, Rest
  <2> QED
    BY <1>11, <2>1, <2>2
       DEF FinishesUnwantedNetwork, inStep, tabVars, trace, ending, StagesToldOnce
<1>12. ASSUME NEW r \in DOMAIN Bodies, CapturesBody(r) PROVE StagesToldOnce'
  BY <1>12 DEF CapturesBody, inStep, tabVars, trace, ending, StagesToldOnce
<1>13. CASE EndsBodies
  <2>1. Rest(todo) /\ todo # <<>> /\ step = "capturing"
    BY <1>13 DEF EndsBodies, CaptureTypes, inStep
  <2>2. Rest(Tail(todo)) /\ Current \in Kinds BY <2>1, RestMoves DEF Current
  <2>3. active = <<Current>> BY <2>1 DEF CaptureIsInOrder
  <2>4. Current = "bodies" BY <1>13 DEF EndsBodies
  <2>5. \E end : Finishes(Current, end) BY <1>13, <2>3, <2>4, BodiesEnd
  <2>6. PICK status \in {"ok", "timeout", "error"} :
          stages' = Append(stages, [name |-> Current, status |-> status])
    BY <2>3, <2>5, OneStageEnds
  <2>7. /\ todo' = Tail(todo)
        /\ warned \subseteq warned'
        /\ UNCHANGED <<order, tabPage, noted, files, review>>
    BY <1>13 DEF EndsBodies, tabVars, ending
  <2> QED BY <2>1, <2>6, <2>7, RecordsOnce
<1>14. CASE SyncsJar
  BY <1>14 DEF SyncsJar, tabVars, trace, ending, StagesToldOnce
<1>15. CASE JudgesAndCloses
  BY <1>15 DEF JudgesAndCloses, tabVars, trace, StagesToldOnce
<1>16. CASE UNCHANGED captureVars
  BY <1>16 DEF captureVars, tabVars, evidence, trace, ending, StagesToldOnce
<1> QED
  BY <1>1, <1>2, <1>3, <1>4, <1>5, <1>6, <1>7, <1>8, <1>9, <1>10, <1>11, <1>12, <1>13, <1>14,
     <1>15, <1>16
     DEF CaptureNext

\* No file is left of a capture that failed.
LEMMA FilesWereCapturedStep ==
  ASSUME CaptureTypes, CaptureIsInOrder, FilesWereCaptured, [CaptureNext]_captureVars
  PROVE  FilesWereCaptured'
<1>1. CASE Commits
  BY <1>1 DEF Commits, evidence, trace, ending, FilesWereCaptured
<1>2. CASE Expires
  BY <1>2 DEF Expires, evidence, trace, ending, FilesWereCaptured
<1>3. CASE wait_for_navigation_commit
  BY <1>3
     DEF wait_for_navigation_commit, Fails, finish_failed_target, tabVars, evidence, trace,
         ending, FilesWereCaptured
<1>4. CASE evaluate_after_wait
  BY <1>4
     DEF evaluate_after_wait, Fails, finish_failed_target, tabVars, evidence, trace,
         FilesWereCaptured
<1>5. CASE ObservesMain
  BY <1>5 DEF ObservesMain, tabVars, trace, ending, FilesWereCaptured
<1>6. CASE CapturesSnapshot
  BY <1>6 DEF CapturesSnapshot, Fails, finish_failed_target, tabVars, trace, FilesWereCaptured
<1>7. CASE SkipsArtifact
  BY <1>7 DEF SkipsArtifact, inStep, tabVars, evidence, trace, ending, FilesWereCaptured
<1>8. CASE BeginsCapture
  <2>1. todo # <<>> /\ UNCHANGED <<order, tabPage, files, bodies, noted, review>>
    BY <1>8 DEF BeginsCapture, inStep, tabVars, ending
  <2>2. CASE over
    <3>1. /\ todo' = Tail(todo)
          /\ stages' = Append(stages, [name |-> Current, status |-> "timeout"])
          /\ warned' = warned \cup {<<Current, "navigation_timeout">>}
      BY <1>8, <2>2 DEF BeginsCapture, record
    <3>2. Rest(todo) BY DEF CaptureTypes
    <3>3. Current \in Kinds BY <2>1, <3>2, RestMoves DEF Current
    <3> QED BY <2>1, <3>1, <3>3, RecordAdds DEF FilesWereCaptured
  <2>3. CASE ~over
    <3>1. UNCHANGED <<todo, stages, warned>> BY <1>8, <2>3 DEF BeginsCapture, begin_stage
    <3> QED BY <2>1, <3>1 DEF FilesWereCaptured
  <2> QED BY <2>2, <2>3
<1>9. CASE BodyNotAskedFor
  BY <1>9 DEF BodyNotAskedFor, inStep, tabVars, trace, ending, FilesWereCaptured
<1>10. CASE EndsCapture
  <2>1. Rest(todo) /\ todo # <<>> /\ step = "capturing"
    BY <1>10 DEF EndsCapture, CaptureTypes, inStep
  <2>2. Rest(Tail(todo)) /\ Current \in Kinds BY <2>1, RestMoves DEF Current
  <2>3. active = <<Current>> BY <2>1 DEF CaptureIsInOrder
  <2>4. PICK end :
          /\ Finishes(Current, end) /\ warned \subseteq warned' /\ files \subseteq files'
          /\ end # "ok" => files' = files /\ \E w \in warned' : w[1] = Current
          /\ files' \subseteq files \cup {Current}
          /\ Current = "network" /\ tabPage.loss => \E w \in warned' : w[1] = "network"
    BY <1>10, CaptureEnds
  <2>5. PICK status \in {"ok", "timeout", "error"} :
          /\ stages' = Append(stages, [name |-> Current, status |-> status])
          /\ end = "ok" <=> status = "ok"
    BY <2>3, <2>4, OneStageEnds
  <2>6. todo' = Tail(todo) /\ UNCHANGED <<order, tabPage, bodies, noted, review>>
    BY <1>10 DEF EndsCapture, tabVars, ending
  <2>7. /\ Len(stages') = Len(stages) + 1 /\ Len(stages) \in Nat
        /\ \A i \in 1 .. Len(stages) : stages'[i] = stages[i]
        /\ stages'[Len(stages')].name = Current /\ stages'[Len(stages')].status = status
    BY <2>2, <2>5, RecordAdds
  <2>8. Len(stages') \in 1 .. Len(stages') /\ 1 .. Len(stages) \subseteq 1 .. Len(stages')
    BY <2>7
  <2>9. \A a \in files' : a \in files \/ (a = Current /\ status = "ok") BY <2>4, <2>5
  <2> QED BY <2>7, <2>8, <2>9 DEF FilesWereCaptured
<1>11. CASE FinishesUnwantedNetwork
  BY <1>11 DEF FinishesUnwantedNetwork, inStep, tabVars, trace, ending, FilesWereCaptured
<1>12. ASSUME NEW r \in DOMAIN Bodies, CapturesBody(r) PROVE FilesWereCaptured'
  BY <1>12 DEF CapturesBody, inStep, tabVars, trace, ending, FilesWereCaptured
<1>13. CASE EndsBodies
  <2>1. Rest(todo) /\ todo # <<>> /\ step = "capturing"
    BY <1>13 DEF EndsBodies, CaptureTypes, inStep
  <2>2. Rest(Tail(todo)) /\ Current \in Kinds BY <2>1, RestMoves DEF Current
  <2>3. active = <<Current>> BY <2>1 DEF CaptureIsInOrder
  <2>4. Current = "bodies" BY <1>13 DEF EndsBodies
  <2>5. \E end : Finishes(Current, end) BY <1>13, <2>3, <2>4, BodiesEnd
  <2>6. PICK status \in {"ok", "timeout", "error"} :
          stages' = Append(stages, [name |-> Current, status |-> status])
    BY <2>3, <2>5, OneStageEnds
  <2>7. /\ todo' = Tail(todo)
        /\ warned \subseteq warned'
        /\ UNCHANGED <<order, tabPage, noted, files, review>>
    BY <1>13 DEF EndsBodies, tabVars, ending
  <2>8. /\ Len(stages') = Len(stages) + 1 /\ Len(stages) \in Nat
        /\ \A i \in 1 .. Len(stages) : stages'[i] = stages[i]
    BY <2>2, <2>6, RecordAdds
  <2> QED BY <2>7, <2>8 DEF FilesWereCaptured
<1>14. CASE SyncsJar
  BY <1>14 DEF SyncsJar, tabVars, trace, ending, FilesWereCaptured
<1>15. CASE JudgesAndCloses
  BY <1>15 DEF JudgesAndCloses, tabVars, trace, FilesWereCaptured
<1>16. CASE UNCHANGED captureVars
  BY <1>16 DEF captureVars, tabVars, evidence, trace, ending, FilesWereCaptured
<1> QED
  BY <1>1, <1>2, <1>3, <1>4, <1>5, <1>6, <1>7, <1>8, <1>9, <1>10, <1>11, <1>12, <1>13, <1>14,
     <1>15, <1>16
     DEF CaptureNext

\* Where a warning is only added to, what was told stays told.
LEMMA ToldStaysTold ==
  ASSUME CaptureTypes, FailuresAreWarnedOf, warned \subseteq warned', UNCHANGED order,
         stages' = stages \/ \E a \in Kinds, status \in {"ok", "timeout", "error"} :
                               stages' = Append(stages, [name |-> a, status |-> status])
  PROVE  \A a \in Before(todo) \ {"bodies"} :
           \/ a \notin order'.wanted
           \/ \E i \in 1 .. Len(stages') : stages'[i].name = a /\ stages'[i].status = "ok"
           \/ \E w \in warned' : w[1] = a
<1>1. \A i \in 1 .. Len(stages) : i \in 1 .. Len(stages') /\ stages'[i] = stages[i]
  <2>1. CASE stages' = stages BY <2>1
  <2>2. CASE stages' # stages
    <3>1. PICK a \in Kinds, status \in {"ok", "timeout", "error"} :
            stages' = Append(stages, [name |-> a, status |-> status])
      BY <2>2
    <3> QED BY <3>1, RecordAdds
  <2> QED BY <2>1, <2>2
<1> QED BY <1>1 DEF FailuresAreWarnedOf

\* Going on to the next artifact leaves none untold of when the one behind is told of.
LEMMA NextIsToldOf ==
  ASSUME CaptureTypes, todo # <<>>, todo' = Tail(todo),
         \A a \in (Before(todo) \cup {Current}) \ {"bodies"} :
           \/ a \notin order'.wanted
           \/ \E i \in 1 .. Len(stages') : stages'[i].name = a /\ stages'[i].status = "ok"
           \/ \E w \in warned' : w[1] = a
  PROVE  FailuresAreWarnedOf'
<1>1. Before(todo') = Before(todo) \cup {Current} BY RestMoves DEF CaptureTypes, Current
<1> QED BY <1>1 DEF FailuresAreWarnedOf

\* What was wanted and failed is warned of (capture.rs).
LEMMA FailuresAreWarnedOfStep ==
  ASSUME CaptureTypes, CaptureIsInOrder, FailuresAreWarnedOf, [CaptureNext]_captureVars
  PROVE  FailuresAreWarnedOf'
<1>1. CASE Commits
  BY <1>1 DEF Commits, evidence, trace, ending, FailuresAreWarnedOf
<1>2. CASE Expires
  BY <1>2 DEF Expires, evidence, trace, ending, FailuresAreWarnedOf
<1>3. CASE wait_for_navigation_commit
  BY <1>3
     DEF wait_for_navigation_commit, Fails, finish_failed_target, tabVars, evidence, trace,
         ending, FailuresAreWarnedOf
<1>4. CASE evaluate_after_wait
  BY <1>4
     DEF evaluate_after_wait, Fails, finish_failed_target, tabVars, evidence, trace,
         FailuresAreWarnedOf
<1>5. CASE ObservesMain
  BY <1>5 DEF ObservesMain, tabVars, trace, ending, FailuresAreWarnedOf
<1>6. CASE CapturesSnapshot
  BY <1>6 DEF CapturesSnapshot, Fails, finish_failed_target, tabVars, trace, FailuresAreWarnedOf
<1>7. CASE SkipsArtifact
  <2>1. /\ todo # <<>> /\ todo' = Tail(todo) /\ UNCHANGED <<order, stages, warned>>
        /\ Current \notin order.wanted
    BY <1>7 DEF SkipsArtifact, inStep, tabVars, evidence, trace, ending, captured
  <2>2. \A a \in Before(todo) \ {"bodies"} :
          \/ a \notin order'.wanted
          \/ \E i \in 1 .. Len(stages') : stages'[i].name = a /\ stages'[i].status = "ok"
          \/ \E w \in warned' : w[1] = a
    BY <2>1, ToldStaysTold
  <2> QED BY <2>1, <2>2, NextIsToldOf
<1>8. CASE BeginsCapture
  <2>1. todo # <<>> /\ UNCHANGED <<order, tabPage, files, bodies, noted, review>>
    BY <1>8 DEF BeginsCapture, inStep, tabVars, ending
  <2>2. CASE over
    <3>1. /\ todo' = Tail(todo)
          /\ stages' = Append(stages, [name |-> Current, status |-> "timeout"])
          /\ warned' = warned \cup {<<Current, "navigation_timeout">>}
      BY <1>8, <2>2 DEF BeginsCapture, record
    <3>2. Rest(todo) BY DEF CaptureTypes
    <3>3. Current \in Kinds BY <2>1, <3>2, RestMoves DEF Current
    <3>4. \A a \in Before(todo) \ {"bodies"} :
          \/ a \notin order'.wanted
          \/ \E i \in 1 .. Len(stages') : stages'[i].name = a /\ stages'[i].status = "ok"
          \/ \E w \in warned' : w[1] = a
      BY <2>1, <3>1, <3>3, ToldStaysTold
    <3>5. <<Current, "navigation_timeout">>[1] = Current OBVIOUS
    <3> QED BY <2>1, <3>1, <3>4, <3>5, NextIsToldOf
  <2>3. CASE ~over
    <3>1. UNCHANGED <<todo, stages, warned>> BY <1>8, <2>3 DEF BeginsCapture, begin_stage
    <3> QED BY <2>1, <3>1 DEF FailuresAreWarnedOf
  <2> QED BY <2>2, <2>3
<1>9. CASE BodyNotAskedFor
  <2>1. /\ todo # <<>> /\ todo' = Tail(todo) /\ UNCHANGED <<order, stages>>
        /\ Current = "body" /\ warned \subseteq warned'
    BY <1>9 DEF BodyNotAskedFor, inStep, tabVars, trace, ending, FailuresAreWarnedOf
  <2>2. PICK code : <<"body", code>> \in warned' BY <1>9 DEF BodyNotAskedFor
  <2>3. <<"body", code>>[1] = "body" OBVIOUS
  <2>4. \A a \in Before(todo) \ {"bodies"} :
          \/ a \notin order'.wanted
          \/ \E i \in 1 .. Len(stages') : stages'[i].name = a /\ stages'[i].status = "ok"
          \/ \E w \in warned' : w[1] = a
    BY <2>1, ToldStaysTold
  <2> QED BY <2>1, <2>2, <2>3, <2>4, NextIsToldOf
<1>10. CASE EndsCapture
  <2>1. Rest(todo) /\ todo # <<>> /\ step = "capturing"
    BY <1>10 DEF EndsCapture, CaptureTypes, inStep
  <2>2. Rest(Tail(todo)) /\ Current \in Kinds BY <2>1, RestMoves DEF Current
  <2>3. active = <<Current>> BY <2>1 DEF CaptureIsInOrder
  <2>4. PICK end :
          /\ Finishes(Current, end) /\ warned \subseteq warned' /\ files \subseteq files'
          /\ end # "ok" => files' = files /\ \E w \in warned' : w[1] = Current
          /\ files' \subseteq files \cup {Current}
          /\ Current = "network" /\ tabPage.loss => \E w \in warned' : w[1] = "network"
    BY <1>10, CaptureEnds
  <2>5. PICK status \in {"ok", "timeout", "error"} :
          /\ stages' = Append(stages, [name |-> Current, status |-> status])
          /\ end = "ok" <=> status = "ok"
    BY <2>3, <2>4, OneStageEnds
  <2>6. todo' = Tail(todo) /\ UNCHANGED <<order, tabPage, bodies, noted, review>>
    BY <1>10 DEF EndsCapture, tabVars, ending
  <2>7. \A a \in Before(todo) \ {"bodies"} :
          \/ a \notin order'.wanted
          \/ \E i \in 1 .. Len(stages') : stages'[i].name = a /\ stages'[i].status = "ok"
          \/ \E w \in warned' : w[1] = a
    BY <2>2, <2>4, <2>5, <2>6, ToldStaysTold
  <2>8. (\E i \in 1 .. Len(stages') : stages'[i].name = Current /\ stages'[i].status = "ok")
        \/ \E w \in warned' : w[1] = Current
    <3>1. /\ Len(stages') = Len(stages) + 1 /\ Len(stages) \in Nat
          /\ stages'[Len(stages')].name = Current /\ stages'[Len(stages')].status = status
      BY <2>2, <2>5, RecordAdds
    <3>2. Len(stages') \in 1 .. Len(stages') BY <3>1
    <3> QED BY <2>4, <2>5, <3>1, <3>2
  <2> QED BY <2>1, <2>6, <2>7, <2>8, NextIsToldOf
<1>11. CASE FinishesUnwantedNetwork
  <2>1. /\ Rest(todo) /\ todo # <<>> /\ Current = "network" /\ "network" \notin order.wanted
        /\ todo' = <<>> /\ UNCHANGED <<order, stages>> /\ warned \subseteq warned'
    BY <1>11 DEF FinishesUnwantedNetwork, inStep, tabVars, trace, ending, captured, CaptureTypes
  <2>2. Before(<<>>) = Before(todo) \cup {"network"} BY <2>1, NetworkIsLast DEF Current
  <2>3. \A a \in Before(todo) \ {"bodies"} :
          \/ a \notin order'.wanted
          \/ \E i \in 1 .. Len(stages') : stages'[i].name = a /\ stages'[i].status = "ok"
          \/ \E w \in warned' : w[1] = a
    BY <2>1, ToldStaysTold
  <2> QED BY <2>1, <2>2, <2>3 DEF FailuresAreWarnedOf
<1>12. ASSUME NEW r \in DOMAIN Bodies, CapturesBody(r) PROVE FailuresAreWarnedOf'
  BY <1>12 DEF CapturesBody, inStep, tabVars, trace, ending, FailuresAreWarnedOf
<1>13. CASE EndsBodies
  <2>1. Rest(todo) /\ todo # <<>> /\ step = "capturing"
    BY <1>13 DEF EndsBodies, CaptureTypes, inStep
  <2>2. Rest(Tail(todo)) /\ Current \in Kinds BY <2>1, RestMoves DEF Current
  <2>3. active = <<Current>> BY <2>1 DEF CaptureIsInOrder
  <2>4. Current = "bodies" BY <1>13 DEF EndsBodies
  <2>5. \E end : Finishes(Current, end) BY <1>13, <2>3, <2>4, BodiesEnd
  <2>6. PICK status \in {"ok", "timeout", "error"} :
          stages' = Append(stages, [name |-> Current, status |-> status])
    BY <2>3, <2>5, OneStageEnds
  <2>7. /\ todo' = Tail(todo)
        /\ warned \subseteq warned'
        /\ UNCHANGED <<order, tabPage, noted, files, review>>
    BY <1>13 DEF EndsBodies, tabVars, ending
  <2>8. \A a \in Before(todo) \ {"bodies"} :
          \/ a \notin order'.wanted
          \/ \E i \in 1 .. Len(stages') : stages'[i].name = a /\ stages'[i].status = "ok"
          \/ \E w \in warned' : w[1] = a
    BY <2>2, <2>6, <2>7, ToldStaysTold
  <2> QED BY <2>1, <2>4, <2>7, <2>8, NextIsToldOf
<1>14. CASE SyncsJar
  BY <1>14 DEF SyncsJar, tabVars, trace, ending, FailuresAreWarnedOf
<1>15. CASE JudgesAndCloses
  BY <1>15 DEF JudgesAndCloses, tabVars, trace, FailuresAreWarnedOf
<1>16. CASE UNCHANGED captureVars
  BY <1>16 DEF captureVars, tabVars, evidence, trace, ending, FailuresAreWarnedOf
<1> QED
  BY <1>1, <1>2, <1>3, <1>4, <1>5, <1>6, <1>7, <1>8, <1>9, <1>10, <1>11, <1>12, <1>13, <1>14,
     <1>15, <1>16
     DEF CaptureNext

\* What passes the snapshot's judgement shows the page asked for (mod.rs).
LEMMA SnapshotIsOfThePageStep ==
  ASSUME CaptureTypes, SnapshotIsOfThePage, [CaptureNext]_captureVars
  PROVE  SnapshotIsOfThePage'
<1>1. CASE Commits
  BY <1>1 DEF Commits, evidence, trace, ending, SnapshotIsOfThePage
<1>2. CASE Expires
  BY <1>2 DEF Expires, evidence, trace, ending, SnapshotIsOfThePage
<1>3. CASE wait_for_navigation_commit
  BY <1>3
     DEF wait_for_navigation_commit, Fails, finish_failed_target, tabVars, evidence, trace,
         ending, SnapshotIsOfThePage
<1>4. CASE evaluate_after_wait
  BY <1>4
     DEF evaluate_after_wait, Fails, finish_failed_target, tabVars, evidence, trace,
         SnapshotIsOfThePage
<1>5. CASE ObservesMain
  BY <1>5 DEF ObservesMain, tabVars, trace, ending, SnapshotIsOfThePage
<1>6. CASE CapturesSnapshot
  <2>1. PICK snap \in BOOLEAN :
          \/ step' = "end"
          \/ /\ validate_navigation_capture(IF snap THEN url ELSE noted.final, snap) = "ok"
             /\ review' = Classifies(snap)
             /\ noted'.snap = snap
             /\ noted'.final = IF snap THEN url ELSE noted.final
    BY <1>6 DEF CapturesSnapshot, Fails, CaptureTypes, Notes
  <2> DEFINE final == IF snap THEN url ELSE noted.final
  <2>2. tabPage' = tabPage BY <1>6 DEF CapturesSnapshot, tabVars
  <2>3. CASE step' = "end" BY <2>3 DEF SnapshotIsOfThePage
  <2>4. CASE step' # "end"
    <3>1. final \in {"initial", "target", "blank"} BY DEF CaptureTypes, Notes
    <3>2. final # "blank" /\ final # "initial"
      BY <2>1, <2>4 DEF validate_navigation_capture, stayed, conflicting
    <3>3. review' = Classifies(snap) /\ noted'.final = final /\ noted'.snap = snap
      BY <2>1, <2>4
    <3> QED BY <2>2, <3>1, <3>2, <3>3 DEF SnapshotIsOfThePage, Classifies
  <2> QED BY <2>3, <2>4
<1>7. CASE SkipsArtifact
  BY <1>7 DEF SkipsArtifact, inStep, tabVars, evidence, trace, ending, SnapshotIsOfThePage
<1>8. CASE BeginsCapture
  BY <1>8 DEF BeginsCapture, inStep, begin_stage, tabVars, ending, SnapshotIsOfThePage
<1>9. CASE BodyNotAskedFor
  BY <1>9 DEF BodyNotAskedFor, inStep, tabVars, trace, ending, SnapshotIsOfThePage
<1>10. CASE EndsCapture
  BY <1>10 DEF EndsCapture, inStep, tabVars, ending, SnapshotIsOfThePage
<1>11. CASE FinishesUnwantedNetwork
  BY <1>11 DEF FinishesUnwantedNetwork, inStep, tabVars, trace, ending, SnapshotIsOfThePage
<1>12. ASSUME NEW r \in DOMAIN Bodies, CapturesBody(r) PROVE SnapshotIsOfThePage'
  BY <1>12 DEF CapturesBody, inStep, tabVars, trace, ending, SnapshotIsOfThePage
<1>13. CASE EndsBodies
  BY <1>13 DEF EndsBodies, inStep, tabVars, ending, SnapshotIsOfThePage
<1>14. CASE SyncsJar
  BY <1>14 DEF SyncsJar, tabVars, trace, ending, SnapshotIsOfThePage
<1>15. CASE JudgesAndCloses
  BY <1>15 DEF JudgesAndCloses, tabVars, trace, SnapshotIsOfThePage
<1>16. CASE UNCHANGED captureVars
  BY <1>16 DEF captureVars, tabVars, evidence, trace, ending, SnapshotIsOfThePage
<1> QED
  BY <1>1, <1>2, <1>3, <1>4, <1>5, <1>6, <1>7, <1>8, <1>9, <1>10, <1>11, <1>12, <1>13, <1>14,
     <1>15, <1>16
     DEF CaptureNext

\* What the log or a body lost is warned of (network_bodies.rs, capture.rs).
LEMMA LostIsWarnedOfStep ==
  ASSUME CaptureTypes, CaptureIsInOrder, LostIsWarnedOf, [CaptureNext]_captureVars
  PROVE  LostIsWarnedOf'
<1>1. CASE Commits
  BY <1>1 DEF Commits, evidence, trace, ending, LostIsWarnedOf, WarnsOfNetwork
<1>2. CASE Expires
  BY <1>2 DEF Expires, evidence, trace, ending, LostIsWarnedOf, WarnsOfNetwork
<1>3. CASE wait_for_navigation_commit
  BY <1>3
     DEF wait_for_navigation_commit, Fails, finish_failed_target, tabVars, evidence, trace,
         ending, LostIsWarnedOf, WarnsOfNetwork
<1>4. CASE evaluate_after_wait
  BY <1>4
     DEF evaluate_after_wait, Fails, finish_failed_target, tabVars, evidence, trace,
         LostIsWarnedOf, WarnsOfNetwork
<1>5. CASE ObservesMain
  BY <1>5 DEF ObservesMain, tabVars, trace, ending, LostIsWarnedOf, WarnsOfNetwork
<1>6. CASE CapturesSnapshot
  BY <1>6
     DEF CapturesSnapshot, Fails, finish_failed_target, tabVars, trace, LostIsWarnedOf,
         WarnsOfNetwork
<1>7. CASE SkipsArtifact
  <2>1. /\ Rest(todo) /\ todo # <<>> /\ todo' = Tail(todo) /\ Current # "network"
        /\ UNCHANGED <<tabPage, bodies, warned>>
    BY <1>7 DEF SkipsArtifact, inStep, tabVars, evidence, trace, ending, CaptureTypes
  <2>2. Before(todo') = Before(todo) \cup {Current} BY <2>1, RestMoves DEF Current
  <2> QED BY <2>1, <2>2 DEF LostIsWarnedOf, WarnsOfNetwork
<1>8. CASE BeginsCapture
  <2>1. todo # <<>> /\ UNCHANGED <<order, tabPage, files, bodies, noted, review>>
    BY <1>8 DEF BeginsCapture, inStep, tabVars, ending
  <2>2. CASE over
    <3>1. /\ todo' = Tail(todo)
          /\ stages' = Append(stages, [name |-> Current, status |-> "timeout"])
          /\ warned' = warned \cup {<<Current, "navigation_timeout">>}
      BY <1>8, <2>2 DEF BeginsCapture, record
    <3>2. Before(todo') = Before(todo) \cup {Current}
      BY <2>1, <3>1, RestMoves DEF Current, CaptureTypes
    <3>3. <<Current, "navigation_timeout">>[1] = Current OBVIOUS
    <3> QED BY <2>1, <3>1, <3>2, <3>3 DEF LostIsWarnedOf, WarnsOfNetwork
  <2>3. CASE ~over
    <3>1. UNCHANGED <<todo, stages, warned>> BY <1>8, <2>3 DEF BeginsCapture, begin_stage
    <3> QED BY <2>1, <3>1 DEF LostIsWarnedOf, WarnsOfNetwork
  <2> QED BY <2>2, <2>3
<1>9. CASE BodyNotAskedFor
  <2>1. /\ Rest(todo) /\ todo # <<>> /\ todo' = Tail(todo) /\ Current = "body"
        /\ UNCHANGED <<tabPage, bodies>> /\ warned \subseteq warned'
    BY <1>9 DEF BodyNotAskedFor, inStep, tabVars, trace, ending, CaptureTypes
  <2>2. Before(todo') = Before(todo) \cup {Current} BY <2>1, RestMoves DEF Current
  <2> QED BY <2>1, <2>2 DEF LostIsWarnedOf, WarnsOfNetwork
<1>10. CASE EndsCapture
  <2>1. Rest(todo) /\ todo # <<>> /\ step = "capturing"
    BY <1>10 DEF EndsCapture, CaptureTypes, inStep
  <2>2. Rest(Tail(todo)) /\ Current \in Kinds BY <2>1, RestMoves DEF Current
  <2>3. active = <<Current>> BY <2>1 DEF CaptureIsInOrder
  <2>4. PICK end :
          /\ Finishes(Current, end) /\ warned \subseteq warned' /\ files \subseteq files'
          /\ end # "ok" => files' = files /\ \E w \in warned' : w[1] = Current
          /\ files' \subseteq files \cup {Current}
          /\ Current = "network" /\ tabPage.loss => \E w \in warned' : w[1] = "network"
    BY <1>10, CaptureEnds
  <2>5. PICK status \in {"ok", "timeout", "error"} :
          /\ stages' = Append(stages, [name |-> Current, status |-> status])
          /\ end = "ok" <=> status = "ok"
    BY <2>3, <2>4, OneStageEnds
  <2>6. todo' = Tail(todo) /\ UNCHANGED <<order, tabPage, bodies, noted, review>>
    BY <1>10 DEF EndsCapture, tabVars, ending
  <2>7. Before(todo') = Before(todo) \cup {Current} BY <2>1, <2>6, RestMoves DEF Current
  <2> QED BY <2>4, <2>6, <2>7 DEF LostIsWarnedOf, WarnsOfNetwork
<1>11. CASE FinishesUnwantedNetwork
  <2>1. /\ tabPage.loss => <<"network", "artifact_capture_failed">> \in warned'
        /\ UNCHANGED <<tabPage, bodies>> /\ warned \subseteq warned'
    BY <1>11
       DEF FinishesUnwantedNetwork, inStep, tabVars, trace, ending,
           push_network_capture_warnings
  <2>2. <<"network", "artifact_capture_failed">>[1] = "network" OBVIOUS
  <2> QED BY <2>1, <2>2 DEF LostIsWarnedOf, WarnsOfNetwork
<1>12. ASSUME NEW r \in DOMAIN Bodies, CapturesBody(r) PROVE LostIsWarnedOf'
  <2>1. /\ r \in DOMAIN Bodies /\ UNCHANGED <<todo, tabPage>> /\ warned \subseteq warned'
        /\ \/ bodies' = [bodies EXCEPT ![r] = "kept"] /\ ~(Bodies[r].size > BodyMax)
           \/ \E place \in {"cut", "skipped", "failed"} : \E code :
                bodies' = [bodies EXCEPT ![r] = place] /\ <<"network", code>> \in warned'
    BY <1>12 DEF CapturesBody, inStep, tabVars, trace, ending, bodyKept
  <2>2. Bodies[r].size \in Nat /\ BodyMax \in Nat BY BodiesAssumption
  <2>3. CASE bodies' = [bodies EXCEPT ![r] = "kept"] /\ ~(Bodies[r].size > BodyMax)
    <3>1. Bodies[r].size <= BodyMax BY <2>2, <2>3
    <3> QED BY <2>1, <2>3, <3>1 DEF LostIsWarnedOf, WarnsOfNetwork, CaptureTypes
  <2>4. CASE \E place \in {"cut", "skipped", "failed"} : \E code :
               bodies' = [bodies EXCEPT ![r] = place] /\ <<"network", code>> \in warned'
    <3>1. PICK place \in {"cut", "skipped", "failed"} :
            /\ bodies' = [bodies EXCEPT ![r] = place]
            /\ \E code : <<"network", code>> \in warned'
      BY <2>4
    <3>2. \A code : <<"network", code>>[1] = "network" OBVIOUS
    <3>3. WarnsOfNetwork' BY <3>1, <3>2 DEF WarnsOfNetwork
    <3> QED BY <2>1, <3>1, <3>3 DEF LostIsWarnedOf, CaptureTypes
  <2> QED BY <2>1, <2>3, <2>4
<1>13. CASE EndsBodies
  <2>1. Rest(todo) /\ todo # <<>> /\ step = "capturing"
    BY <1>13 DEF EndsBodies, CaptureTypes, inStep
  <2>2. Rest(Tail(todo)) /\ Current \in Kinds BY <2>1, RestMoves DEF Current
  <2>3. active = <<Current>> BY <2>1 DEF CaptureIsInOrder
  <2>4. Current = "bodies" BY <1>13 DEF EndsBodies
  <2>5. \E end : Finishes(Current, end) BY <1>13, <2>3, <2>4, BodiesEnd
  <2>6. PICK status \in {"ok", "timeout", "error"} :
          stages' = Append(stages, [name |-> Current, status |-> status])
    BY <2>3, <2>5, OneStageEnds
  <2>7. /\ todo' = Tail(todo)
        /\ warned \subseteq warned'
        /\ UNCHANGED <<order, tabPage, noted, files, review>>
    BY <1>13 DEF EndsBodies, tabVars, ending
  <2>8. Before(todo') = Before(todo) \cup {"bodies"} BY <2>1, <2>4, <2>7, RestMoves DEF Current
  <2>9. \/ bodies' = bodies
        \/ /\ bodies' = [r \in DOMAIN Bodies |-> IF r \in Finished THEN "unread" ELSE bodies[r]]
           /\ \E code : <<"network", code>> \in warned'
    BY <1>13 DEF EndsBodies
  <2>10. bodies' = bodies \/ WarnsOfNetwork'
    <3>1. \A code : <<"network", code>>[1] = "network" OBVIOUS
    <3> QED BY <2>9, <3>1 DEF WarnsOfNetwork
  <2>11. \A r \in DOMAIN Bodies : bodies'[r] = "kept" => bodies[r] = "kept" BY <2>9
  <2> QED BY <2>7, <2>8, <2>10, <2>11 DEF LostIsWarnedOf, WarnsOfNetwork
<1>14. CASE SyncsJar
  BY <1>14 DEF SyncsJar, tabVars, trace, ending, LostIsWarnedOf, WarnsOfNetwork
<1>15. CASE JudgesAndCloses
  BY <1>15 DEF JudgesAndCloses, tabVars, trace, LostIsWarnedOf, WarnsOfNetwork
<1>16. CASE UNCHANGED captureVars
  BY <1>16 DEF captureVars, tabVars, evidence, trace, ending, LostIsWarnedOf, WarnsOfNetwork
<1> QED
  BY <1>1, <1>2, <1>3, <1>4, <1>5, <1>6, <1>7, <1>8, <1>9, <1>10, <1>11, <1>12, <1>13, <1>14,
     <1>15, <1>16
     DEF CaptureNext

\* What becomes of the tab is decided once, at the end (mod.rs).
LEMMA ReclaimedMeansSeenStep ==
  ASSUME CaptureTypes, CaptureIsInOrder, SnapshotIsOfThePage, ReclaimedMeansSeen,
         [CaptureNext]_captureVars
  PROVE  ReclaimedMeansSeen'
<1>1. CASE Commits
  BY <1>1 DEF Commits, evidence, trace, ending, ReclaimedMeansSeen, CaptureIsInOrder, Done
<1>2. CASE Expires
  BY <1>2 DEF Expires, evidence, trace, ending, ReclaimedMeansSeen, CaptureIsInOrder, Done
<1>3. CASE wait_for_navigation_commit
  BY <1>3
     DEF wait_for_navigation_commit, Fails, finish_failed_target, tabVars, evidence, trace,
         ending, ReclaimedMeansSeen, CaptureIsInOrder, Done
<1>4. CASE evaluate_after_wait
  <2>1. step = "evaluate" /\ (outcome' = outcome \/ outcome' # "ok")
    BY <1>4 DEF evaluate_after_wait, Fails
  <2> QED BY <2>1 DEF ReclaimedMeansSeen, CaptureIsInOrder, Done
<1>5. CASE ObservesMain
  BY <1>5 DEF ObservesMain, tabVars, trace, ending, ReclaimedMeansSeen, CaptureIsInOrder, Done
<1>6. CASE CapturesSnapshot
  <2>1. step = "snapshot" /\ (outcome' = outcome \/ outcome' # "ok")
    BY <1>6 DEF CapturesSnapshot, Fails
  <2> QED BY <2>1 DEF ReclaimedMeansSeen, CaptureIsInOrder, Done
<1>7. CASE SkipsArtifact
  BY <1>7
     DEF SkipsArtifact, inStep, tabVars, evidence, trace, ending, ReclaimedMeansSeen,
         CaptureIsInOrder, Done
<1>8. CASE BeginsCapture
  BY <1>8
     DEF BeginsCapture, inStep, begin_stage, tabVars, ending, ReclaimedMeansSeen,
         CaptureIsInOrder, Done
<1>9. CASE BodyNotAskedFor
  BY <1>9
     DEF BodyNotAskedFor, inStep, tabVars, trace, ending, ReclaimedMeansSeen,
         CaptureIsInOrder, Done
<1>10. CASE EndsCapture
  BY <1>10 DEF EndsCapture, inStep, tabVars, ending, ReclaimedMeansSeen, CaptureIsInOrder, Done
<1>11. CASE FinishesUnwantedNetwork
  BY <1>11
     DEF FinishesUnwantedNetwork, inStep, tabVars, trace, ending, ReclaimedMeansSeen,
         CaptureIsInOrder, Done
<1>12. ASSUME NEW r \in DOMAIN Bodies, CapturesBody(r) PROVE ReclaimedMeansSeen'
  BY <1>12
     DEF CapturesBody, inStep, tabVars, trace, ending, ReclaimedMeansSeen, CaptureIsInOrder,
         Done
<1>13. CASE EndsBodies
  BY <1>13 DEF EndsBodies, inStep, tabVars, ending, ReclaimedMeansSeen, CaptureIsInOrder, Done
<1>14. CASE SyncsJar
  BY <1>14 DEF SyncsJar, tabVars, trace, ending, ReclaimedMeansSeen, CaptureIsInOrder, Done
<1>15. CASE JudgesAndCloses
  <2>1. PICK closed \in IF close_after_success THEN BOOLEAN ELSE {FALSE} :
          tab' = [tab EXCEPT !.open = ~closed, !.named = ~closed]
    BY <1>15 DEF JudgesAndCloses
  <2>2. /\ step = "judge" /\ UNCHANGED <<order, tabPage, noted>>
        /\ review' = (review \/ (order.takeover /\ ~content_verified))
    BY <1>15 DEF JudgesAndCloses, tabVars
  <2>3. tab'.open = ~closed /\ tab'.named = ~closed BY <2>1 DEF CaptureTypes
  <2>4. closed \in BOOLEAN /\ (closed => close_after_success) BY <2>1
  <2>5. CASE closed
    <3>1. ~tab'.open BY <2>3, <2>5
    <3>2. ASSUME order.takeover
          PROVE  /\ ~review' /\ noted.snap /\ noted.final = "target" /\ tabPage.text
                 /\ ~tabPage.wall /\ tabPage.main # "denied"
      <4>1. content_verified BY <2>4, <2>5, <3>2 DEF close_after_success
      <4>2. ~review /\ noted.snap /\ tabPage.text /\ noted.status \in 200 .. 299
        BY <4>1 DEF content_verified
      <4>3. ~review' BY <2>2, <4>1, <4>2
      <4>4. noted.final = "target" /\ ~tabPage.wall BY <2>2, <4>2 DEF SnapshotIsOfThePage
      <4>5. noted.status \in {0, statusOf(tabPage.main)} BY DEF CaptureTypes, Notes
      <4>6. tabPage.main # "denied" BY <4>2, <4>5 DEF statusOf
      <4> QED BY <4>2, <4>3, <4>4, <4>6
    <3> QED BY <2>2, <3>1, <3>2 DEF ReclaimedMeansSeen
  <2>6. CASE ~closed
    <3>1. tab'.open /\ tab'.named BY <2>3, <2>6
    <3> QED BY <3>1 DEF ReclaimedMeansSeen
  <2> QED BY <2>4, <2>5, <2>6
<1>16. CASE UNCHANGED captureVars
  BY <1>16
     DEF captureVars, tabVars, evidence, trace, ending, ReclaimedMeansSeen, CaptureIsInOrder,
         Done
<1> QED
  BY <1>1, <1>2, <1>3, <1>4, <1>5, <1>6, <1>7, <1>8, <1>9, <1>10, <1>11, <1>12, <1>13, <1>14,
     <1>15, <1>16
     DEF CaptureNext

-------------------------------------------------------------------------------
(* Capture: the theorems.                                                  *)

\* Nothing is observed, captured or told of yet.
LEMMA PageInitInv == PageInit => CaptureInv
<1> SUFFICES ASSUME PageInit PROVE CaptureInv OBVIOUS
<1> USE DEF PageInit
<1>1. Unseen \in Notes BY DEF Unseen, Notes
<1>2. CaptureTypes
  <2>1. stages \in Seq(Stages) OBVIOUS
  <2>2. bodies \in [DOMAIN Bodies -> {"left", "kept", "cut", "skipped", "failed", "unread"}]
    OBVIOUS
  <2> QED BY <1>1, <2>1, <2>2, RestEnds DEF CaptureTypes, Early
<1>3. CaptureIsInOrder BY DEF CaptureIsInOrder, Early, Done
<1>4. StagesToldOnce /\ FilesWereCaptured BY DEF StagesToldOnce, FilesWereCaptured
<1>5. FailuresAreWarnedOf BY RestEnds DEF FailuresAreWarnedOf
<1>6. SnapshotIsOfThePage BY DEF SnapshotIsOfThePage
<1>7. LostIsWarnedOf BY RestEnds DEF LostIsWarnedOf
<1>8. ReclaimedMeansSeen BY DEF ReclaimedMeansSeen, Done
<1> QED BY <1>2, <1>3, <1>4, <1>5, <1>6, <1>7, <1>8 DEF CaptureInv

\* Type correctness, the order of the capture, its trace and its warnings, in every
\* run of a page, whatever fails and whenever the budget is spent (mod.rs, capture.rs).
THEOREM CaptureInvariant == CaptureSpec => []CaptureInv
<1>1. PageInit => CaptureInv BY PageInitInv
<1>2. CaptureInv /\ [CaptureNext]_captureVars => CaptureInv'
  BY CaptureTypesStep, CaptureIsInOrderStep, StagesToldOnceStep, FilesWereCapturedStep,
     FailuresAreWarnedOfStep, SnapshotIsOfThePageStep, LostIsWarnedOfStep,
     ReclaimedMeansSeenStep DEF CaptureInv
<1> QED BY <1>1, <1>2, PTL DEF CaptureSpec

\* At the end each wanted artifact has one recorded outcome at most, a file only after a
\* stage that succeeded, and a warning if none did; and what the network's log or a
\* response's body lost is warned of (deadline.rs, push_network_capture_warnings,
\* capture_network_bodies).
THEOREM StagesAgree == CaptureSpec => []StagesAgreeWithTheResult
<1>1. CaptureInv => StagesAgreeWithTheResult
  <2> SUFFICES ASSUME CaptureInv, Done PROVE StagesAgreeWithTheResult
    BY DEF StagesAgreeWithTheResult, LossIsTold, BodiesAreKeptOrToldOf
  <2>1. active = <<>> /\ todo = <<>> BY DEF CaptureInv, CaptureIsInOrder, Done
  <2>2. ASSUME NEW a \in Wanted
        PROVE  /\ Cardinality(ToldOf(a)) <= 1
               /\ a \in files => \E i \in ToldOf(a) : stages[i].status = "ok"
               /\ a # "bodies" /\ (\A i \in ToldOf(a) : stages[i].status # "ok") =>
                    \E w \in warned : w[1] = a
    <3>1. a \in Before(todo) /\ a \in order.wanted BY <2>1, RestEnds DEF Wanted, Kinds
    <3>2. Cardinality(ToldOf(a)) <= 1
      <4>1. \A i, j \in ToldOf(a) : i = j BY DEF ToldOf, CaptureInv, StagesToldOnce
      <4>2. CASE ToldOf(a) = {} BY <4>2, FS_EmptySet
      <4>3. CASE ToldOf(a) # {}
        <5>1. PICK i : ToldOf(a) = {i} BY <4>1, <4>3
        <5>2. Cardinality({i}) = 1 BY FS_Singleton
        <5> QED BY <5>1, <5>2
      <4> QED BY <4>2, <4>3
    <3>3. a \in files => \E i \in ToldOf(a) : stages[i].status = "ok"
      BY DEF CaptureInv, FilesWereCaptured, ToldOf
    <3>4. a # "bodies" /\ (\A i \in ToldOf(a) : stages[i].status # "ok") =>
            \E w \in warned : w[1] = a
      BY <3>1 DEF CaptureInv, FailuresAreWarnedOf, ToldOf
    <3> QED BY <3>2, <3>3, <3>4
  <2>3. LossIsTold /\ BodiesAreKeptOrToldOf
    <3>1. "network" \in Before(todo) BY <2>1, RestEnds, ArtifactList DEF Kinds
    <3> QED
      BY <3>1 DEF CaptureInv, LostIsWarnedOf, WarnsOfNetwork, LossIsTold,
                  BodiesAreKeptOrToldOf
  <2> QED BY <2>1, <2>2, <2>3 DEF StagesAgreeWithTheResult
<1> QED BY <1>1, CaptureInvariant, PTL

\* A tab a person is to look at stays and is named, and one kept for a person is closed
\* only when the page asked for was seen with text, a good status and no wall (mod.rs).
THEOREM ReclaimedTabsWereSeen == CaptureSpec => []ReclaimedMeansSeen
<1>1. CaptureInv => ReclaimedMeansSeen BY DEF CaptureInv
<1> QED BY <1>1, CaptureInvariant, PTL

-------------------------------------------------------------------------------
(* Streams: the invariant.                                                 *)

Buckets == [total : Nat, bytes : Nat, events : Seq(Nat), some : BOOLEAN]
Consoles == [kept : Nat, came : Nat, cut : BOOLEAN, missed : BOOLEAN]
StreamTypes ==
  /\ bucket \in [StreamIds -> Buckets]
  /\ came \in [StreamIds -> Seq(Nat)] /\ jsonl \in [StreamIds -> Seq(Nat)]
  /\ late \in [StreamIds -> Nat] /\ unwritten \subseteq StreamIds
  /\ cut \in BOOLEAN /\ missed \in BOOLEAN
  /\ phase \in {"nothing", "console", "ws", "sse", "all"}
  /\ console \in Consoles

\* A stream's counters are within their bounds; until its events are taken they are
\* those of its events, which are all that came unless a loss was noted.
BucketsAreCounted ==
  \A s \in StreamIds :
    /\ bucket[s].total <= EventMax /\ bucket[s].bytes <= ByteMax
    /\ ~isTaken(s) => /\ bucket[s].total = Len(bucket[s].events)
                      /\ bucket[s].bytes = bytesOf(bucket[s].events)
                      /\ ~cut /\ ~missed => bucket[s].events = came[s]

\* What is written is within the bounds, and is all that came before it was taken
\* unless a loss was noted or warned of.
WrittenIsWhole ==
  \A s \in StreamIds :
    /\ Len(jsonl[s]) <= EventMax /\ bytesOf(jsonl[s]) <= ByteMax
    /\ ~isTaken(s) => jsonl[s] = <<>>
    /\ isTaken(s) /\ jsonl[s] # came[s] => cut \/ missed \/ s \in unwritten

\* The losses noted are told.
LossesAreTold == phase = "all" => told.late \/ (told.cut = cut /\ told.missed = missed)
ConsoleIsCounted == ~console.cut /\ ~console.missed => console.kept = console.came

StreamsInv ==
  StreamTypes /\ BucketsAreCounted /\ WrittenIsWhole /\ LossesAreTold /\ ConsoleIsCounted

-------------------------------------------------------------------------------
(* Streams: what a stream's events add up to (bytesOf).                    *)

\* sums[i] is what the first i of q add up to.
SumsUpTo(q, k, sums) ==
  sums = [i \in 0 .. k |-> IF i = 0 THEN 0 ELSE sums[i - 1] + q[i]]

\* The sums of a sequence's beginnings exist, up to any of them.
LEMMA SumsExist ==
  ASSUME NEW q \in Seq(Nat), NEW k \in 0 .. Len(q)
  PROVE  \E sums \in [0 .. k -> Nat] : SumsUpTo(q, k, sums)
<1> DEFINE Bad == {j \in 0 .. Len(q) : ~\E sums \in [0 .. j -> Nat] : SumsUpTo(q, j, sums)}
<1>1. Len(q) \in Nat OBVIOUS
<1> SUFFICES ASSUME Bad # {} PROVE FALSE OBVIOUS
<1>2. PICK j \in Bad : \A m \in Bad : j <= m
  <2>1. Bad \in SUBSET Nat BY <1>1
  <2> HIDE DEF Bad
  <2> QED BY <2>1, LeastNatural
<1>3. j \in 0 .. Len(q) /\ ~\E sums \in [0 .. j -> Nat] : SumsUpTo(q, j, sums) OBVIOUS
<1>4. CASE j = 0
  <2> DEFINE sums == [i \in 0 .. 0 |-> 0]
  <2>1. sums \in [0 .. 0 -> Nat] OBVIOUS
  <2>2. SumsUpTo(q, 0, sums) BY DEF SumsUpTo
  <2> HIDE DEF sums
  <2> QED BY <1>3, <1>4, <2>1, <2>2
<1>5. CASE j # 0
  <2>1. j - 1 \in 0 .. Len(q) /\ j \in 1 .. Len(q) /\ j - 1 \notin Bad
    <3>1. j \in Nat /\ j - 1 \in Nat /\ ~(j <= j - 1) BY <1>1, <1>3, <1>5
    <3> HIDE DEF Bad
    <3> QED BY <1>1, <1>2, <1>3, <3>1
  <2>2. PICK short \in [0 .. (j - 1) -> Nat] : SumsUpTo(q, j - 1, short) BY <2>1
  <2>3. q[j] \in Nat BY <2>1
  <2> DEFINE sums == [i \in 0 .. j |-> IF i = j THEN short[j - 1] + q[j] ELSE short[i]]
  <2>4. \A i \in 0 .. j : i = j \/ i \in 0 .. (j - 1) BY <1>3
  <2>5. sums \in [0 .. j -> Nat]
    <3>1. j - 1 \in 0 .. (j - 1) BY <2>1
    <3> QED BY <2>2, <2>3, <2>4, <3>1
  <2>6. ASSUME NEW i \in 0 .. j
        PROVE  sums[i] = IF i = 0 THEN 0 ELSE sums[i - 1] + q[i]
    <3>1. CASE i = j
      <4>1. j - 1 \in 0 .. j /\ j - 1 # j /\ j \in 0 .. j BY <2>1
      <4> QED BY <1>5, <3>1, <4>1
    <3>2. CASE i # j
      <4>1. i \in 0 .. (j - 1) /\ i \in Nat BY <2>4, <3>2
      <4>2. short[i] = IF i = 0 THEN 0 ELSE short[i - 1] + q[i] BY <2>2, <4>1 DEF SumsUpTo
      <4>3. i # 0 => i - 1 \in 0 .. j /\ i - 1 # j BY <2>1, <4>1
      <4> QED BY <3>2, <4>2, <4>3
    <3> QED BY <3>1, <3>2
  <2>7. SumsUpTo(q, j, sums) BY <2>6 DEF SumsUpTo
  <2> HIDE DEF sums
  <2> QED BY <1>3, <2>5, <2>7
<1> QED BY <1>4, <1>5

\* Sequences that begin alike have the same sums of their common beginning.
LEMMA SumsAgree ==
  ASSUME NEW q \in Seq(Nat), NEW r \in Seq(Nat), Len(q) <= Len(r),
         \A i \in 1 .. Len(q) : r[i] = q[i],
         NEW g, SumsUpTo(q, Len(q), g), NEW h, SumsUpTo(r, Len(r), h)
  PROVE  \A i \in 0 .. Len(q) : g[i] = h[i]
<1> DEFINE Bad == {i \in 0 .. Len(q) : g[i] # h[i]}
<1>1. Len(q) \in Nat /\ Len(r) \in Nat OBVIOUS
<1> SUFFICES ASSUME Bad # {} PROVE FALSE OBVIOUS
<1>2. PICK j \in Bad : \A m \in Bad : j <= m
  <2>1. Bad \in SUBSET Nat BY <1>1
  <2> HIDE DEF Bad
  <2> QED BY <2>1, LeastNatural
<1>3. j \in 0 .. Len(q) /\ j \in 0 .. Len(r) /\ g[j] # h[j] BY <1>1
<1>4. g[j] = (IF j = 0 THEN 0 ELSE g[j - 1] + q[j]) BY <1>3 DEF SumsUpTo
<1>5. h[j] = (IF j = 0 THEN 0 ELSE h[j - 1] + r[j]) BY <1>3 DEF SumsUpTo
<1>6. j # 0 BY <1>3, <1>4, <1>5
<1>7. j - 1 \in 0 .. Len(q) /\ j \in 1 .. Len(q) /\ ~(j <= j - 1) BY <1>1, <1>3, <1>6
<1>8. g[j - 1] = h[j - 1]
  <2>1. j - 1 \notin Bad
    <3> HIDE DEF Bad
    <3> QED BY <1>2, <1>7
  <2> QED BY <1>7, <2>1
<1>9. r[j] = q[j] BY <1>7
<1> QED BY <1>3, <1>4, <1>5, <1>6, <1>8, <1>9

\* What a sequence adds up to is the last of its sums.
LEMMA BytesAreSums ==
  ASSUME NEW q \in Seq(Nat)
  PROVE  \E sums \in [0 .. Len(q) -> Nat] :
           SumsUpTo(q, Len(q), sums) /\ bytesOf(q) = sums[Len(q)]
<1> DEFINE n == CHOOSE n : n = [i \in 0 .. Len(q) |-> IF i = 0 THEN 0 ELSE n[i - 1] + q[i]]
<1>1. Len(q) \in Nat /\ Len(q) \in 0 .. Len(q) OBVIOUS
<1>2. PICK sums \in [0 .. Len(q) -> Nat] : SumsUpTo(q, Len(q), sums) BY <1>1, SumsExist
<1>3. \E m : m = [i \in 0 .. Len(q) |-> IF i = 0 THEN 0 ELSE m[i - 1] + q[i]]
  BY <1>2 DEF SumsUpTo
<1>4. n = [i \in 0 .. Len(q) |-> IF i = 0 THEN 0 ELSE n[i - 1] + q[i]] BY <1>3
<1>5. bytesOf(q) = n[Len(q)] BY DEF bytesOf
<1> HIDE DEF n
<1>6. SumsUpTo(q, Len(q), n) BY <1>4 DEF SumsUpTo
<1>7. Len(q) <= Len(q) BY <1>1
<1>8. \A i \in 1 .. Len(q) : q[i] = q[i] OBVIOUS
<1>9. \A i \in 0 .. Len(q) : n[i] = sums[i] BY <1>2, <1>6, <1>7, <1>8, SumsAgree
<1> QED BY <1>1, <1>2, <1>5, <1>9

\* An event adds its size.
LEMMA BytesAdd ==
  /\ bytesOf(<<>>) = 0
  /\ \A q \in Seq(Nat), size \in Nat :
       bytesOf(q) \in Nat /\ bytesOf(Append(q, size)) = bytesOf(q) + size
<1>1. bytesOf(<<>>) = 0
  <2>1. <<>> \in Seq(Nat) /\ Len(<<>>) = 0 OBVIOUS
  <2>2. PICK sums \in [0 .. Len(<<>>) -> Nat] :
          SumsUpTo(<<>>, Len(<<>>), sums) /\ bytesOf(<<>>) = sums[Len(<<>>)]
    BY <2>1, BytesAreSums
  <2>3. sums[0] = 0 BY <2>1, <2>2 DEF SumsUpTo
  <2> QED BY <2>1, <2>2, <2>3
<1>2. ASSUME NEW q \in Seq(Nat), NEW size \in Nat
      PROVE  bytesOf(q) \in Nat /\ bytesOf(Append(q, size)) = bytesOf(q) + size
  <2> DEFINE r == Append(q, size)
  <2>1. /\ r \in Seq(Nat) /\ Len(r) = Len(q) + 1 /\ Len(q) \in Nat
        /\ \A i \in 1 .. Len(q) : r[i] = q[i]
        /\ r[Len(q) + 1] = size
    OBVIOUS
  <2> HIDE DEF r
  <2>2. PICK g \in [0 .. Len(q) -> Nat] : SumsUpTo(q, Len(q), g) /\ bytesOf(q) = g[Len(q)]
    BY BytesAreSums
  <2>3. PICK h \in [0 .. Len(r) -> Nat] : SumsUpTo(r, Len(r), h) /\ bytesOf(r) = h[Len(r)]
    BY <2>1, BytesAreSums
  <2>4. Len(q) <= Len(r) BY <2>1
  <2>5. \A i \in 0 .. Len(q) : g[i] = h[i]
    <3>1. SumsUpTo(q, Len(q), g) BY <2>2
    <3>2. SumsUpTo(r, Len(r), h) BY <2>3
    <3>3. r \in Seq(Nat) /\ \A i \in 1 .. Len(q) : r[i] = q[i] BY <2>1
    <3> QED BY ONLY q \in Seq(Nat), <3>1, <3>2, <3>3, <2>4, SumsAgree
  <2>6. h[Len(q) + 1] = h[Len(q)] + r[Len(q) + 1]
    <3>1. Len(q) + 1 \in 0 .. Len(r) /\ Len(q) + 1 # 0 /\ (Len(q) + 1) - 1 = Len(q) BY <2>1
    <3>2. h[Len(q) + 1] = (IF Len(q) + 1 = 0 THEN 0 ELSE h[(Len(q) + 1) - 1] + r[Len(q) + 1])
      BY <2>3, <3>1 DEF SumsUpTo
    <3> QED BY <3>1, <3>2
  <2>7. Len(q) \in 0 .. Len(q) BY <2>1
  <2>8. bytesOf(q) \in Nat BY <2>2, <2>7
  <2>9. bytesOf(r) = bytesOf(q) + size BY <2>1, <2>2, <2>3, <2>5, <2>6, <2>7
  <2> QED BY <2>8, <2>9 DEF r
<1> QED BY <1>1, <1>2

-------------------------------------------------------------------------------
(* Streams: the invariant is inductive.                                    *)

\* An event that is taken in leaves its stream's bucket within its bounds, and until
\* the events are taken counted; it is kept whole if it is not told of
\* (push_stream_event).
LEMMA TakenInFits ==
  ASSUME StreamTypes, BucketsAreCounted,
         NEW s \in StreamIds, NEW size \in Nat, ~refuses(s, size)
  PROVE  /\ taken_in(s, size) \in Buckets
         /\ taken_in(s, size).total <= EventMax
         /\ taken_in(s, size).bytes <= ByteMax
         /\ ~isTaken(s) =>
              /\ taken_in(s, size).total = Len(taken_in(s, size).events)
              /\ taken_in(s, size).bytes = bytesOf(taken_in(s, size).events)
         /\ ~cuts(s, size) => taken_in(s, size).events = Append(bucket[s].events, size)
<1>1. /\ bucket[s] \in Buckets /\ bucket[s].events \in Seq(Nat) /\ bucket[s].bytes \in Nat
      /\ bucket[s].total \in Nat /\ EventMax \in Nat /\ ByteMax \in Nat
  BY StreamsAssumption DEF StreamTypes, Buckets
<1>2. /\ bucket[s].total <= EventMax /\ bucket[s].bytes <= ByteMax
      /\ ~isTaken(s) => /\ bucket[s].total = Len(bucket[s].events)
                        /\ bucket[s].bytes = bytesOf(bucket[s].events)
  BY DEF BucketsAreCounted
<1>3. bucket[s].total + 1 <= EventMax
  <2>1. ~(bucket[s].total >= EventMax) BY DEF refuses
  <2> QED BY <1>1, <2>1
<1> DEFINE k == keptOf(s, size)
<1>4. k \in Nat /\ bucket[s].bytes + k <= ByteMax BY <1>1, <1>2 DEF keptOf, budget
<1>5. ~cuts(s, size) => k = size BY DEF cuts, keptOf
<1> HIDE DEF k
<1> DEFINE ev == Append(bucket[s].events, k)
<1>6. ev \in Seq(Nat) /\ Len(ev) = Len(bucket[s].events) + 1 BY <1>1, <1>4
<1>7. bytesOf(ev) = bytesOf(bucket[s].events) + k BY <1>1, <1>4, BytesAdd
<1> HIDE DEF ev
<1>8. taken_in(s, size) = [total |-> bucket[s].total + 1, bytes |-> bucket[s].bytes + k,
                           events |-> ev, some |-> TRUE]
  BY DEF taken_in, k, ev
<1>9. taken_in(s, size) \in Buckets
  <2>1. bucket[s].total + 1 \in Nat /\ bucket[s].bytes + k \in Nat BY <1>1, <1>4
  <2> QED BY ONLY <1>6, <1>8, <2>1 DEF Buckets
<1>10. ~cuts(s, size) => ev = Append(bucket[s].events, size) BY <1>5 DEF ev
<1>11. ~isTaken(s) => /\ taken_in(s, size).total = Len(taken_in(s, size).events)
                      /\ taken_in(s, size).bytes = bytesOf(taken_in(s, size).events)
  BY <1>2, <1>6, <1>7, <1>8
<1> QED BY <1>3, <1>4, <1>8, <1>9, <1>10, <1>11

\* What an arrival changes.
LEMMA Arrived ==
  ASSUME StreamTypes, NEW s \in StreamIds, NEW size \in Nat, arrives(s, size)
  PROVE  /\ phase # "all"
         /\ came' \in [StreamIds -> Seq(Nat)] /\ late' \in [StreamIds -> Nat]
         /\ isTaken(s) => came' = came
         /\ ~isTaken(s) => came'[s] = Append(came[s], size)
         /\ \A t \in StreamIds \ {s} : came'[t] = came[t]
<1>1. came \in [StreamIds -> Seq(Nat)] /\ late \in [StreamIds -> Nat] BY DEF StreamTypes
<1>2. CASE isTaken(s)
  <2>1. phase # "all" /\ came' = came /\ late' = [late EXCEPT ![s] = @ + 1]
    BY <1>2 DEF arrives
  <2> QED BY <1>1, <1>2, <2>1
<1>3. CASE ~isTaken(s)
  <2>1. phase # "all" /\ late' = late /\ came' = [came EXCEPT ![s] = Append(@, size)]
    BY <1>3 DEF arrives
  <2> QED BY <1>1, <1>3, <2>1
<1> QED BY <1>2, <1>3

\* One event of one stream changes its bucket and what came of it, and no other's.
LEMMA PushStep ==
  ASSUME StreamsInv, NEW s \in StreamIds, NEW size \in FrameSizes, push_stream_event(s, size)
  PROVE  StreamsInv'
<1> USE DEF StreamsInv
<1>1. size \in Nat BY StreamsAssumption
<1>2. /\ UNCHANGED <<jsonl, unwritten, missed, console, phase, told>>
      /\ arrives(s, size) /\ cut' = (cut \/ cuts(s, size))
  BY DEF push_stream_event
<1>3. /\ phase # "all"
      /\ came' \in [StreamIds -> Seq(Nat)] /\ late' \in [StreamIds -> Nat]
      /\ isTaken(s) => came' = came
      /\ ~isTaken(s) => came'[s] = Append(came[s], size)
      /\ \A t \in StreamIds \ {s} : came'[t] = came[t]
  BY <1>1, <1>2, Arrived
<1>4. cut' \in BOOLEAN /\ (~cut' => ~cut /\ ~cuts(s, size)) /\ (cut => cut')
  <2>1. CASE cuts(s, size) BY <1>2, <2>1
  <2>2. CASE ~cuts(s, size) BY <1>2, <2>2 DEF StreamTypes
  <2> QED BY <2>1, <2>2
<1>5. \A t : isTaken(t)' = isTaken(t) BY <1>2 DEF isTaken
<1>6. /\ bucket' \in [StreamIds -> Buckets]
      /\ \A t \in StreamIds \ {s} : bucket'[t] = bucket[t]
      /\ bucket'[s].total <= EventMax /\ bucket'[s].bytes <= ByteMax
      /\ ~isTaken(s) => /\ bucket'[s].total = Len(bucket'[s].events)
                        /\ bucket'[s].bytes = bytesOf(bucket'[s].events)
      /\ ~cuts(s, size) => bucket'[s].events = Append(bucket[s].events, size)
  <2>1. CASE refuses(s, size)
    <3>1. bucket' = bucket /\ cuts(s, size) BY <2>1 DEF push_stream_event, cuts
    <3> QED BY <3>1 DEF StreamTypes, BucketsAreCounted
  <2>2. CASE ~refuses(s, size)
    <3> DEFINE b == taken_in(s, size)
    <3>1. /\ b \in Buckets /\ b.total <= EventMax /\ b.bytes <= ByteMax
          /\ ~isTaken(s) => b.total = Len(b.events) /\ b.bytes = bytesOf(b.events)
          /\ ~cuts(s, size) => b.events = Append(bucket[s].events, size)
      BY <1>1, <2>2, TakenInFits
    <3>2. bucket' = [bucket EXCEPT ![s] = b] BY <2>2 DEF push_stream_event
    <3> HIDE DEF b
    <3>3. /\ bucket' \in [StreamIds -> Buckets] /\ bucket'[s] = b
          /\ \A t \in StreamIds \ {s} : bucket'[t] = bucket[t]
      BY <3>1, <3>2 DEF StreamTypes
    <3> QED BY <3>1, <3>3
  <2> QED BY <2>1, <2>2
<1>7. StreamTypes' BY <1>2, <1>3, <1>4, <1>6 DEF StreamTypes
<1>8. BucketsAreCounted'
  <2>1. ASSUME NEW t \in StreamIds
        PROVE  /\ bucket'[t].total <= EventMax /\ bucket'[t].bytes <= ByteMax
               /\ ~isTaken(t) => /\ bucket'[t].total = Len(bucket'[t].events)
                                 /\ bucket'[t].bytes = bytesOf(bucket'[t].events)
                                 /\ ~cut' /\ ~missed' => bucket'[t].events = came'[t]
    <3>1. CASE t = s BY <1>2, <1>3, <1>4, <1>6, <3>1 DEF BucketsAreCounted
    <3>2. CASE t # s BY <1>2, <1>3, <1>4, <1>6, <3>2 DEF BucketsAreCounted
    <3> QED BY <3>1, <3>2
  <2> QED BY <1>5, <2>1 DEF BucketsAreCounted
<1>9. WrittenIsWhole'
  <2>1. ASSUME NEW t \in StreamIds
        PROVE  isTaken(t) /\ jsonl[t] # came'[t] => cut' \/ missed \/ t \in unwritten
    <3>1. isTaken(t) => came'[t] = came[t] BY <1>3
    <3> QED BY <1>4, <3>1 DEF WrittenIsWhole
  <2> QED BY <1>2, <1>5, <2>1 DEF WrittenIsWhole
<1>10. LossesAreTold' /\ ConsoleIsCounted'
  BY <1>2, <1>3 DEF LossesAreTold, ConsoleIsCounted
<1> QED BY <1>7, <1>8, <1>9, <1>10

\* An event that was missed is counted.
LEMMA FrameMissedStep ==
  ASSUME StreamsInv, NEW s \in StreamIds, FrameMissed(s)
  PROVE  StreamsInv'
<1> USE DEF StreamsInv
<1>1. /\ arrives(s, 0) /\ missed' = TRUE
      /\ UNCHANGED <<bucket, jsonl, unwritten, cut, console, phase, told>>
  BY DEF FrameMissed
<1>2. /\ phase # "all"
      /\ came' \in [StreamIds -> Seq(Nat)] /\ late' \in [StreamIds -> Nat]
  BY <1>1, Arrived
<1>3. \A t : isTaken(t)' = isTaken(t) BY <1>1 DEF isTaken
<1>4. StreamTypes' BY <1>1, <1>2 DEF StreamTypes
<1>5. BucketsAreCounted' BY <1>1, <1>3 DEF BucketsAreCounted
<1>6. WrittenIsWhole' BY <1>1, <1>3 DEF WrittenIsWhole
<1>7. LossesAreTold' /\ ConsoleIsCounted' BY <1>1, <1>2 DEF LossesAreTold, ConsoleIsCounted
<1> QED BY <1>4, <1>5, <1>6, <1>7

\* An event of the console is kept, or the loss is noted.
LEMMA ConsoleStep ==
  ASSUME StreamsInv, ConsoleEvent
  PROVE  StreamsInv'
<1> USE DEF StreamsInv
<1>1. UNCHANGED <<bucket, came, late, jsonl, unwritten, cut, missed, phase, told>>
  BY DEF ConsoleEvent
<1> DEFINE missing == [console EXCEPT !.missed = TRUE, !.came = @ + 1]
           full == [console EXCEPT !.cut = TRUE, !.came = @ + 1]
           kept == [console EXCEPT !.kept = @ + 1, !.came = @ + 1]
<1>2. console \in Consoles /\ console.kept + 1 \in Nat /\ console.came + 1 \in Nat
  BY DEF StreamTypes, Consoles
<1>3. missing \in Consoles /\ missing.missed BY <1>2 DEF Consoles
<1>4. full \in Consoles /\ full.cut BY <1>2 DEF Consoles
<1>5. /\ kept \in Consoles /\ kept.kept = console.kept + 1 /\ kept.came = console.came + 1
      /\ kept.cut = console.cut /\ kept.missed = console.missed
  BY <1>2 DEF Consoles
<1>6. console' = missing \/ console' = full \/ console' = kept BY DEF ConsoleEvent
<1> HIDE DEF missing, full, kept
<1>7. console' \in Consoles BY <1>3, <1>4, <1>5, <1>6
<1>8. ConsoleIsCounted' BY <1>3, <1>4, <1>5, <1>6 DEF ConsoleIsCounted
<1>9. StreamTypes' BY <1>1, <1>7 DEF StreamTypes
<1>10. BucketsAreCounted' BY <1>1 DEF BucketsAreCounted, isTaken
<1>11. WrittenIsWhole' BY <1>1 DEF WrittenIsWhole, isTaken
<1>12. LossesAreTold' BY <1>1 DEF LossesAreTold
<1> QED BY <1>8, <1>9, <1>10, <1>11, <1>12

\* The end of the console takes nothing yet; the end of all tells what was noted.
LEMMA ClosingStep ==
  ASSUME StreamsInv, ConsoleFinishes \/ StreamsFinish
  PROVE  StreamsInv'
<1> USE DEF StreamsInv
<1>1. /\ UNCHANGED <<bucket, came, late, jsonl, unwritten, cut, missed, console>>
      /\ \/ phase = "nothing" /\ phase' = "console"
         \/ phase = "sse" /\ phase' = "all"
  BY DEF ConsoleFinishes, StreamsFinish
<1>2. \A s \in StreamIds : isTaken(s)' = isTaken(s)
  <2>1. \A s \in StreamIds : KindOf[s] \in {"ws", "sse"} BY StreamsAssumption
  <2>2. ASSUME NEW s \in StreamIds PROVE isTaken(s)' = isTaken(s)
    <3>1. CASE KindOf[s] = "ws" BY <1>1, <3>1 DEF isTaken
    <3>2. CASE KindOf[s] # "ws" BY <1>1, <3>2 DEF isTaken
    <3> QED BY <3>1, <3>2
  <2> QED BY <2>2
<1>3. StreamTypes' BY <1>1 DEF StreamTypes
<1>4. BucketsAreCounted' BY <1>1, <1>2 DEF BucketsAreCounted
<1>5. WrittenIsWhole' BY <1>1, <1>2 DEF WrittenIsWhole
<1>6. LossesAreTold'
  <2>1. CASE ConsoleFinishes BY <2>1 DEF ConsoleFinishes, LossesAreTold
  <2>2. CASE StreamsFinish
    <3>1. UNCHANGED <<cut, missed>> /\ \/ told' = [cut |-> cut, missed |-> missed, late |-> FALSE]
                                       \/ told' = [NothingTold EXCEPT !.late = TRUE]
      BY <2>2 DEF StreamsFinish
    <3>2. [NothingTold EXCEPT !.late = TRUE].late BY DEF NothingTold
    <3>3. told'.late \/ (told'.cut = cut /\ told'.missed = missed)
      <4>1. CASE told' = [cut |-> cut, missed |-> missed, late |-> FALSE] BY <4>1
      <4>2. CASE told' = [NothingTold EXCEPT !.late = TRUE] BY <3>2, <4>2
      <4> QED BY <3>1, <4>1, <4>2
    <3> QED BY <3>1, <3>3 DEF LossesAreTold
  <2> QED BY <2>1, <2>2
<1>7. ConsoleIsCounted' BY <1>1 DEF ConsoleIsCounted
<1> QED BY <1>3, <1>4, <1>5, <1>6, <1>7

\* What is taken is written, or the failure is told.
LEMMA TakesStep ==
  ASSUME StreamsInv, NEW kind \in {"ws", "sse"}, TakesStreams(kind)
  PROVE  StreamsInv'
<1> USE DEF StreamsInv
<1> DEFINE some == {s \in StreamIds : KindOf[s] = kind /\ bucket[s].events # <<>>}
<1>1. PICK failing \in SUBSET some :
        /\ unwritten' = unwritten \cup failing
        /\ jsonl' = [s \in StreamIds |-> IF s \in some \ failing THEN bucket[s].events ELSE jsonl[s]]
  BY DEF TakesStreams
<1>2. /\ phase = IF kind = "ws" THEN "console" ELSE "ws"
      /\ phase' = kind /\ UNCHANGED <<came, late, cut, missed, console, told>>
      /\ bucket' = [s \in StreamIds |->
                      IF KindOf[s] = kind THEN [bucket[s] EXCEPT !.events = <<>>] ELSE bucket[s]]
  BY DEF TakesStreams
<1>3. \A s \in StreamIds : bucket[s] \in Buckets /\ bucket[s].events \in Seq(Nat)
  BY DEF StreamTypes, Buckets
<1>4. ASSUME NEW s \in StreamIds
      PROVE  /\ KindOf[s] = kind => ~isTaken(s) /\ isTaken(s)'
             /\ KindOf[s] # kind => isTaken(s)' = isTaken(s)
  <2>1. KindOf[s] \in {"ws", "sse"} BY StreamsAssumption
  <2>2. CASE kind = "ws" BY <1>2, <2>1, <2>2 DEF isTaken
  <2>3. CASE kind = "sse" BY <1>2, <2>1, <2>3 DEF isTaken
  <2> QED BY <2>2, <2>3
<1>5. ASSUME NEW s \in StreamIds
      PROVE  /\ bucket'[s] \in Buckets
             /\ bucket'[s].total = bucket[s].total /\ bucket'[s].bytes = bucket[s].bytes
             /\ KindOf[s] # kind => bucket'[s] = bucket[s]
  <2>1. <<>> \in Seq(Nat) OBVIOUS
  <2>2. CASE KindOf[s] = kind
    <3>1. bucket'[s] = [bucket[s] EXCEPT !.events = <<>>] BY <1>2, <2>2
    <3>2. \A b \in Buckets : /\ [b EXCEPT !.events = <<>>] \in Buckets
                             /\ [b EXCEPT !.events = <<>>].total = b.total
                             /\ [b EXCEPT !.events = <<>>].bytes = b.bytes
      BY <2>1, Zenon DEF Buckets
    <3> QED BY <1>3, <2>2, <3>1, <3>2
  <2>3. CASE KindOf[s] # kind BY <1>2, <1>3, <2>3
  <2> QED BY <2>2, <2>3
<1>6. ASSUME NEW s \in StreamIds
      PROVE  /\ jsonl'[s] \in Seq(Nat)
             /\ Len(jsonl'[s]) <= EventMax /\ bytesOf(jsonl'[s]) <= ByteMax
             /\ KindOf[s] # kind => jsonl'[s] = jsonl[s]
             /\ KindOf[s] = kind /\ s \notin failing => jsonl'[s] = bucket[s].events
  <2>1. jsonl'[s] = IF s \in some \ failing THEN bucket[s].events ELSE jsonl[s] BY <1>1
  <2>2. jsonl[s] \in Seq(Nat) /\ Len(jsonl[s]) <= EventMax /\ bytesOf(jsonl[s]) <= ByteMax
    BY DEF StreamTypes, WrittenIsWhole
  <2>3. CASE s \in some \ failing
    <3>1. ~isTaken(s) BY <1>4, <2>3
    <3>2. /\ bucket[s].total <= EventMax /\ bucket[s].bytes <= ByteMax
          /\ bucket[s].total = Len(bucket[s].events)
          /\ bucket[s].bytes = bytesOf(bucket[s].events)
      BY <3>1 DEF BucketsAreCounted
    <3> QED BY <1>3, <2>1, <2>3, <3>2
  <2>4. CASE s \notin some \ failing
    <3>1. jsonl'[s] = jsonl[s] BY <2>1, <2>4
    <3>2. KindOf[s] = kind /\ s \notin failing => bucket[s].events = <<>> /\ jsonl[s] = <<>>
      BY <1>4, <2>4 DEF WrittenIsWhole
    <3> QED BY <2>2, <3>1, <3>2
  <2> QED BY <2>3, <2>4
<1>7. StreamTypes'
  <2>1. bucket' \in [StreamIds -> Buckets] BY <1>2, <1>5
  <2>2. jsonl' \in [StreamIds -> Seq(Nat)] BY <1>1, <1>6
  <2>3. unwritten' \subseteq StreamIds BY <1>1 DEF StreamTypes
  <2> QED BY <1>2, <2>1, <2>2, <2>3 DEF StreamTypes
<1>8. BucketsAreCounted'
  <2>1. ASSUME NEW s \in StreamIds
        PROVE  /\ bucket'[s].total <= EventMax /\ bucket'[s].bytes <= ByteMax
               /\ ~isTaken(s)' => /\ bucket'[s].total = Len(bucket'[s].events)
                                  /\ bucket'[s].bytes = bytesOf(bucket'[s].events)
                                  /\ ~cut' /\ ~missed' => bucket'[s].events = came'[s]
    <3>1. CASE KindOf[s] = kind BY <1>4, <1>5, <3>1 DEF BucketsAreCounted
    <3>2. CASE KindOf[s] # kind BY <1>2, <1>4, <1>5, <3>2 DEF BucketsAreCounted
    <3> QED BY <3>1, <3>2
  <2> QED BY <2>1 DEF BucketsAreCounted
<1>9. WrittenIsWhole'
  <2>1. ASSUME NEW s \in StreamIds
        PROVE  /\ ~isTaken(s)' => jsonl'[s] = <<>>
               /\ isTaken(s)' /\ jsonl'[s] # came'[s] => cut' \/ missed' \/ s \in unwritten'
    <3>1. CASE KindOf[s] = kind
      <4>1. CASE s \in failing BY <1>1, <1>4, <3>1, <4>1
      <4>2. CASE s \notin failing
        <5>1. jsonl'[s] = bucket[s].events BY <1>6, <3>1, <4>2
        <5>2. ~cut /\ ~missed => bucket[s].events = came[s]
          BY <1>4, <3>1 DEF BucketsAreCounted
        <5> QED BY <1>2, <1>4, <3>1, <5>1, <5>2
      <4> QED BY <4>1, <4>2
    <3>2. CASE KindOf[s] # kind
      BY <1>1, <1>2, <1>4, <1>6, <3>2 DEF WrittenIsWhole
    <3> QED BY <3>1, <3>2
  <2> QED BY <1>6, <2>1 DEF WrittenIsWhole
<1>10. LossesAreTold' /\ ConsoleIsCounted' BY <1>2 DEF LossesAreTold, ConsoleIsCounted
<1> QED BY <1>7, <1>8, <1>9, <1>10

-------------------------------------------------------------------------------
(* Streams: the theorems.                                                  *)

\* Type correctness of the streams' and the console's collectors, and what their
\* counters count (collectors.rs).
THEOREM StreamsInvariant == StreamsSpec => []StreamsInv
<1>1. StreamsInit => StreamsInv
  <2> SUFFICES ASSUME StreamsInit PROVE StreamsInv OBVIOUS
  <2> USE DEF StreamsInit
  <2>1. /\ NoBucket \in Buckets
        /\ NoBucket.total = 0
        /\ NoBucket.bytes = 0
        /\ NoBucket.events = <<>>
    BY DEF NoBucket, Buckets
  <2>2. StreamTypes
    <3>1. bucket \in [StreamIds -> Buckets] /\ late \in [StreamIds -> Nat] BY <2>1
    <3>2. came \in [StreamIds -> Seq(Nat)] /\ jsonl \in [StreamIds -> Seq(Nat)] OBVIOUS
    <3>3. console \in Consoles BY DEF Consoles
    <3> QED BY <3>1, <3>2, <3>3 DEF StreamTypes
  <2>3. Len(<<>>) = 0 /\ bytesOf(<<>>) = 0 /\ 0 <= EventMax /\ 0 <= ByteMax
    BY StreamsAssumption, BytesAdd
  <2>4. BucketsAreCounted BY <2>1, <2>3 DEF BucketsAreCounted
  <2>5. WrittenIsWhole
    <3>1. \A s \in StreamIds : jsonl[s] = <<>> /\ came[s] = <<>> OBVIOUS
    <3> QED BY <2>3, <3>1 DEF WrittenIsWhole
  <2>6. LossesAreTold /\ ConsoleIsCounted BY DEF LossesAreTold, ConsoleIsCounted
  <2> QED BY <2>2, <2>4, <2>5, <2>6 DEF StreamsInv
<1>2. StreamsInv /\ [StreamsNext]_streamVars => StreamsInv'
  <2> SUFFICES ASSUME StreamsInv, [StreamsNext]_streamVars PROVE StreamsInv' OBVIOUS
  <2>1. CASE \E s \in StreamIds : \E size \in FrameSizes : push_stream_event(s, size)
    BY <2>1, PushStep
  <2>2. CASE \E s \in StreamIds : FrameMissed(s) BY <2>2, FrameMissedStep
  <2>3. CASE ConsoleEvent BY <2>3, ConsoleStep
  <2>4. CASE \E kind \in {"ws", "sse"} : TakesStreams(kind) BY <2>4, TakesStep
  <2>5. CASE ConsoleFinishes \/ StreamsFinish BY <2>5, ClosingStep
  <2>6. CASE UNCHANGED streamVars
    BY <2>6 DEF streamVars, StreamsInv, StreamTypes, BucketsAreCounted, WrittenIsWhole, isTaken,
                LossesAreTold, ConsoleIsCounted
  <2> QED BY <2>1, <2>2, <2>3, <2>4, <2>5, <2>6 DEF StreamsNext
<1> QED BY <1>1, <1>2, PTL DEF StreamsSpec

\* What is written of a stream is within the limits on its events and bytes, and when
\* it is not all that came until it was taken, or the console's log not all that came,
\* the result says so (push_stream_event, write_frames_jsonl, NetworkCollector::finish).
THEOREM FramesFit == StreamsSpec => []FramesFitOrAreTold
<1>1. StreamsInv => FramesFitOrAreTold
  <2> SUFFICES ASSUME StreamsInv PROVE FramesFitOrAreTold OBVIOUS
  <2> USE DEF StreamsInv
  <2>1. \A s \in StreamIds : Len(jsonl[s]) <= EventMax /\ bytesOf(jsonl[s]) <= ByteMax
    BY DEF WrittenIsWhole
  <2>2. ASSUME phase = "all", NEW s \in StreamIds, jsonl[s] # came[s]
        PROVE  told.cut \/ told.missed \/ told.late \/ s \in unwritten
    <3>1. isTaken(s)
      <4>1. CASE KindOf[s] = "ws" BY <2>2, <4>1 DEF isTaken
      <4>2. CASE KindOf[s] # "ws" BY <2>2, <4>2 DEF isTaken
      <4> QED BY <4>1, <4>2
    <3>2. cut \/ missed \/ s \in unwritten BY <2>2, <3>1 DEF WrittenIsWhole
    <3>3. told.late \/ (told.cut = cut /\ told.missed = missed) BY <2>2 DEF LossesAreTold
    <3> QED BY <3>2, <3>3
  <2>3. console.kept < console.came => console.cut \/ console.missed
    <3>1. console.kept \in Nat /\ console.came \in Nat BY DEF StreamTypes, Consoles
    <3>2. \A n \in Nat : ~(n < n) OBVIOUS
    <3> QED BY <3>1, <3>2 DEF ConsoleIsCounted
  <2> QED BY <2>1, <2>2, <2>3 DEF FramesFitOrAreTold
<1> QED BY <1>1, StreamsInvariant, PTL

-------------------------------------------------------------------------------
(* Readiness: the invariant.                                               *)

ReqStates == {Nowhere, "open", "answered", "done", "failed"}
Told == [what : {"requestWillBeSent", "redirected", "responseReceived", "loadingFinished",
                 "loadingFailed"}, id : Ids]
WaitPlaces == {"navigating", "loop", "measure", "kid", "network", "assess", "sleep", "status",
               "over"}
Frames == {"top", "kid"}
Snapshots == [complete : BOOLEAN, busy : SUBSET Frames, failed : SUBSET Frames, main : BOOLEAN]
Shown == Contents \cup {Blank}
Views == [loader : 0..2, content : Shown, ready : BOOLEAN]
Trackers == [some : BOOLEAN, last : Shown, since : Int, stable : BOOLEAN]
Sightings == [content : Shown, since : Int]
Samples == [start : 0..Budget, loader : 0..2, content : Shown, ready : BOOLEAN,
            net : Snapshots, kid : {Nowhere, "target", "ancillary", "unknown"},
            kept : BOOLEAN, settled : BOOLEAN, failed : BOOLEAN]

\* What the variables range over.
ReadyTypes ==
  /\ world \in Worlds /\ now \in 0..Budget /\ was \in BOOLEAN
  /\ real \in [Ids -> ReqStates] /\ hops \subseteq {"d1", "s"}
  /\ page \in Views
  /\ chan \in Seq(Told) /\ Len(chan) <= Capacity /\ lagged \in BOOLEAN
  /\ slots \in [Ids \cup HopIds -> [state : ReqStates, at : 0..Budget]]
  /\ mainId \in {Nowhere, "d1", "d2", "k"} /\ lastActivity \in Int
  /\ dropped \in BOOLEAN /\ truncated \in BOOLEAN /\ refused \in BOOLEAN
  /\ wpc \in WaitPlaces /\ sm \in Samples
  /\ tracker \in Trackers /\ seen \in Sightings
  /\ report \in [by : {Nowhere, "stable"}, timedOut : BOOLEAN, complete : BOOLEAN,
                 main : {Nowhere, "d1", "d2", "k"}]

\* What the collector or the channel has of a request happened.
EventsAreReal ==
  /\ \A u \in DOMAIN slots : slots[u].state = Nowhere => slots[u] = NoSlot
  /\ \A id \in Ids : /\ slots[id].state = "done" => real[id] = "done"
                     /\ slots[id].state = "failed" => real[id] = "failed"
  /\ \A i \in 1..Len(chan) :
       /\ chan[i].what = "loadingFinished" => real[chan[i].id] = "done"
       /\ chan[i].what = "loadingFailed" => real[chan[i].id] = "failed"
       /\ chan[i].what = "redirected" => chan[i].id \in hops
  /\ page.loader = 2 => real["d2"] # Nowhere

\* Unless something was lost, what happened is in the collector or on its way there.
RequestsAreKnown ==
  ~dropped /\ ~truncated /\ ~lagged =>
    \A id \in Ids : real[id] # Nowhere =>
      slots[id] # NoSlot \/ \E i \in 1..Len(chan) :
                              chan[i].what = "requestWillBeSent" /\ chan[i].id = id

\* A request the target needed when the present tick began is still under way for
\* the collector, or ended in this tick.
Needed(id) == world.strict \/ frameOf(id) = "top" \/ world.kid = "target"
NeedIsSeen ==
  was /\ ~dropped /\ ~truncated =>
    \E id \in Ids : /\ Needed(id) /\ slots[id] # NoSlot
                    /\ Unfinished(id) \/ slots[id].at = now

\* A snapshot in which nothing required is busy was taken when nothing required was.
SnapshotSettles ==
  /\ sm.kid = "ancillary" => ~world.strict /\ world.kid = "ancillary"
  /\ sm.net.complete /\ (sm.net.busy # {} => sm.net.busy = {"kid"} /\ ~world.strict
                                             /\ world.kid = "ancillary") => sm.settled
  /\ sm.net.main => real[IF sm.loader = 2 THEN "d2" ELSE "d1"] = "done"

\* A document is shown once it was answered, and the second only after the first.
DocumentsFollow ==
  /\ page.loader # 0 => real["d1"] \in {"answered", "done", "failed"}
  /\ real["d2"] # Nowhere => page.loader # 0
  /\ wpc # "navigating" => page.loader # 0

Sampling == wpc \in {"measure", "kid", "network", "assess"}
Measured == wpc \in {"kid", "network", "assess"}

\* A sample takes no longer than it may.
SampleIsShort ==
  /\ sm.start <= now
  /\ Sampling => now <= sm.start + SampleMax

\* A document that replaced the frame tree's since the sample began has an event that is
\* on its way, was filed since, or was lost; if it was measured, the network snapshot
\* knows or is incomplete.
IsAnswer(ev) == ev.what = "responseReceived" /\ ev.id = "d2"
Arriving == \/ lagged \/ dropped \/ \E i \in 1..Len(chan) : IsAnswer(chan[i])
            \/ slots["d2"] = NoSlot \/ slots["d2"].at >= sm.start
Filed == dropped \/ truncated \/ (slots["d2"] # NoSlot /\ slots["d2"].at >= sm.start)
ReplacedIsSeen ==
  /\ wpc = "measure" /\ page.loader # sm.loader => page.loader = 2 /\ Arriving
  /\ wpc = "measure" => ~sm.net.complete
  /\ Measured /\ ~sm.kept => Filed
  /\ Idle > SampleMax /\ ~sm.kept /\ sm.net.complete => "top" \in sm.net.busy

\* The tracker's content is what all samples measured for at least as long as it says.
ContentIsHeld ==
  /\ seen.since <= now
  /\ Sampling => seen.since <= sm.start
  /\ wpc \in {"navigating", "loop", "measure", "sleep"} /\ tracker.some =>
       seen.content = tracker.last /\ seen.since <= tracker.since
  /\ Measured => /\ seen.content = sm.content
                 /\ tracker.some /\ tracker.last = sm.content => seen.since <= tracker.since

\* The reserve for the main document, while no subresource was redirected.
ReserveIsKept ==
  /\ Cardinality(Used) <= world.limit
  /\ mainId = Nowhere /\ "s" \notin hops => Cardinality(Used) + 1 <= world.limit
  /\ MainDocumentFits

\* A report of readiness has what it says, and only a wait that is over has one.
ReportIsEarned ==
  /\ report.timedOut => wpc \in {"status", "over"}
  /\ sm.failed => ~report.complete /\ ~Sampling
  /\ report.by # Nowhere =>
       /\ wpc \in {"status", "over"} /\ ~report.timedOut /\ report.complete
       /\ sm.settled /\ sm.net.main /\ (Idle > SampleMax => sm.kept)
       /\ seen.content = sm.content /\ sm.start - seen.since >= Stable

ReadyInv ==
  /\ ReadyTypes /\ EventsAreReal /\ RequestsAreKnown /\ NeedIsSeen /\ SnapshotSettles
  /\ DocumentsFollow /\ SampleIsShort /\ ReplacedIsSeen /\ ContentIsHeld /\ ReserveIsKept
  /\ ReportIsEarned

-------------------------------------------------------------------------------
(* Readiness: what each kind of step leaves alone.                         *)

LEMMA ReadyBounds ==
  /\ Capacity \in Nat /\ Capacity >= 1 /\ Idle \in Nat /\ Idle >= 1 /\ Stable \in Nat
  /\ SampleMax \in Nat /\ SampleMax >= 1 /\ Budget \in Nat /\ Budget >= 1
BY ReadyAssumption

\* The wait reads the page and the collector; it changes itself, and which document is
\* the main one.
LEMMA WaitLeaves ==
  ASSUME Waits
  PROVE  /\ UNCHANGED <<world, now, was, real, hops, chan, lagged, slots, dropped, truncated>>
         /\ UNCHANGED <<lastActivity, refused, page>>
<1>1. CASE WaitStarts BY <1>1 DEF WaitStarts, pageVars, wire, collector
<1>2. CASE BeginsSample BY <1>2 DEF BeginsSample, pageVars, wire, collector
<1>3. CASE Measures BY <1>3 DEF Measures, pageVars, wire, collector
<1>4. CASE LooksAtKid BY <1>4 DEF LooksAtKid, pageVars, wire, collector
<1>5. CASE ReadsNetwork BY <1>5 DEF ReadsNetwork, pageVars, wire
<1>6. CASE Assesses BY <1>6 DEF Assesses, pageVars, wire, collector
<1>7. CASE SampleCut BY <1>7 DEF SampleCut, pageVars, wire, collector
<1>8. CASE SampleFails BY <1>8 DEF SampleFails, pageVars, wire, collector
<1>9. CASE Sleeps BY <1>9 DEF Sleeps, pageVars, wire, collector
<1>10. CASE WaitTimesOut BY <1>10 DEF WaitTimesOut, pageVars, wire, collector
<1>11. CASE ReportsMain BY <1>11 DEF ReportsMain, pageVars, wire
<1> QED BY <1>1, <1>2, <1>3, <1>4, <1>5, <1>6, <1>7, <1>8, <1>9, <1>10, <1>11 DEF Waits

\* The page tells the channel; it knows nothing of collector and wait.
LEMMA PageLeaves ==
  ASSUME PageMoves
  PROVE  /\ UNCHANGED <<world, now, was, slots, mainId, dropped, truncated, lastActivity, refused>>
         /\ UNCHANGED <<wpc, sm, tracker, seen, report>>
<1>1. CASE PageRequests BY <1>1 DEF PageRequests, collector, waiter
<1>2. CASE PageIsRedirected BY <1>2 DEF PageIsRedirected, collector, waiter
<1>3. CASE PageAnswered BY <1>3 DEF PageAnswered, collector, waiter
<1>4. CASE PageLoaded BY <1>4 DEF PageLoaded, collector, waiter
<1>5. CASE PageRenders BY <1>5 DEF PageRenders, collector, waiter
<1> QED BY <1>1, <1>2, <1>3, <1>4, <1>5 DEF PageMoves

LEMMA CollectingLeaves ==
  ASSUME Collecting
  PROVE  UNCHANGED <<world, now, was, real, hops, page, wpc, sm, tracker, seen, report>>
BY DEF Collecting, CollectorLags, Collects, pageVars, waiter

LEMMA TickLeaves ==
  ASSUME Tick
  PROVE  UNCHANGED <<world, real, hops, page, chan, lagged, mainId, dropped, truncated, refused,
                     wpc, sm, report>>
BY DEF Tick, pageVars, wire

\* What a step is.
LEMMA ReadySteps ==
  ASSUME [ReadyNext]_readyVars
  PROVE  Waits \/ Tick \/ Collecting \/ PageMoves \/
         UNCHANGED <<world, now, was, real, hops, page, chan, lagged, slots, mainId, dropped,
                     truncated, lastActivity, refused, wpc, sm, tracker, seen, report>>
BY DEF ReadyNext, readyVars, pageVars, wire, collector, waiter

\* An event is the channel's last; one is dropped only when that shows.
LEMMA EventSent ==
  ASSUME ReadyTypes, NEW ev \in Told, sends(ev)
  PROVE  /\ chan' \in Seq(Told) /\ Len(chan') <= Capacity /\ lagged' \in BOOLEAN
         /\ \A i \in 1..Len(chan') :
              chan'[i] = ev \/ \E j \in 1..Len(chan) : chan'[i] = chan[j]
         /\ ~lagged' => /\ ~lagged /\ Len(chan') = Len(chan) + 1
                        /\ chan'[Len(chan) + 1] = ev
                        /\ \A i \in 1..Len(chan) : chan'[i] = chan[i]
<1>1. chan \in Seq(Told) /\ Len(chan) <= Capacity /\ lagged \in BOOLEAN BY DEF ReadyTypes
<1>2. Capacity \in Nat /\ Capacity >= 1 BY ReadyBounds
<1>3. CASE Len(chan) < Capacity
  <2>1. chan' = Append(chan, ev) /\ lagged' = lagged BY <1>1, <1>2, <1>3 DEF sends
  <2> QED BY <1>1, <1>2, <1>3, <2>1
<1>4. CASE ~(Len(chan) < Capacity)
  <2>0. Len(chan) = Capacity BY <1>1, <1>2, <1>4
  <2>1. chan' = Append(Tail(chan), ev) /\ lagged'
    <3>1. chan' = Append(Tail(chan), ev) BY <1>4 DEF sends
    <3>2. lagged' = (lagged \/ Len(chan) = Capacity) BY DEF sends
    <3> QED BY <2>0, <3>1, <3>2, Zenon
  <2>2. chan # <<>> /\ Len(chan) \in Nat /\ Len(chan) >= 1 BY <1>1, <1>2, <1>4
  <2>3. /\ Tail(chan) \in Seq(Told) /\ Len(Tail(chan)) = Len(chan) - 1
        /\ \A i \in 1..Len(Tail(chan)) : Tail(chan)[i] = chan[i + 1]
    BY <1>1, <2>2
  <2>4. /\ chan' \in Seq(Told) /\ Len(chan') = Len(chan)
        /\ \A i \in 1..Len(Tail(chan)) : chan'[i] = Tail(chan)[i]
        /\ chan'[Len(chan)] = ev
    BY <2>1, <2>2, <2>3
  <2>5. ASSUME NEW i \in 1..Len(chan')
        PROVE  chan'[i] = ev \/ \E j \in 1..Len(chan) : chan'[i] = chan[j]
    <3>1. CASE i = Len(chan) BY <3>1, <2>4
    <3>2. CASE i # Len(chan)
      <4>0. i \in 1..Len(chan) /\ i \in Nat BY <2>4
      <4>1. i \in 1..Len(Tail(chan)) /\ i + 1 \in 1..Len(chan)
        <5>1. \A n, m \in Nat : n \in 1..m /\ n # m => n \in 1..(m - 1) /\ n + 1 \in 1..m
          OBVIOUS
        <5> QED BY ONLY <5>1, <4>0, <3>2, <2>2, <2>3
      <4> QED BY <4>1, <2>3, <2>4
    <3> QED BY <3>1, <3>2
  <2> QED BY <1>1, <1>2, <1>4, <2>1, <2>4, <2>5
<1> QED BY <1>3, <1>4

-------------------------------------------------------------------------------
(* Readiness: what the collector makes of an event.                        *)

LEMMA HopsApart ==
  ASSUME NEW id \in Ids
  PROVE  /\ id \notin HopIds /\ frameOf(id) \in Frames
         /\ id \in {"d1", "s"} => hopId(id) \in HopIds /\ hopId(id) \notin Ids
BY DEF Ids, HopIds, hopId, frameOf, Frames

LEMMA HeadTaken ==
  ASSUME ReadyTypes, Collects
  PROVE  /\ Head(chan) \in Told /\ Len(chan) \in Nat /\ Len(chan) >= 1 /\ Head(chan) = chan[1]
         /\ chan' \in Seq(Told) /\ Len(chan') = Len(chan) - 1
         /\ \A i \in 1..Len(chan') : i + 1 \in 1..Len(chan) /\ chan'[i] = chan[i + 1]
         /\ ~lagged /\ lagged' = lagged /\ dropped' = dropped /\ lastActivity' = now
<1>1. chan \in Seq(Told) /\ chan # <<>> /\ chan' = Tail(chan) BY DEF ReadyTypes, Collects
<1>2. ~lagged /\ lagged' = lagged /\ dropped' = dropped /\ lastActivity' = now
  BY DEF Collects, handle_event
<1> QED BY <1>1, <1>2

LEMMA UsedIsFinite == IsFiniteSet(Used) /\ Cardinality(Used) \in Nat
<1>1. ASSUME NEW S, NEW T, IsFiniteSet(S), IsFiniteSet(T) PROVE IsFiniteSet(S \cup T)
  BY <1>1, FS_Union
<1>2. ASSUME NEW e PROVE IsFiniteSet({e}) BY FS_Singleton
<1>3. ASSUME NEW a, NEW b PROVE IsFiniteSet({a, b})
  <2>1. IsFiniteSet({a} \cup {b}) BY <1>1, <1>2
  <2>2. {a, b} = {a} \cup {b} OBVIOUS
  <2> QED BY <2>1, <2>2
<1>4. Ids \cup HopIds = (({"d1", "d2"} \cup {"s", "t"}) \cup {"k", "x"})
                         \cup {"d1#redirect", "s#redirect"}
  BY DEF Ids, HopIds
<1>5. IsFiniteSet(Ids \cup HopIds) BY <1>1, <1>3, <1>4
<1>6. Used \subseteq Ids \cup HopIds BY DEF Used
<1> QED BY <1>5, <1>6, FS_Subset, FS_CardinalityType

\* A request, or what a redirect made of it, has a slot of its own.
LEMMA SentIsKept ==
  ASSUME ReadyTypes, NEW ev \in Told, handleSent(ev), hasRoom(ev.id),
         ev.what = "redirected" => ev.id \in {"d1", "s"}
  PROVE  /\ slots' \in [Ids \cup HopIds -> [state : ReqStates, at : 0..Budget]]
         /\ slots'[ev.id] = [state |-> "open", at |-> now]
         /\ \A u \in Ids \ {ev.id} : slots'[u] = slots[u]
         /\ \/ \A u \in HopIds : slots'[u] = slots[u]
            \/ /\ ev.what = "redirected" /\ slots[ev.id] # NoSlot
               /\ Cardinality(Used \ {ev.id}) + 2 <= world.limit
               /\ slots'[hopId(ev.id)] = [state |-> "done", at |-> now]
               /\ \A u \in HopIds \ {hopId(ev.id)} : slots'[u] = slots[u]
         /\ mainId' = IF Doc(ev.id) /\ mainId = Nowhere THEN ev.id ELSE mainId
         /\ UNCHANGED refused
<1> DEFINE atHop == IF ev.what = "redirected" THEN moved(ev.id) ELSE slots
<1>1. /\ mainId' = IF Doc(ev.id) /\ mainId = Nowhere THEN ev.id ELSE mainId
      /\ slots' = [atHop EXCEPT ![ev.id] = [state |-> "open", at |-> now]]
      /\ UNCHANGED refused
  BY DEF handleSent
<1>2. /\ slots \in [Ids \cup HopIds -> [state : ReqStates, at : 0..Budget]]
      /\ now \in 0..Budget /\ ev.id \in Ids /\ ev.id \notin HopIds
      /\ [state |-> "open", at |-> now] \in [state : ReqStates, at : 0..Budget]
      /\ [state |-> "done", at |-> now] \in [state : ReqStates, at : 0..Budget]
  BY HopsApart DEF ReadyTypes, Told, ReqStates
<1>3. CASE atHop = slots BY <1>1, <1>2, <1>3
<1>4. CASE atHop # slots
  <2>1. /\ ev.what = "redirected" /\ slots[ev.id] # NoSlot
        /\ ~(Cardinality(Used \ {ev.id}) + 2 > world.limit)
        /\ atHop = [slots EXCEPT ![hopId(ev.id)] = [state |-> "done", at |-> now]]
    BY <1>4 DEF moved
  <2>2. hopId(ev.id) \in HopIds /\ hopId(ev.id) \notin Ids BY <2>1, <1>2, HopsApart
  <2>3. Cardinality(Used \ {ev.id}) + 2 <= world.limit
    <3>1. world.limit \in Int BY NetworksAssumption DEF ReadyTypes
    <3>2. IsFiniteSet(Used) BY UsedIsFinite
    <3>3. Cardinality(Used \ {ev.id}) \in Nat BY <3>2, FS_Subset, FS_CardinalityType
    <3> QED BY <2>1, <3>1, <3>3
  <2> HIDE DEF atHop
  <2> QED BY <1>1, <1>2, <2>1, <2>2, <2>3
<1> QED BY <1>3, <1>4

\* An event of a request that is known changes its slot only.
LEMMA UpdateIsKept ==
  ASSUME ReadyTypes, NEW ev \in Told, handleUpdate(ev),
         ev.what \notin {"requestWillBeSent", "redirected"}
  PROVE  /\ slots' \in [Ids \cup HopIds -> [state : ReqStates, at : 0..Budget]]
         /\ \A u \in DOMAIN slots : u # ev.id => slots'[u] = slots[u]
         /\ slots[ev.id] = NoSlot => slots' = slots
         /\ slots[ev.id] # NoSlot =>
              /\ slots'[ev.id] = [state |-> stateAfter(ev.what), at |-> now]
              /\ stateAfter(ev.what) \in {"answered", "done", "failed"}
              /\ stateAfter(ev.what) = "done" => ev.what = "loadingFinished"
              /\ stateAfter(ev.what) = "failed" => ev.what = "loadingFailed"
         /\ UNCHANGED <<mainId, truncated, refused>>
<1>1. /\ slots \in [Ids \cup HopIds -> [state : ReqStates, at : 0..Budget]]
      /\ now \in 0..Budget /\ ev.id \in Ids
      /\ ev.what \in {"responseReceived", "loadingFinished", "loadingFailed"}
  BY DEF ReadyTypes, Told
<1>2. /\ stateAfter(ev.what) \in {"answered", "done", "failed"}
      /\ stateAfter(ev.what) = "done" => ev.what = "loadingFinished"
      /\ stateAfter(ev.what) = "failed" => ev.what = "loadingFailed"
  BY <1>1 DEF stateAfter
<1>3. /\ slots' = IF slots[ev.id] = NoSlot THEN slots
                  ELSE [slots EXCEPT ![ev.id] = [@ EXCEPT !.state = stateAfter(ev.what), !.at = now]]
      /\ UNCHANGED <<mainId, truncated, refused>>
  BY DEF handleUpdate
<1>4. [slots[ev.id] EXCEPT !.state = stateAfter(ev.what), !.at = now]
        = [state |-> stateAfter(ev.what), at |-> now]
  <2> DEFINE slot == [slots[ev.id] EXCEPT !.state = stateAfter(ev.what), !.at = now]
  <2>1. slots[ev.id] \in [state : ReqStates, at : 0..Budget] BY <1>1
  <2>2. stateAfter(ev.what) \in ReqStates BY <1>2 DEF ReqStates
  <2>3. slot \in [state : ReqStates, at : 0..Budget] BY <1>1, <2>1, <2>2
  <2>4. slot.state = stateAfter(ev.what) /\ slot.at = now BY <2>1
  <2>5. slot = [state |-> slot.state, at |-> slot.at]
    <3> HIDE DEF slot
    <3> QED BY <2>3
  <2> HIDE DEF slot
  <2>6. slot = [state |-> stateAfter(ev.what), at |-> now] BY <2>4, <2>5
  <2> QED BY <2>6 DEF slot
<1>5. [state |-> stateAfter(ev.what), at |-> now] \in [state : ReqStates, at : 0..Budget]
  BY <1>1, <1>2 DEF ReqStates
<1>6. CASE slots[ev.id] = NoSlot BY <1>1, <1>3, <1>6
<1>7. CASE slots[ev.id] # NoSlot
  <2>1. slots' = [slots EXCEPT ![ev.id] = [state |-> stateAfter(ev.what), at |-> now]]
    BY <1>3, <1>4, <1>7
  <2> QED BY <1>1, <1>2, <1>3, <1>5, <1>7, <2>1
<1> QED BY <1>6, <1>7

\* What becomes of the slots of requests, whatever the event.
LEMMA SlotsFollow ==
  ASSUME ReadyTypes, EventsAreReal, Collects
  PROVE  /\ slots' \in [Ids \cup HopIds -> [state : ReqStates, at : 0..Budget]]
         /\ \A id \in Ids :
              \/ slots'[id] = slots[id]
              \/ /\ id = chan[1].id /\ slots'[id].at = now
                 /\ slots'[id].state \in {"open", "answered", "done", "failed"}
                 /\ slots'[id].state = "done" => chan[1].what = "loadingFinished"
                 /\ slots'[id].state = "failed" => chan[1].what = "loadingFailed"
         /\ \A u \in HopIds : slots'[u] = slots[u] \/ slots'[u].state = "done"
         /\ mainId' \in {Nowhere, "d1", "d2", "k"}
         /\ truncated' \in BOOLEAN /\ refused' \in BOOLEAN /\ (truncated => truncated')
         /\ chan[1].what = "requestWillBeSent" => truncated' \/ slots'[chan[1].id] # NoSlot
<1> DEFINE ev == Head(chan)
<1>1. ev \in Told /\ ev = chan[1] /\ 1 \in 1..Len(chan) BY HeadTaken
<1>2. ev.what = "redirected" => ev.id \in {"d1", "s"}
  BY <1>1 DEF EventsAreReal, ReadyTypes
<1>3. /\ slots \in [Ids \cup HopIds -> [state : ReqStates, at : 0..Budget]]
      /\ mainId \in {Nowhere, "d1", "d2", "k"} /\ ev.id \in Ids
      /\ truncated \in BOOLEAN /\ refused \in BOOLEAN
  BY <1>1 DEF ReadyTypes, Told
<1>4. CASE ev.what \in {"requestWillBeSent", "redirected"}
  <2>1. handleSent(ev) BY <1>4 DEF Collects, handle_event
  <2>2. CASE ~hasRoom(ev.id)
    <3>1. slots' = slots /\ mainId' = mainId /\ truncated' /\ refused' \in BOOLEAN
      <4>1. /\ truncated' = TRUE /\ UNCHANGED <<slots, mainId>>
            /\ refused' = (refused \/ (Doc(ev.id) /\ mainId = Nowhere))
        BY <2>1, <2>2 DEF handleSent
      <4> QED BY <4>1
    <3> QED BY <1>1, <1>3, <3>1
  <2>3. CASE hasRoom(ev.id)
    <3> HIDE DEF ev
    <3>0. /\ slots' \in [Ids \cup HopIds -> [state : ReqStates, at : 0..Budget]]
          /\ slots'[ev.id] = [state |-> "open", at |-> now]
          /\ \A u \in Ids \ {ev.id} : slots'[u] = slots[u]
          /\ \/ \A u \in HopIds : slots'[u] = slots[u]
             \/ /\ ev.what = "redirected" /\ slots[ev.id] # NoSlot
                /\ Cardinality(Used \ {ev.id}) + 2 <= world.limit
                /\ slots'[hopId(ev.id)] = [state |-> "done", at |-> now]
                /\ \A u \in HopIds \ {hopId(ev.id)} : slots'[u] = slots[u]
          /\ mainId' = IF Doc(ev.id) /\ mainId = Nowhere THEN ev.id ELSE mainId
          /\ UNCHANGED refused
      BY <1>1, <1>2, <2>1, <2>3, SentIsKept, Zenon
    <3>5. \A u \in HopIds : slots'[u] = slots[u] \/ slots'[u].state = "done"
      <4>1. [state |-> "done", at |-> now].state = "done" OBVIOUS
      <4> QED BY <3>0, <4>1, Zenon
    <3>1. /\ slots' \in [Ids \cup HopIds -> [state : ReqStates, at : 0..Budget]]
          /\ slots'[ev.id] = [state |-> "open", at |-> now]
          /\ \A u \in Ids \ {ev.id} : slots'[u] = slots[u]
          /\ \A u \in HopIds : slots'[u] = slots[u] \/ slots'[u].state = "done"
          /\ mainId' = IF Doc(ev.id) /\ mainId = Nowhere THEN ev.id ELSE mainId
          /\ refused' = refused
      BY <3>0, <3>5
    <3>2. truncated' \in BOOLEAN /\ (truncated => truncated')
      <4>1. truncated' = (truncated \/ (/\ ev.what = "redirected" /\ slots[ev.id] # NoSlot
                                        /\ moved(ev.id) = slots))
        BY <2>1, <2>3 DEF handleSent
      <4> QED BY <4>1
    <3>3. mainId' \in {Nowhere, "d1", "d2", "k"}
      BY <1>3, <3>1 DEF Doc
    <3>4. slots'[ev.id] # NoSlot BY <3>1 DEF NoSlot, Nowhere
    <3> HIDE DEF ev
    <3> QED BY <1>1, <1>3, <3>1, <3>2, <3>3, <3>4
  <2> QED BY <2>2, <2>3
<1>5. CASE ev.what \notin {"requestWillBeSent", "redirected"}
  <2>1. handleUpdate(ev) BY <1>5 DEF Collects, handle_event
  <2>2. /\ slots' \in [Ids \cup HopIds -> [state : ReqStates, at : 0..Budget]]
        /\ \A u \in DOMAIN slots : u # ev.id => slots'[u] = slots[u]
        /\ slots[ev.id] = NoSlot => slots' = slots
        /\ slots[ev.id] # NoSlot =>
             /\ slots'[ev.id] = [state |-> stateAfter(ev.what), at |-> now]
             /\ stateAfter(ev.what) \in {"answered", "done", "failed"}
             /\ stateAfter(ev.what) = "done" => ev.what = "loadingFinished"
             /\ stateAfter(ev.what) = "failed" => ev.what = "loadingFailed"
        /\ UNCHANGED <<mainId, truncated, refused>>
    BY <1>1, <1>5, <2>1, UpdateIsKept
  <2>3. \A u \in HopIds : slots'[u] = slots[u] BY <1>3, <2>2, HopsApart
  <2> HIDE DEF ev
  <2>4. CASE slots[ev.id] = NoSlot BY <1>1, <1>3, <1>5, <2>2, <2>4
  <2>5. CASE slots[ev.id] # NoSlot
    <3>1. slots'[ev.id].at = now /\ slots'[ev.id].state = stateAfter(ev.what) BY <2>2, <2>5
    <3> QED BY <1>1, <1>3, <1>5, <2>2, <2>3, <2>5, <3>1
  <2> QED BY <2>4, <2>5
<1> QED BY <1>4, <1>5

-------------------------------------------------------------------------------
(* Readiness: types.                                                       *)

LEMMA WorldIsOne ==
  ASSUME ReadyTypes
  PROVE  /\ world.kid \in {Nowhere, "target", "ancillary"} /\ world.strict \in BOOLEAN
         /\ world.limit \in Nat /\ world.limit >= 1
BY NetworksAssumption DEF ReadyTypes, Nowhere

LEMMA WaitKeepsTypes ==
  ASSUME ReadyTypes, Waits
  PROVE  ReadyTypes'
<1> USE DEF ReadyTypes
<1>1. UNCHANGED <<world, now, was, real, hops, chan, lagged, slots, dropped, truncated,
                  lastActivity, refused>>
  BY WaitLeaves
<1>2. page' \in Views BY WaitLeaves
<1>3. NoSample \in Samples
  <2>1. NoNetwork \in Snapshots BY DEF NoNetwork, Snapshots
  <2>2. 0 \in 0..Budget /\ 0 \in 0..2 BY ReadyBounds
  <2> QED BY <2>1, <2>2 DEF NoSample, Samples, Shown
<1>4. SUFFICES /\ mainId' \in {Nowhere, "d1", "d2", "k"} /\ wpc' \in WaitPlaces /\ sm' \in Samples
               /\ tracker' \in Trackers /\ seen' \in Sightings
               /\ report' \in [by : {Nowhere, "stable"}, timedOut : BOOLEAN, complete : BOOLEAN,
                               main : {Nowhere, "d1", "d2", "k"}]
  BY <1>1, <1>2
<1>5. Afresh \in Trackers
  <2>1. sm.start \in Int BY DEF Samples
  <2> QED BY <2>1 DEF Afresh, NoTracker, Trackers, Shown
<1>6. select_main_document \in {Nowhere, "d1", "d2", "k"} BY DEF select_main_document
<1>7. CASE WaitStarts
  BY <1>7 DEF WaitStarts, Goes, collector, WaitPlaces
<1>8. CASE BeginsSample
  <2>1. sm' = [NoSample EXCEPT !.start = now, !.loader = page.loader]
    BY <1>8 DEF BeginsSample
  <2>2. now \in 0..Budget /\ page.loader \in 0..2 BY DEF Views
  <2>3. sm' \in Samples BY <1>3, <2>1, <2>2 DEF Samples
  <2> QED BY <1>8, <2>3 DEF BeginsSample, Goes, collector, WaitPlaces
<1>9. CASE Measures
  <2>1. sm' = [sm EXCEPT !.content = page.content, !.ready = page.ready,
                         !.kept = page.loader = sm.loader]
    BY <1>9 DEF Measures
  <2> DEFINE kept == page.loader = sm.loader
  <2>2. sm \in Samples /\ page.content \in Shown /\ page.ready \in BOOLEAN /\ kept \in BOOLEAN
    BY DEF Views
  <2>3. sm' \in Samples
    <3>1. sm' = [sm EXCEPT !.content = page.content, !.ready = page.ready, !.kept = kept]
      BY <2>1
    <3> HIDE DEF kept
    <3> QED BY <2>2, <3>1 DEF Samples
  <2>4. seen' \in Sightings
    <3>1. sm.start \in Int BY <2>2 DEF Samples
    <3>2. seen' = seen \/ seen' = [content |-> page.content, since |-> sm.start]
      BY <1>9 DEF Measures
    <3> QED BY <2>2, <3>1, <3>2 DEF Sightings
  <2> QED BY <1>9, <2>3, <2>4 DEF Measures, Goes, collector, WaitPlaces
<1>10. CASE LooksAtKid
  <2>1. PICK scope \in {kidScope, "unknown"} :
          sm' = [sm EXCEPT !.kid = scope,
                   !.ready = @ /\ (scope = "target" => real["k"] \notin {"open", "answered"})]
    BY <1>10 DEF LooksAtKid
  <2>2. scope \in {Nowhere, "target", "ancillary", "unknown"}
    BY WorldIsOne DEF kidScope
  <2>3. PICK ready \in BOOLEAN : sm' = [sm EXCEPT !.kid = scope, !.ready = ready]
    <3> DEFINE ready == sm.ready /\ (scope = "target" => real["k"] \notin {"open", "answered"})
    <3>1. ready \in BOOLEAN OBVIOUS
    <3>2. sm' = [sm EXCEPT !.kid = scope, !.ready = ready] BY <2>1
    <3> HIDE DEF ready
    <3> QED BY <3>1, <3>2
  <2>4. sm' \in Samples BY <2>2, <2>3 DEF Samples
  <2> QED BY <1>10, <2>4 DEF LooksAtKid, Goes, collector, WaitPlaces
<1>11. CASE ReadsNetwork
  <2>1. readiness_snapshot \in Snapshots
    <3>1. \A id \in Used : frameOf(id) \in Frames BY DEF frameOf, Frames
    <3>2. complete \in BOOLEAN BY DEF complete
    <3> QED BY <3>1, <3>2 DEF readiness_snapshot, Snapshots
  <2>2. sm' = [sm EXCEPT !.net = readiness_snapshot, !.settled = ~was]
    BY <1>11 DEF ReadsNetwork
  <2> HIDE DEF readiness_snapshot
  <2>3. sm' \in Samples BY <2>1, <2>2 DEF Samples
  <2> QED BY <1>6, <1>11, <2>3 DEF ReadsNetwork, Goes, WaitPlaces
<1>12. CASE Assesses
  <2>1. sm' \in Samples /\ wpc' \in WaitPlaces /\ mainId' = mainId
    BY <1>3, <1>12 DEF Assesses, Goes, collector, WaitPlaces
  <2>2. tracker' \in Trackers
    <3>1. observes(tracker) \in Trackers
      <4>1. /\ sm.start \in Int /\ sm.content \in Shown /\ tracker.since \in Int
            /\ tracker.last \in Shown /\ tracker.some \in BOOLEAN
        BY DEF Samples, Trackers
      <4> QED BY <4>1 DEF observes, Trackers
    <3>2. tracker' = observes(tracker) \/ tracker' = Afresh BY <1>12 DEF Assesses
    <3> QED BY <1>5, <3>1, <3>2
  <2>3. report' \in [by : {Nowhere, "stable"}, timedOut : BOOLEAN, complete : BOOLEAN,
                     main : {Nowhere, "d1", "d2", "k"}]
    <3>1. PICK c \in BOOLEAN, b \in {Nowhere, "stable"} :
            report' = [report EXCEPT !.complete = c, !.by = b]
      <4>1. \E c \in BOOLEAN, b \in {Nowhere, "stable"} :
              report' = [report EXCEPT !.complete = c, !.by = b]
        BY <1>12 DEF Assesses, observed, Samples, Snapshots
      <4> QED BY <4>1
    <3> QED BY <3>1
  <2>4. seen' = seen BY <1>12 DEF Assesses
  <2> QED BY <2>1, <2>2, <2>3, <2>4
<1>13. CASE SampleCut
  BY <1>3, <1>13 DEF SampleCut, Goes, collector, WaitPlaces
<1>14. CASE SampleFails
  <2>1. sm' \in Samples
    <3>1. sm' = [NoSample EXCEPT !.failed = TRUE] BY <1>14 DEF SampleFails
    <3> QED BY <1>3, <3>1 DEF Samples
  <2>2. seen' \in Sightings BY <1>14 DEF SampleFails, NothingSeen, Sightings, Shown
  <2> QED BY <1>5, <1>14, <2>1, <2>2 DEF SampleFails, losesEvidence, Goes, collector, WaitPlaces
<1>15. CASE Sleeps BY <1>15 DEF Sleeps, Goes, collector, WaitPlaces
<1>16. CASE WaitTimesOut BY <1>16 DEF WaitTimesOut, Goes, collector, WaitPlaces
<1>17. CASE ReportsMain BY <1>6, <1>17 DEF ReportsMain, Goes, WaitPlaces
<1> QED BY <1>7, <1>8, <1>9, <1>10, <1>11, <1>12, <1>13, <1>14, <1>15, <1>16, <1>17 DEF Waits

LEMMA TickTypes ==
  ASSUME ReadyTypes, Tick
  PROVE  ReadyTypes'
<1> USE DEF ReadyTypes
<1>1. /\ now' = now + 1 /\ now < Budget /\ was' = (RequiredOfAll(UnderWay(real)) # {})
      /\ seen' = [seen EXCEPT !.since = AtLeast(@, now' - Stable - SampleMax)]
      /\ tracker' = [tracker EXCEPT !.since = AtLeast(@, now' - Stable - SampleMax)]
      /\ lastActivity' = AtLeast(lastActivity, now' - Idle)
      /\ slots' = [id \in DOMAIN slots |-> IF slots[id] = NoSlot THEN NoSlot
                                      ELSE [slots[id] EXCEPT !.at = AtLeast(@, now' - Idle)]]
  BY DEF Tick
<1>2. now' \in 0..Budget /\ was' \in BOOLEAN
  <2>1. now' \in 0..Budget
    <3>1. now \in 0..Budget OBVIOUS
    <3>2. \A n \in 0..Budget : n < Budget => n + 1 \in 0..Budget BY ONLY ReadyBounds
    <3> QED BY ONLY <1>1, <3>1, <3>2
  <2>2. was' \in BOOLEAN BY ONLY <1>1
  <2> QED BY <2>1, <2>2
<1>3. \A n, m \in Int : AtLeast(n, m) \in Int BY DEF AtLeast
<1>4. seen' \in Sightings
  <2>1. seen.since \in Int BY DEF Sightings
  <2>2. now' - Stable - SampleMax \in Int BY ONLY <1>2, ReadyBounds
  <2>3. AtLeast(seen.since, now' - Stable - SampleMax) \in Int BY ONLY <1>3, <2>1, <2>2
  <2> QED BY <1>1, <2>3 DEF Sightings
<1>5. tracker' \in Trackers
  <2>1. tracker.since \in Int BY DEF Trackers
  <2>2. now' - Stable - SampleMax \in Int BY ONLY <1>2, ReadyBounds
  <2>3. AtLeast(tracker.since, now' - Stable - SampleMax) \in Int BY ONLY <1>3, <2>1, <2>2
  <2> QED BY <1>1, <2>3 DEF Trackers
<1>6. lastActivity' \in Int BY <1>1, <1>2, <1>3, ReadyBounds
<1>7. slots' \in [Ids \cup HopIds -> [state : ReqStates, at : 0..Budget]]
  <2>1. ASSUME NEW u \in DOMAIN slots
        PROVE  [slots[u] EXCEPT !.at = AtLeast(@, now' - Idle)] \in [state : ReqStates, at : 0..Budget]
    <3>1. slots[u].at \in 0..Budget /\ slots[u] \in [state : ReqStates, at : 0..Budget] OBVIOUS
    <3>2. AtLeast(slots[u].at, now' - Idle) \in 0..Budget
      <4>1. \A n \in 0..Budget, m \in Int : m <= Budget => AtLeast(n, m) \in 0..Budget
        BY ReadyBounds DEF AtLeast
      <4>2. \A n \in 0..Budget : n - Idle \in Int /\ n - Idle <= Budget
        BY ONLY ReadyBounds
      <4> QED BY <1>2, <3>1, <4>1, <4>2
    <3> QED BY <3>1, <3>2
  <2>2. NoSlot \in [state : ReqStates, at : 0..Budget]
    <3>1. 0 \in 0..Budget BY ReadyBounds
    <3> QED BY <3>1 DEF NoSlot, ReqStates
  <2> QED BY <1>1, <2>1, <2>2
<1> QED BY <1>2, <1>4, <1>5, <1>6, <1>7, TickLeaves

LEMMA CollectingTypes ==
  ASSUME ReadyTypes, EventsAreReal, Collecting
  PROVE  ReadyTypes'
<1>1. CASE CollectorLags
  <2>1. /\ lagged' = FALSE /\ dropped' = TRUE /\ lastActivity' = now
        /\ UNCHANGED <<chan, slots, mainId, truncated, refused>>
    BY <1>1 DEF CollectorLags
  <2>2. now \in Int BY DEF ReadyTypes
  <2> QED BY <2>1, <2>2, CollectingLeaves DEF ReadyTypes
<1>2. CASE Collects
  <2>1. /\ chan' \in Seq(Told) /\ Len(chan') = Len(chan) - 1 /\ Len(chan) \in Nat
        /\ lagged' = lagged /\ dropped' = dropped /\ lastActivity' = now
    BY <1>2, HeadTaken
  <2>2. /\ slots' \in [Ids \cup HopIds -> [state : ReqStates, at : 0..Budget]]
        /\ mainId' \in {Nowhere, "d1", "d2", "k"}
        /\ truncated' \in BOOLEAN /\ refused' \in BOOLEAN
    BY <1>2, SlotsFollow
  <2>3. Len(chan') <= Capacity
    <3>1. Len(chan) <= Capacity BY DEF ReadyTypes
    <3> QED BY <2>1, <3>1, ReadyBounds
  <2>4. now \in Int BY DEF ReadyTypes
  <2> QED BY <2>1, <2>2, <2>3, <2>4, CollectingLeaves DEF ReadyTypes
<1> QED BY <1>1, <1>2 DEF Collecting

LEMMA PageTypes ==
  ASSUME ReadyTypes, PageMoves
  PROVE  ReadyTypes'
<1> USE DEF ReadyTypes
<1>1. \A what, id : what \in {"requestWillBeSent", "redirected", "responseReceived",
                              "loadingFinished", "loadingFailed"} /\ id \in Ids =>
        [what |-> what, id |-> id] \in Told
  BY DEF Told
<1>2. ASSUME NEW what \in {"requestWillBeSent", "redirected", "responseReceived",
                           "loadingFinished", "loadingFailed"}, NEW id \in Ids, Event(what, id)
      PROVE  chan' \in Seq(Told) /\ Len(chan') <= Capacity /\ lagged' \in BOOLEAN
  BY <1>1, <1>2, EventSent DEF Event
<1>3. SUFFICES /\ real' \in [Ids -> ReqStates] /\ hops' \subseteq {"d1", "s"}
               /\ page' \in Views
               /\ chan' \in Seq(Told) /\ Len(chan') <= Capacity /\ lagged' \in BOOLEAN
  BY PageLeaves
<1>4. CASE PageRequests
  <2>1. PICK id \in Ids : /\ real' = [real EXCEPT ![id] = "open"]
                          /\ Event("requestWillBeSent", id) /\ UNCHANGED <<hops, page>>
    BY <1>4 DEF PageRequests
  <2> QED BY <1>2, <2>1 DEF ReqStates
<1>5. CASE PageIsRedirected
  <2>1. PICK id \in {"d1", "s"} \ hops : /\ hops' = hops \cup {id} /\ Event("redirected", id)
                                         /\ UNCHANGED <<real, page>>
    BY <1>5 DEF PageIsRedirected
  <2>2. id \in Ids BY DEF Ids
  <2> QED BY <1>2, <2>1, <2>2
<1>6. CASE PageAnswered
  <2>1. PICK id \in Ids :
          /\ real' = [real EXCEPT ![id] = "answered"] /\ Event("responseReceived", id)
          /\ \/ page' = page
             \/ \E c \in Contents : page' = [loader |-> loaderOf(id), content |-> c, ready |-> FALSE]
          /\ hops' = hops
    BY <1>6 DEF PageAnswered
  <2>2. loaderOf(id) \in 0..2 BY DEF loaderOf
  <2>3. page' \in Views
    <3>2. CASE page' = page BY <3>2
    <3>3. CASE \E c \in Contents : page' = [loader |-> loaderOf(id), content |-> c, ready |-> FALSE]
      BY <2>2, <3>3 DEF Views, Shown
    <3> QED BY <2>1, <3>2, <3>3
  <2> QED BY <1>2, <2>1, <2>3 DEF ReqStates
<1>7. CASE PageLoaded
  <2>1. PICK id \in Ids, how \in {"done", "failed"} :
          /\ real' = [real EXCEPT ![id] = how]
          /\ page' = page \/ page' = [page EXCEPT !.ready = TRUE]
          /\ Event(IF how = "done" THEN "loadingFinished" ELSE "loadingFailed", id)
          /\ hops' = hops
    BY <1>7 DEF PageLoaded
  <2>2. page' \in Views
    <3>1. CASE page' = page BY <3>1
    <3>2. CASE page' = [page EXCEPT !.ready = TRUE] BY <3>2 DEF Views
    <3> QED BY <2>1, <3>1, <3>2
  <2>3. (IF how = "done" THEN "loadingFinished" ELSE "loadingFailed") \in
          {"requestWillBeSent", "redirected", "responseReceived", "loadingFinished", "loadingFailed"}
    OBVIOUS
  <2> QED BY <1>2, <2>1, <2>2, <2>3 DEF ReqStates
<1>8. CASE PageRenders
  <2>1. /\ \E c \in Contents : page' = [page EXCEPT !.content = c]
        /\ UNCHANGED <<real, hops, chan, lagged>>
    BY <1>8 DEF PageRenders, wire
  <2>2. page' \in Views BY <2>1 DEF Views, Shown
  <2> QED BY <2>1, <2>2
<1> QED BY <1>4, <1>5, <1>6, <1>7, <1>8 DEF PageMoves

LEMMA ReadyTypesStep ==
  ASSUME ReadyTypes, EventsAreReal, [ReadyNext]_readyVars
  PROVE  ReadyTypes'
<1>1. CASE UNCHANGED <<world, now, was, real, hops, page, chan, lagged, slots, mainId, dropped,
                       truncated, lastActivity, refused, wpc, sm, tracker, seen, report>>
  BY <1>1 DEF ReadyTypes
<1> QED BY <1>1, ReadySteps, WaitKeepsTypes, TickTypes, CollectingTypes, PageTypes

-------------------------------------------------------------------------------
(* Readiness: what the collector and the channel have is what happened.    *)

LEMMA TickKeepsSlots ==
  ASSUME ReadyTypes, EventsAreReal, Tick
  PROVE  /\ \A u \in DOMAIN slots : /\ slots'[u].state = slots[u].state
                                    /\ slots'[u] = NoSlot <=> slots[u] = NoSlot
         /\ DOMAIN slots' = DOMAIN slots
<1>1. slots' = [id \in DOMAIN slots |-> IF slots[id] = NoSlot THEN NoSlot
                                ELSE [slots[id] EXCEPT !.at = AtLeast(@, now' - Idle)]]
  BY DEF Tick
<1>2. ASSUME NEW u \in DOMAIN slots
      PROVE  slots'[u].state = slots[u].state /\ (slots'[u] = NoSlot <=> slots[u] = NoSlot)
  <2>1. slots[u] \in [state : ReqStates, at : 0..Budget] BY DEF ReadyTypes
  <2>2. CASE slots[u] = NoSlot BY <1>1, <2>2
  <2>3. CASE slots[u] # NoSlot
    <3>1. slots'[u] = [slots[u] EXCEPT !.at = AtLeast(@, now' - Idle)] BY <1>1, <2>3
    <3>2. slots'[u].state = slots[u].state BY <2>1, <3>1
    <3>3. slots[u].state # Nowhere BY <2>3 DEF EventsAreReal
    <3>4. NoSlot.state = Nowhere BY DEF NoSlot
    <3> QED BY <2>3, <3>2, <3>3, <3>4
  <2> QED BY <2>2, <2>3
<1>3. DOMAIN slots' = DOMAIN slots BY <1>1
<1> QED BY <1>2, <1>3

LEMMA PageMovesStayReal ==
  ASSUME ReadyTypes, EventsAreReal, PageMoves
  PROVE  EventsAreReal'
<1>1. \A what, id : what \in {"requestWillBeSent", "redirected", "responseReceived",
                              "loadingFinished", "loadingFailed"} /\ id \in Ids =>
        [what |-> what, id |-> id] \in Told
  BY DEF Told
\* One request gets further, and an event of it is sent.
<1>2. ASSUME NEW what \in {"requestWillBeSent", "redirected", "responseReceived",
                           "loadingFinished", "loadingFailed"}, NEW id \in Ids, Event(what, id),
             NEW next \in ReqStates, real' = [real EXCEPT ![id] = next], next # Nowhere,
             real[id] \notin {"done", "failed"} \/ next = real[id],
             hops \subseteq hops', page'.loader = 2 => page.loader = 2 \/ id = "d2",
             what = "loadingFinished" => next = "done",
             what = "loadingFailed" => next = "failed",
             what = "redirected" => id \in hops'
      PROVE  EventsAreReal'
  <2>1. slots' = slots BY PageLeaves
  <2>2. /\ real \in [Ids -> ReqStates] /\ "d2" \in Ids
        /\ slots \in [Ids \cup HopIds -> [state : ReqStates, at : 0..Budget]]
    BY DEF ReadyTypes, Ids
  <2>3. /\ real'[id] = next
        /\ \A x \in Ids : x # id => real'[x] = real[x]
    BY <1>2, <2>2
  <2>4. \A x \in Ids : /\ real[x] = "done" => real'[x] = "done"
                       /\ real[x] = "failed" => real'[x] = "failed"
                       /\ real[x] # Nowhere => real'[x] # Nowhere
    BY <1>2, <2>3
  <2>5. ASSUME NEW i \in 1..Len(chan')
        PROVE  /\ chan'[i].what = "loadingFinished" => real'[chan'[i].id] = "done"
               /\ chan'[i].what = "loadingFailed" => real'[chan'[i].id] = "failed"
               /\ chan'[i].what = "redirected" => chan'[i].id \in hops'
    <3>1. chan'[i] = [what |-> what, id |-> id] \/ \E j \in 1..Len(chan) : chan'[i] = chan[j]
      BY <1>1, <1>2, EventSent DEF Event
    <3>2. CASE chan'[i] = [what |-> what, id |-> id] BY <1>2, <2>3, <3>2
    <3>3. ASSUME NEW j \in 1..Len(chan), chan'[i] = chan[j]
          PROVE  /\ chan'[i].what = "loadingFinished" => real'[chan'[i].id] = "done"
                 /\ chan'[i].what = "loadingFailed" => real'[chan'[i].id] = "failed"
                 /\ chan'[i].what = "redirected" => chan'[i].id \in hops'
      <4>0. chan \in Seq(Told) BY DEF ReadyTypes
      <4>1. chan[j] \in Told BY <4>0
      <4>2. chan[j].id \in Ids BY <4>1 DEF Told
      <4> QED BY <1>2, <2>4, <3>3, <4>2 DEF EventsAreReal
    <3> QED BY <3>1, <3>2, <3>3
  <2>6. page'.loader = 2 => real'["d2"] # Nowhere
    BY <1>2, <2>2, <2>3, <2>4 DEF EventsAreReal
  <2>7. \A x \in Ids : /\ slots[x].state = "done" => real'[x] = "done"
                       /\ slots[x].state = "failed" => real'[x] = "failed"
    BY <2>4 DEF EventsAreReal
  <2> QED BY <2>1, <2>5, <2>6, <2>7 DEF EventsAreReal
<1>3. CASE PageRequests
  <2>1. PICK id \in Ids :
          /\ real[id] = Nowhere /\ real' = [real EXCEPT ![id] = "open"]
          /\ Event("requestWillBeSent", id) /\ UNCHANGED <<hops, page>>
    BY <1>3 DEF PageRequests, maySend
  <2> QED BY <1>2, <2>1 DEF ReqStates, Nowhere
<1>4. CASE PageIsRedirected
  <2>1. PICK id \in {"d1", "s"} \ hops :
          /\ hops' = hops \cup {id} /\ Event("redirected", id) /\ UNCHANGED <<real, page>>
          /\ real[id] = "open"
    BY <1>4 DEF PageIsRedirected
  <2>2. id \in Ids /\ real \in [Ids -> ReqStates] BY DEF Ids, ReadyTypes
  <2>3. real' = [real EXCEPT ![id] = "open"] BY <2>1, <2>2
  <2> QED BY <1>2, <2>1, <2>2, <2>3 DEF ReqStates, Nowhere
<1>5. CASE PageAnswered
  <2>1. PICK id \in Ids :
          /\ real[id] = "open" /\ real' = [real EXCEPT ![id] = "answered"]
          /\ Event("responseReceived", id) /\ hops' = hops
          /\ \/ page' = page
             \/ \E c \in Contents : page' = [loader |-> loaderOf(id), content |-> c, ready |-> FALSE]
    BY <1>5 DEF PageAnswered
  <2>2. page'.loader = 2 => page.loader = 2 \/ id = "d2"
    <3>1. CASE page' = page BY <3>1
    <3>2. CASE \E c \in Contents : page' = [loader |-> loaderOf(id), content |-> c, ready |-> FALSE]
      BY <3>2 DEF loaderOf
    <3> QED BY <2>1, <3>1, <3>2
  <2> QED BY <1>2, <2>1, <2>2 DEF ReqStates, Nowhere
<1>6. CASE PageLoaded
  <2>1. PICK id \in Ids, how \in {"done", "failed"} :
          /\ real[id] \in {"open", "answered"} /\ real' = [real EXCEPT ![id] = how]
          /\ page' = page \/ page' = [page EXCEPT !.ready = TRUE]
          /\ Event(IF how = "done" THEN "loadingFinished" ELSE "loadingFailed", id)
          /\ hops' = hops
    BY <1>6 DEF PageLoaded
  <2>2. page'.loader = page.loader BY <2>1 DEF ReadyTypes, Views
  <2>3. CASE how = "done"
    <3>1. Event("loadingFinished", id) BY <2>1, <2>3
    <3> QED BY <1>2, <2>1, <2>2, <2>3, <3>1 DEF ReqStates, Nowhere
  <2>4. CASE how = "failed"
    <3>1. Event("loadingFailed", id) BY <2>1, <2>4
    <3> QED BY <1>2, <2>1, <2>2, <2>4, <3>1 DEF ReqStates, Nowhere
  <2> QED BY <2>3, <2>4
<1>7. CASE PageRenders
  <2>1. UNCHANGED <<real, hops, chan, slots>> /\ page'.loader = page.loader
    BY <1>7, PageLeaves DEF PageRenders, wire, ReadyTypes, Views
  <2> QED BY <2>1 DEF EventsAreReal
<1> QED BY <1>3, <1>4, <1>5, <1>6, <1>7 DEF PageMoves

LEMMA EventsAreRealStep ==
  ASSUME ReadyTypes, EventsAreReal, [ReadyNext]_readyVars
  PROVE  EventsAreReal'
<1>1. CASE UNCHANGED <<real, hops, chan, slots, page>> BY <1>1 DEF EventsAreReal
<1>2. CASE Waits BY <1>1, <1>2, WaitLeaves
<1>3. CASE Tick
  <2>1. UNCHANGED <<real, hops, chan>> BY <1>3, TickLeaves
  <2>2. page'.loader = page.loader BY <1>3, TickLeaves
  <2>3. DOMAIN slots = Ids \cup HopIds BY DEF ReadyTypes
  <2> QED BY <1>3, <2>1, <2>2, <2>3, TickKeepsSlots DEF EventsAreReal
<1>4. CASE CollectorLags
  BY <1>4 DEF CollectorLags, pageVars, EventsAreReal
<1>5. CASE Collects
  <2>1. UNCHANGED <<real, hops, page>> BY <1>5, CollectingLeaves DEF Collecting
  <2>2. /\ slots' \in [Ids \cup HopIds -> [state : ReqStates, at : 0..Budget]]
        /\ slots \in [Ids \cup HopIds -> [state : ReqStates, at : 0..Budget]]
        /\ \A id \in Ids :
             \/ slots'[id] = slots[id]
             \/ /\ id = chan[1].id /\ slots'[id].at = now
                /\ slots'[id].state \in {"open", "answered", "done", "failed"}
                /\ slots'[id].state = "done" => chan[1].what = "loadingFinished"
                /\ slots'[id].state = "failed" => chan[1].what = "loadingFailed"
        /\ \A u \in HopIds : slots'[u] = slots[u] \/ slots'[u].state = "done"
    BY <1>5, SlotsFollow DEF ReadyTypes
  <2>3. /\ 1 \in 1..Len(chan)
        /\ \A i \in 1..Len(chan') : i + 1 \in 1..Len(chan) /\ chan'[i] = chan[i + 1]
    BY <1>5, HeadTaken
  <2>4. \A u \in DOMAIN slots' : slots'[u].state = Nowhere => slots'[u] = NoSlot
    BY <2>2 DEF EventsAreReal, Nowhere
  <2>5. \A id \in Ids : /\ slots'[id].state = "done" => real[id] = "done"
                        /\ slots'[id].state = "failed" => real[id] = "failed"
    BY <2>2, <2>3 DEF EventsAreReal
  <2>6. \A i \in 1..Len(chan') :
          /\ chan'[i].what = "loadingFinished" => real[chan'[i].id] = "done"
          /\ chan'[i].what = "loadingFailed" => real[chan'[i].id] = "failed"
          /\ chan'[i].what = "redirected" => chan'[i].id \in hops
    BY <2>3 DEF EventsAreReal
  <2> QED BY <2>1, <2>4, <2>5, <2>6 DEF EventsAreReal
<1> QED BY <1>1, <1>2, <1>3, <1>4, <1>5, ReadySteps, PageMovesStayReal DEF Collecting

-------------------------------------------------------------------------------
(* Readiness: what happened is known, unless something was lost.           *)

LEMMA PageMovesAreKnown ==
  ASSUME ReadyTypes, RequestsAreKnown, PageMoves
  PROVE  RequestsAreKnown'
<1>1. UNCHANGED <<slots, dropped, truncated>> BY PageLeaves
<1>2. \A what, id : what \in {"requestWillBeSent", "redirected", "responseReceived",
                              "loadingFinished", "loadingFailed"} /\ id \in Ids =>
        [what |-> what, id |-> id] \in Told
  BY DEF Told
<1>3. ASSUME NEW what \in {"requestWillBeSent", "redirected", "responseReceived",
                           "loadingFinished", "loadingFailed"}, NEW id \in Ids, Event(what, id),
             \A x \in Ids : real'[x] # Nowhere =>
               real[x] # Nowhere \/ (x = id /\ what = "requestWillBeSent")
      PROVE  RequestsAreKnown'
  <2> SUFFICES ASSUME ~dropped', ~truncated', ~lagged', NEW x \in Ids, real'[x] # Nowhere
               PROVE  slots'[x] # NoSlot \/ \E i \in 1..Len(chan') :
                        chan'[i].what = "requestWillBeSent" /\ chan'[i].id = x
    BY DEF RequestsAreKnown
  <2>1. /\ ~lagged /\ Len(chan') = Len(chan) + 1
        /\ chan'[Len(chan) + 1] = [what |-> what, id |-> id]
        /\ \A i \in 1..Len(chan) : chan'[i] = chan[i]
    BY <1>2, <1>3, EventSent DEF Event
  <2>2. Len(chan) \in Nat BY DEF ReadyTypes
  <2>3. CASE real[x] # Nowhere
    <3>1. slots[x] # NoSlot \/ \E i \in 1..Len(chan) :
            chan[i].what = "requestWillBeSent" /\ chan[i].id = x
      BY <1>1, <2>1, <2>3 DEF RequestsAreKnown
    <3>2. \A i \in 1..Len(chan) : i \in 1..Len(chan') BY <2>1, <2>2
    <3> QED BY <1>1, <2>1, <3>1, <3>2
  <2>4. CASE x = id /\ what = "requestWillBeSent"
    <3>1. Len(chan) + 1 \in 1..Len(chan') BY <2>1, <2>2
    <3> QED BY <2>1, <2>4, <3>1
  <2> QED BY <1>3, <2>3, <2>4
<1>4. real \in [Ids -> ReqStates] BY DEF ReadyTypes
<1>5. CASE PageRequests
  <2>1. PICK id \in Ids : real' = [real EXCEPT ![id] = "open"] /\ Event("requestWillBeSent", id)
    BY <1>5 DEF PageRequests
  <2> QED BY <1>3, <1>4, <2>1
<1>6. CASE PageIsRedirected
  <2>1. PICK id \in {"d1", "s"} : Event("redirected", id) /\ real' = real
    BY <1>6 DEF PageIsRedirected
  <2>2. id \in Ids BY DEF Ids
  <2> QED BY <1>3, <2>1, <2>2
<1>7. CASE PageAnswered
  <2>1. PICK id \in Ids : /\ real[id] = "open" /\ real' = [real EXCEPT ![id] = "answered"]
                          /\ Event("responseReceived", id)
    BY <1>7 DEF PageAnswered
  <2> QED BY <1>3, <1>4, <2>1 DEF Nowhere
<1>8. CASE PageLoaded
  <2>1. PICK id \in Ids, how \in {"done", "failed"} :
          /\ real[id] \in {"open", "answered"} /\ real' = [real EXCEPT ![id] = how]
          /\ Event(IF how = "done" THEN "loadingFinished" ELSE "loadingFailed", id)
    BY <1>8 DEF PageLoaded
  <2>2. Event("loadingFinished", id) \/ Event("loadingFailed", id)
    <3>1. CASE how = "done" BY <2>1, <3>1
    <3>2. CASE how = "failed" BY <2>1, <3>2
    <3> QED BY <3>1, <3>2
  <2>3. \A x \in Ids : real'[x] # Nowhere => real[x] # Nowhere
    BY <1>4, <2>1 DEF Nowhere
  <2> QED BY <1>3, <2>2, <2>3
<1>9. CASE PageRenders
  BY <1>1, <1>9 DEF PageRenders, wire, RequestsAreKnown
<1> QED BY <1>5, <1>6, <1>7, <1>8, <1>9 DEF PageMoves

LEMMA RequestsAreKnownStep ==
  ASSUME ReadyTypes, EventsAreReal, RequestsAreKnown, [ReadyNext]_readyVars
  PROVE  RequestsAreKnown'
<1>1. CASE UNCHANGED <<real, chan, lagged, slots, dropped, truncated>>
  BY <1>1 DEF RequestsAreKnown
<1>2. CASE Waits BY <1>1, <1>2, WaitLeaves
<1>3. CASE Tick
  <2>1. UNCHANGED <<real, chan, lagged, dropped, truncated>> BY <1>3, TickLeaves
  <2>2. DOMAIN slots = Ids \cup HopIds BY DEF ReadyTypes
  <2> QED BY <1>3, <2>1, <2>2, TickKeepsSlots DEF RequestsAreKnown
<1>4. CASE CollectorLags BY <1>4 DEF CollectorLags, RequestsAreKnown
<1>5. CASE Collects
  <2> SUFFICES ASSUME ~dropped', ~truncated', ~lagged', NEW x \in Ids, real'[x] # Nowhere
               PROVE  slots'[x] # NoSlot \/ \E i \in 1..Len(chan') :
                        chan'[i].what = "requestWillBeSent" /\ chan'[i].id = x
    BY DEF RequestsAreKnown
  <2>1. real' = real BY <1>5, CollectingLeaves DEF Collecting
  <2>2. /\ Len(chan) \in Nat /\ Len(chan) >= 1 /\ Len(chan') = Len(chan) - 1
        /\ \A i \in 1..Len(chan') : chan'[i] = chan[i + 1]
        /\ ~lagged /\ dropped' = dropped
    BY <1>5, HeadTaken
  <2>3. /\ slots'[x] = slots[x] \/ slots'[x].state \in {"open", "answered", "done", "failed"}
        /\ truncated => truncated'
        /\ chan[1].what = "requestWillBeSent" => truncated' \/ slots'[chan[1].id] # NoSlot
    BY <1>5, SlotsFollow
  <2>4. slots[x] # NoSlot \/ \E i \in 1..Len(chan) :
          chan[i].what = "requestWillBeSent" /\ chan[i].id = x
    BY <2>1, <2>2, <2>3 DEF RequestsAreKnown
  <2>5. CASE slots[x] # NoSlot BY <2>3, <2>5 DEF NoSlot, Nowhere
  <2>6. ASSUME NEW i \in 1..Len(chan), chan[i].what = "requestWillBeSent", chan[i].id = x
        PROVE  slots'[x] # NoSlot \/ \E j \in 1..Len(chan') :
                 chan'[j].what = "requestWillBeSent" /\ chan'[j].id = x
    <3>1. CASE i = 1 BY <2>3, <2>6, <3>1
    <3>2. CASE i # 1
      <4>1. \A n, m \in Nat : n \in 1..m /\ n # 1 => n - 1 \in 1..(m - 1) /\ (n - 1) + 1 = n
        OBVIOUS
      <4>2. i \in Nat /\ i \in 1..Len(chan) OBVIOUS
      <4>3. i - 1 \in 1..Len(chan') /\ (i - 1) + 1 = i BY ONLY <2>2, <3>2, <4>1, <4>2
      <4>4. chan'[i - 1] = chan[i] BY <2>2, <4>3
      <4> QED BY <2>6, <4>3, <4>4
    <3> QED BY <3>1, <3>2
  <2> QED BY <2>4, <2>5, <2>6
<1> QED BY <1>1, <1>2, <1>3, <1>4, <1>5, ReadySteps, PageMovesAreKnown DEF Collecting

LEMMA NeedIsSeenStep ==
  ASSUME ReadyTypes, EventsAreReal, RequestsAreKnown, NeedIsSeen, [ReadyNext]_readyVars
  PROVE  NeedIsSeen'
<1>1. CASE UNCHANGED <<world, now, was, slots, dropped, truncated>>
  BY <1>1 DEF NeedIsSeen, Needed, Unfinished
<1>2. CASE Waits BY <1>1, <1>2, WaitLeaves
<1>3. CASE PageMoves BY <1>1, <1>3, PageLeaves
<1>4. CASE Tick
  <2> SUFFICES ASSUME was', ~dropped', ~truncated'
               PROVE  \E id \in Ids : /\ Needed(id)' /\ slots'[id] # NoSlot
                                      /\ Unfinished(id)' \/ slots'[id].at = now'
    BY DEF NeedIsSeen
  <2>1. /\ was' = (RequiredOfAll(UnderWay(real)) # {}) /\ chan = <<>> /\ ~lagged
    BY <1>4 DEF Tick
  <2>2. UNCHANGED <<world, dropped, truncated>> BY <1>4, TickLeaves
  <2>3. PICK id \in Ids : real[id] \in {"open", "answered"} /\ Needed(id)
    BY <2>1 DEF RequiredOfAll, UnderWay, Needed
  <2>4. slots[id] # NoSlot
    BY <2>1, <2>2, <2>3 DEF RequestsAreKnown, Nowhere
  <2>5. slots[id] \in [state : ReqStates, at : 0..Budget] /\ id \in DOMAIN slots
    BY DEF ReadyTypes
  <2>6. Unfinished(id)
    BY <2>3, <2>4, <2>5 DEF EventsAreReal, Unfinished, ReqStates
  <2>7. slots'[id] # NoSlot /\ slots'[id].state = slots[id].state
    BY <1>4, <2>4, <2>5, TickKeepsSlots
  <2> QED BY <2>2, <2>3, <2>6, <2>7 DEF Needed, Unfinished
<1>5. CASE CollectorLags BY <1>5 DEF CollectorLags, NeedIsSeen
<1>6. CASE Collects
  <2> SUFFICES ASSUME was', ~dropped', ~truncated'
               PROVE  \E id \in Ids : /\ Needed(id)' /\ slots'[id] # NoSlot
                                      /\ Unfinished(id)' \/ slots'[id].at = now'
    BY DEF NeedIsSeen
  <2>1. UNCHANGED <<world, now, was>> BY <1>6, CollectingLeaves DEF Collecting
  <2>2. dropped' = dropped BY <1>6, HeadTaken
  <2>3. truncated => truncated' BY <1>6, SlotsFollow
  <2>4. PICK id \in Ids : /\ Needed(id) /\ slots[id] # NoSlot
                          /\ Unfinished(id) \/ slots[id].at = now
    BY <2>1, <2>2, <2>3 DEF NeedIsSeen
  <2>5. \/ slots'[id] = slots[id]
        \/ /\ slots'[id].at = now
           /\ slots'[id].state \in {"open", "answered", "done", "failed"}
    BY <1>6, SlotsFollow
  <2> QED BY <2>1, <2>4, <2>5 DEF Needed, Unfinished, NoSlot, Nowhere
<1> QED BY <1>1, <1>2, <1>3, <1>4, <1>5, <1>6, ReadySteps DEF Collecting

-------------------------------------------------------------------------------
(* Readiness: snapshots.                                                   *)

LEMMA DoneStays ==
  ASSUME ReadyTypes, PageMoves, NEW x \in Ids, real[x] = "done"
  PROVE  real'[x] = "done"
<1>1. real \in [Ids -> ReqStates] BY DEF ReadyTypes
<1> QED
  BY <1>1 DEF PageMoves, PageRequests, maySend, PageIsRedirected, PageAnswered, PageLoaded,
              PageRenders, Nowhere

\* What the wait knows after a step that is no call of a sample.
LEMMA SampleEnds ==
  ASSUME Waits, ~LooksAtKid, ~ReadsNetwork, ~Measures
  PROVE  /\ sm' = sm \/ (sm'.net = NoNetwork /\ sm'.kid = Nowhere)
         /\ mainId' = mainId \/ mainId' = select_main_document
<1>1. NoSample.net = NoNetwork /\ NoSample.kid = Nowhere BY DEF NoSample
<1>2. CASE WaitStarts \/ Sleeps \/ WaitTimesOut
  BY <1>2 DEF WaitStarts, Sleeps, WaitTimesOut, collector
<1>3. CASE BeginsSample
  <2>1. sm' = [NoSample EXCEPT !.start = now, !.loader = page.loader] /\ mainId' = mainId
    BY <1>3 DEF BeginsSample, collector
  <2>2. sm'.net = NoNetwork /\ sm'.kid = Nowhere BY <2>1 DEF NoSample
  <2> QED BY <2>1, <2>2
<1>4. CASE Assesses
  <2>1. (sm' = sm \/ sm' = NoSample) /\ mainId' = mainId BY <1>4 DEF Assesses, collector
  <2> QED BY <1>1, <2>1
<1>5. CASE SampleCut
  <2>1. sm' = NoSample /\ mainId' = mainId BY <1>5 DEF SampleCut, collector
  <2> QED BY <1>1, <2>1
<1>6. CASE SampleFails
  <2>1. sm' = [NoSample EXCEPT !.failed = TRUE] /\ mainId' = mainId
    BY <1>6 DEF SampleFails, collector
  <2>2. sm'.net = NoNetwork /\ sm'.kid = Nowhere BY <2>1 DEF NoSample
  <2> QED BY <2>1, <2>2
<1>7. CASE ReportsMain BY <1>7 DEF ReportsMain
<1> QED BY <1>2, <1>3, <1>4, <1>5, <1>6, <1>7 DEF Waits

LEMMA SnapshotSettlesStep ==
  ASSUME ReadyTypes, EventsAreReal, NeedIsSeen, SnapshotSettles, [ReadyNext]_readyVars
  PROVE  SnapshotSettles'
<1> DEFINE doc == IF sm.loader = 2 THEN "d2" ELSE "d1"
<1>0. doc \in Ids BY DEF Ids
<1>1. CASE UNCHANGED <<world, real, sm>> BY <1>1 DEF SnapshotSettles
<1>2. CASE Tick BY <1>1, <1>2, TickLeaves
<1>3. CASE Collecting BY <1>1, <1>3, CollectingLeaves
<1>4. CASE PageMoves
  <2>1. UNCHANGED <<world, sm>> BY <1>4, PageLeaves
  <2>2. real[doc] = "done" => real'[doc] = "done" BY <1>0, <1>4, DoneStays
  <2> QED BY <2>1, <2>2 DEF SnapshotSettles
<1>5. CASE Waits
  <2>1. UNCHANGED <<world, real>> BY <1>5, WaitLeaves
  <2>2. sm \in Samples BY DEF ReadyTypes
  <2>3. CASE LooksAtKid
    <3>1. PICK scope \in {kidScope, "unknown"} :
            sm' = [sm EXCEPT !.kid = scope,
                     !.ready = @ /\ (scope = "target" => real["k"] \notin {"open", "answered"})]
      BY <2>3 DEF LooksAtKid
    <3>2. sm'.kid = scope /\ sm'.net = sm.net /\ sm'.settled = sm.settled /\ sm'.loader = sm.loader
      BY <2>2, <3>1 DEF Samples
    <3>3. scope = "ancillary" => ~world.strict /\ world.kid = "ancillary" BY DEF kidScope
    <3> QED BY <2>1, <3>2, <3>3 DEF SnapshotSettles
  <2>4. CASE Measures
    <3>1. /\ sm'.kid = sm.kid /\ sm'.net = sm.net /\ sm'.settled = sm.settled
          /\ sm'.loader = sm.loader
      BY <2>2, <2>4 DEF Measures, Samples
    <3> QED BY <2>1, <3>1 DEF SnapshotSettles
  <2>5. CASE ReadsNetwork
    <3>1. sm' = [sm EXCEPT !.net = readiness_snapshot, !.settled = ~was]
      BY <2>5 DEF ReadsNetwork
    <3>2. /\ sm'.kid = sm.kid /\ sm'.net = readiness_snapshot /\ sm'.settled = ~was
          /\ sm'.loader = sm.loader
      <4> HIDE DEF readiness_snapshot
      <4> QED BY <2>2, <3>1 DEF Samples
    <3>3. ASSUME was, complete
          PROVE  \E frame \in readiness_snapshot.busy :
                   frame = "top" \/ world.strict \/ world.kid = "target"
      <4>1. PICK id \in Ids : /\ Needed(id) /\ slots[id] # NoSlot
                              /\ Unfinished(id) \/ slots[id].at = now
        BY <3>3 DEF NeedIsSeen, complete
      <4>2. now - slots[id].at < Idle \/ Unfinished(id)
        <5>1. now \in Int BY DEF ReadyTypes
        <5> QED BY <4>1, <5>1, ReadyBounds
      <4>3. id \in Used BY <4>1 DEF Used
      <4>4. frameOf(id) \in readiness_snapshot.busy BY <4>2, <4>3 DEF readiness_snapshot
      <4> QED BY <4>1, <4>4 DEF Needed
    <3>4. ASSUME readiness_snapshot.complete,
                 readiness_snapshot.busy # {} =>
                   readiness_snapshot.busy = {"kid"} /\ ~world.strict /\ world.kid = "ancillary"
          PROVE  ~was
      <4>1. complete BY <3>4 DEF readiness_snapshot
      <4>2. SUFFICES ASSUME was PROVE FALSE OBVIOUS
      <4>3. PICK frame \in readiness_snapshot.busy :
              frame = "top" \/ world.strict \/ world.kid = "target"
        BY <3>3, <4>1, <4>2
      <4> HIDE DEF readiness_snapshot
      <4> QED BY <3>4, <4>3
    <3>5. ASSUME readiness_snapshot.main PROVE real[doc] = "done"
      <4>1. PICK id \in {"d1", "d2"} : loaderOf(id) = sm.loader /\ slots[id].state = "done"
        BY <3>5 DEF readiness_snapshot
      <4>2. id = doc BY <4>1 DEF loaderOf
      <4>3. id \in Ids BY DEF Ids
      <4> QED BY <4>1, <4>2, <4>3 DEF EventsAreReal
    <3> HIDE DEF readiness_snapshot
    <3> QED BY <2>1, <3>2, <3>4, <3>5 DEF SnapshotSettles
  <2>6. CASE ~LooksAtKid /\ ~ReadsNetwork /\ ~Measures
    <3>1. CASE sm' = sm BY <1>1, <2>1, <3>1
    <3>2. CASE sm'.net = NoNetwork /\ sm'.kid = Nowhere
      <4>1. ~NoNetwork.complete /\ ~NoNetwork.main BY DEF NoNetwork
      <4> QED BY <3>2, <4>1 DEF SnapshotSettles, Nowhere
    <3> QED BY <1>5, <2>6, <3>1, <3>2, SampleEnds
  <2> QED BY <2>3, <2>4, <2>5, <2>6
<1> QED BY <1>1, <1>2, <1>3, <1>4, <1>5, ReadySteps

-------------------------------------------------------------------------------
(* Readiness: times.                                                       *)

LEMMA Clocks ==
  ASSUME ReadyTypes
  PROVE  /\ now \in Int /\ 0 <= now /\ sm \in Samples /\ sm.start \in Int
         /\ tracker.since \in Int /\ tracker.some \in BOOLEAN /\ seen.since \in Int
         /\ sm.kept \in BOOLEAN /\ sm.net.complete \in BOOLEAN
BY DEF ReadyTypes, Samples, Snapshots, Trackers, Sightings

\* A call of a sample after the measurement keeps what was measured.
LEMMA SampleGoesOn ==
  ASSUME ReadyTypes, LooksAtKid \/ ReadsNetwork
  PROVE  /\ Measured /\ wpc' \in {"kid", "network", "assess"} /\ UNCHANGED <<tracker, seen>>
         /\ sm'.start = sm.start /\ sm'.content = sm.content /\ sm'.kept = sm.kept
         /\ sm'.net = sm.net \/ (ReadsNetwork /\ sm'.net = readiness_snapshot)
<1>0. sm \in Samples BY Clocks
<1>1. CASE LooksAtKid
  <2>1. PICK scope \in {kidScope, "unknown"} :
          sm' = [sm EXCEPT !.kid = scope,
            !.ready = @ /\ (scope = "target" => real["k"] \notin {"open", "answered"})]
    BY <1>1 DEF LooksAtKid
  <2>2. /\ sm'.start = sm.start /\ sm'.content = sm.content /\ sm'.kept = sm.kept
        /\ sm'.net = sm.net
    BY <1>0, <2>1 DEF Samples
  <2> QED BY <1>1, <2>2 DEF LooksAtKid, Goes, Measured
<1>2. CASE ReadsNetwork
  <2>1. sm' = [sm EXCEPT !.net = readiness_snapshot, !.settled = ~was]
    BY <1>2 DEF ReadsNetwork
  <2> HIDE DEF readiness_snapshot
  <2>2. /\ sm'.start = sm.start /\ sm'.content = sm.content /\ sm'.kept = sm.kept
        /\ sm'.net = readiness_snapshot
    BY <1>0, <2>1 DEF Samples
  <2> QED BY <1>2, <2>2 DEF ReadsNetwork, Goes, Measured
<1> QED BY <1>1, <1>2

\* The measurement, and the beginning of a sample.
LEMMA SampleMeasures ==
  ASSUME ReadyTypes, Measures
  PROVE  /\ wpc = "measure" /\ wpc' \in {"kid", "network"} /\ tracker' = tracker
         /\ sm'.start = sm.start /\ sm'.content = page.content
         /\ sm'.kept = (page.loader = sm.loader) /\ sm'.net = sm.net
         /\ \/ page.content = seen.content /\ seen' = seen
            \/ /\ page.content # seen.content
               /\ seen'.content = page.content /\ seen'.since = sm.start
<1>0. sm \in Samples BY Clocks
<1>1. /\ wpc = "measure" /\ wpc' \in {"kid", "network"} /\ tracker' = tracker
      /\ sm' = [sm EXCEPT !.content = page.content, !.ready = page.ready,
                          !.kept = page.loader = sm.loader]
  BY DEF Measures, Goes
<1>2. /\ sm'.start = sm.start /\ sm'.content = page.content /\ sm'.net = sm.net
      /\ sm'.kept = (page.loader = sm.loader)
  <2> DEFINE kept == page.loader = sm.loader
  <2>1. sm' = [sm EXCEPT !.content = page.content, !.ready = page.ready, !.kept = kept]
    BY <1>1
  <2>2. /\ sm'.start = sm.start /\ sm'.content = page.content /\ sm'.net = sm.net
        /\ sm'.kept = kept
    <3> HIDE DEF kept
    <3> QED BY <1>0, <2>1 DEF Samples
  <2> QED BY <2>2
<1>3. CASE page.content = seen.content BY <1>1, <1>2, <1>3 DEF Measures
<1>4. CASE page.content # seen.content
  <2>1. seen' = [content |-> page.content, since |-> sm.start] BY <1>4 DEF Measures
  <2> QED BY <1>1, <1>2, <1>4, <2>1
<1> QED BY <1>3, <1>4

LEMMA SampleBegins ==
  ASSUME BeginsSample
  PROVE  /\ wpc = "loop" /\ wpc' = "measure" /\ UNCHANGED <<tracker, seen>>
         /\ sm'.start = now /\ sm'.loader = page.loader /\ ~sm'.kept /\ ~sm'.net.complete
<1>1. sm' = [NoSample EXCEPT !.start = now, !.loader = page.loader] BY DEF BeginsSample
<1>2. sm'.start = now /\ sm'.loader = page.loader /\ ~sm'.kept /\ ~sm'.net.complete
  BY <1>1 DEF NoSample, NoNetwork
<1> QED BY <1>2 DEF BeginsSample, Goes

\* What the other steps of the wait leave of a sample.
LEMMA SampleIsOver ==
  ASSUME Waits, ~BeginsSample, ~Measures, ~LooksAtKid, ~ReadsNetwork
  PROVE  /\ wpc' \in {"loop", "sleep", "status", "over"}
         /\ sm' = sm \/ (sm'.start = 0 /\ ~sm'.net.complete)
<1>1. NoSample.start = 0 /\ ~NoSample.net.complete BY DEF NoSample, NoNetwork
<1>2. CASE WaitStarts \/ Sleeps \/ WaitTimesOut \/ ReportsMain
  BY <1>2 DEF WaitStarts, Sleeps, WaitTimesOut, ReportsMain, Goes
<1>3. CASE Assesses \/ SampleCut
  BY <1>1, <1>3 DEF Assesses, SampleCut, Goes
<1>4. CASE SampleFails
  <2>1. sm' = [NoSample EXCEPT !.failed = TRUE] BY <1>4 DEF SampleFails
  <2>2. sm'.start = 0 /\ ~sm'.net.complete BY <2>1 DEF NoSample, NoNetwork
  <2> QED BY <1>4, <2>2 DEF SampleFails, Goes
<1> QED BY <1>2, <1>3, <1>4 DEF Waits

\* What a tick does to the times.
LEMMA TickAges ==
  ASSUME ReadyTypes, Tick
  PROVE  /\ now' = now + 1 /\ (Sampling => now < sm.start + SampleMax)
         /\ tracker'.some = tracker.some /\ tracker'.last = tracker.last
         /\ seen'.content = seen.content
         /\ tracker'.since = AtLeast(tracker.since, now + 1 - Stable - SampleMax)
         /\ seen'.since = AtLeast(seen.since, now + 1 - Stable - SampleMax)
<1>1. /\ now' = now + 1 /\ (Sampling => now < sm.start + SampleMax)
      /\ seen' = [seen EXCEPT !.since = AtLeast(@, now' - Stable - SampleMax)]
      /\ tracker' = [tracker EXCEPT !.since = AtLeast(@, now' - Stable - SampleMax)]
  BY DEF Tick, Sampling
<1>2. /\ seen' = [seen EXCEPT !.since = AtLeast(seen.since, now + 1 - Stable - SampleMax)]
      /\ tracker' = [tracker EXCEPT !.since = AtLeast(tracker.since, now + 1 - Stable - SampleMax)]
  <2>1. now \in Int BY DEF ReadyTypes
  <2>2. \A n, m \in Int : n = m + 1 => n - Stable - SampleMax = m + 1 - Stable - SampleMax
    BY ONLY ReadyBounds
  <2>3. now' \in Int BY ONLY <1>1, <2>1
  <2>4. now' - Stable - SampleMax = now + 1 - Stable - SampleMax
    BY ONLY <1>1, <2>1, <2>2, <2>3
  <2> QED BY ONLY <1>1, <2>4
<1>3. seen \in Sightings /\ tracker \in Trackers BY DEF ReadyTypes
<1> QED BY <1>1, <1>2, <1>3 DEF Sightings, Trackers

\* A sample begins now, and goes on while its time is not over.
LEMMA SampleIsShortStep ==
  ASSUME ReadyTypes, SampleIsShort, [ReadyNext]_readyVars
  PROVE  SampleIsShort'
<1>1. /\ now \in Int /\ 0 <= now /\ sm.start \in Int /\ sm.start <= now
      /\ Sampling => now <= sm.start + SampleMax
  BY Clocks DEF SampleIsShort
<1>2. CASE UNCHANGED <<now, sm, wpc>> BY <1>2 DEF SampleIsShort, Sampling
<1>3. CASE Tick
  <2>1. UNCHANGED <<sm, wpc>> BY <1>3, TickLeaves
  <2>2. now' = now + 1 /\ (Sampling => now < sm.start + SampleMax) BY <1>3, TickAges
  <2> QED BY <1>1, <2>1, <2>2, ReadyBounds DEF SampleIsShort, Sampling
<1>4. CASE Collecting BY <1>2, <1>4, CollectingLeaves
<1>5. CASE PageMoves BY <1>2, <1>5, PageLeaves
<1>6. CASE Waits
  <2>0. now' = now BY <1>6, WaitLeaves
  <2>1. CASE BeginsSample
    <3>1. sm'.start = now BY <2>1, SampleBegins
    <3> QED BY <1>1, <2>0, <3>1, ReadyBounds DEF SampleIsShort
  <2>2. CASE Measures
    <3>1. sm'.start = sm.start /\ Sampling BY <2>2, SampleMeasures DEF Sampling
    <3> QED BY <1>1, <2>0, <3>1 DEF SampleIsShort
  <2>3. CASE LooksAtKid \/ ReadsNetwork
    <3>1. sm'.start = sm.start /\ Sampling BY <2>3, SampleGoesOn DEF Sampling, Measured
    <3> QED BY <1>1, <2>0, <3>1 DEF SampleIsShort
  <2>4. CASE ~BeginsSample /\ ~Measures /\ ~LooksAtKid /\ ~ReadsNetwork
    <3>1. wpc' \in {"loop", "sleep", "status", "over"} /\ (sm' = sm \/ sm'.start = 0)
      BY <1>6, <2>4, SampleIsOver
    <3> QED BY <1>1, <2>0, <3>1 DEF SampleIsShort, Sampling
  <2> QED BY <2>1, <2>2, <2>3, <2>4
<1> QED BY <1>2, <1>3, <1>4, <1>5, <1>6, ReadySteps

-------------------------------------------------------------------------------
(* Readiness: which document is shown.                                     *)

\* What the page does to its documents: one is asked for, is answered, or ends.
LEMMA DocumentsMove ==
  ASSUME ReadyTypes, DocumentsFollow, PageMoves
  PROVE  /\ page.loader # 0 => page'.loader # 0 /\ real'["d1"] \in {"answered", "done", "failed"}
         /\ page'.loader # 0 => real'["d1"] \in {"answered", "done", "failed"}
         /\ real'["d2"] # Nowhere => page'.loader # 0
         /\ \/ page'.loader = page.loader
            \/ page.loader = 0
            \/ page'.loader = 2 /\ Event("responseReceived", "d2")
<1>0. /\ real \in [Ids -> ReqStates] /\ page \in Views /\ "d1" \in Ids /\ "d2" \in Ids
  BY DEF ReadyTypes, Ids
<1>1. /\ page.loader # 0 => real["d1"] \in {"answered", "done", "failed"}
      /\ real["d2"] # Nowhere => page.loader # 0
  BY DEF DocumentsFollow
<1>2. CASE PageRequests
  <2>1. PICK id \in Ids : /\ real[id] = Nowhere /\ (id = "d2" => page.loader = 1)
                          /\ real' = [real EXCEPT ![id] = "open"] /\ page' = page
    BY <1>2 DEF PageRequests, maySend
  <2> QED BY <1>0, <1>1, <2>1 DEF Nowhere
<1>3. CASE PageIsRedirected BY <1>1, <1>3 DEF PageIsRedirected
<1>4. CASE PageAnswered
  <2>1. PICK id \in Ids :
          /\ real[id] = "open" /\ real' = [real EXCEPT ![id] = "answered"]
          /\ Event("responseReceived", id)
          /\ \/ id \notin {"d1", "d2"} /\ page' = page
             \/ /\ id \in {"d1", "d2"}
                /\ \E c \in Contents : page' = [loader |-> loaderOf(id), content |-> c, ready |-> FALSE]
    BY <1>4 DEF PageAnswered
  <2>2. CASE id \notin {"d1", "d2"} BY <1>0, <1>1, <2>1, <2>2
  <2>3. CASE id = "d1"
    <3>1. page'.loader = 1 BY <2>1, <2>3 DEF loaderOf
    <3>2. page.loader = 0 BY <1>1, <2>1, <2>3
    <3> QED BY <1>0, <2>1, <2>3, <3>1, <3>2
  <2>4. CASE id = "d2"
    <3>1. page'.loader = 2 BY <2>1, <2>4 DEF loaderOf
    <3>2. page.loader # 0 BY <1>1, <2>1, <2>4 DEF Nowhere
    <3> QED BY <1>0, <1>1, <2>1, <2>4, <3>1, <3>2
  <2> QED BY <2>2, <2>3, <2>4
<1>5. CASE PageLoaded
  <2>1. PICK id \in Ids, how \in {"done", "failed"} :
          /\ \/ real[id] = "answered" \/ (real[id] = "open" /\ ~Doc(id))
             \/ (real[id] = "open" /\ how = "failed" /\ id # "d1")
          /\ real' = [real EXCEPT ![id] = how]
          /\ page' = page \/ page' = [page EXCEPT !.ready = TRUE]
    BY <1>5 DEF PageLoaded
  <2>2. page'.loader = page.loader BY <1>0, <2>1 DEF Views
  <2>3. page.loader # 0 => real'["d1"] \in {"answered", "done", "failed"}
    <3>1. CASE id = "d1" BY <1>0, <2>1, <3>1
    <3>2. CASE id # "d1" BY <1>0, <1>1, <2>1, <3>2
    <3> QED BY <3>1, <3>2
  <2>4. real'["d2"] # Nowhere => real["d2"] # Nowhere
    BY <1>0, <2>1 DEF Nowhere
  <2> QED BY <1>1, <2>2, <2>3, <2>4
<1>6. CASE PageRenders
  <2>1. real' = real /\ page'.loader = page.loader BY <1>0, <1>6 DEF PageRenders, Views
  <2> QED BY <1>1, <2>1
<1> QED BY <1>2, <1>3, <1>4, <1>5, <1>6 DEF PageMoves

LEMMA DocumentsFollowStep ==
  ASSUME ReadyTypes, DocumentsFollow, [ReadyNext]_readyVars
  PROVE  DocumentsFollow'
<1>1. CASE UNCHANGED <<real, page, wpc>> BY <1>1 DEF DocumentsFollow
<1>2. CASE Tick BY <1>1, <1>2, TickLeaves
<1>3. CASE Collecting BY <1>1, <1>3, CollectingLeaves
<1>4. CASE PageMoves
  <2>1. wpc' = wpc BY <1>4, PageLeaves
  <2> QED BY <1>4, <2>1, DocumentsMove DEF DocumentsFollow
<1>5. CASE Waits
  <2>1. UNCHANGED <<real, page>> BY <1>5, WaitLeaves
  <2>2. wpc' # "navigating" => page.loader # 0
    <3>1. CASE WaitStarts BY <3>1 DEF WaitStarts
    <3>2. CASE ~WaitStarts
      <4>1. wpc # "navigating"
        BY <1>5, <3>2 DEF Waits, BeginsSample, Measures, LooksAtKid, ReadsNetwork, Assesses,
           SampleCut, SampleFails, InSample, Sleeps, WaitTimesOut, ReportsMain
      <4> QED BY <4>1 DEF DocumentsFollow
    <3> QED BY <3>1, <3>2
  <2> QED BY <2>1, <2>2 DEF DocumentsFollow
<1> QED BY <1>1, <1>2, <1>3, <1>4, <1>5, ReadySteps

\* The answer of the second document is filed in its slot, if it has one.
LEMMA AnswerIsFiled ==
  ASSUME ReadyTypes, EventsAreReal, Collects
  PROVE  /\ slots'["d2"] = slots["d2"] \/ (slots'["d2"] # NoSlot /\ slots'["d2"].at = now)
         /\ IsAnswer(chan[1]) => slots'["d2"] = NoSlot \/ slots'["d2"].at = now
<1>0. "d2" \in Ids /\ "d2" \in DOMAIN slots BY DEF Ids, ReadyTypes
<1>1. slots'["d2"] = slots["d2"] \/ (slots'["d2"] # NoSlot /\ slots'["d2"].at = now)
  <2>1. \/ slots'["d2"] = slots["d2"]
        \/ /\ slots'["d2"].at = now
           /\ slots'["d2"].state \in {"open", "answered", "done", "failed"}
    BY <1>0, SlotsFollow
  <2>2. NoSlot.state = Nowhere BY DEF NoSlot
  <2> QED BY <2>1, <2>2 DEF Nowhere
<1>2. ASSUME IsAnswer(chan[1]) PROVE slots'["d2"] = NoSlot \/ slots'["d2"].at = now
  <2>1. Head(chan) = chan[1] /\ Head(chan) \in Told BY HeadTaken
  <2> DEFINE ev == Head(chan)
  <2>2. ev.what = "responseReceived" /\ ev.id = "d2" BY <1>2, <2>1 DEF IsAnswer
  <2>3. handleUpdate(ev) BY <2>2 DEF Collects, handle_event
  <2> HIDE DEF ev
  <2>4. ev \in Told BY <2>1 DEF ev
  <2>5. /\ slots[ev.id] = NoSlot => slots' = slots
        /\ slots[ev.id] # NoSlot => slots'[ev.id] = [state |-> stateAfter(ev.what), at |-> now]
    BY <2>2, <2>3, <2>4, UpdateIsKept
  <2>6. CASE slots["d2"] = NoSlot BY <2>2, <2>5, <2>6
  <2>7. CASE slots["d2"] # NoSlot
    <3>1. slots'["d2"] = [state |-> stateAfter(ev.what), at |-> now] BY <2>2, <2>5, <2>7
    <3> QED BY <3>1
  <2> QED BY <2>6, <2>7
<1> QED BY <1>1, <1>2

\* A tick keeps what was filed since the sample began.
LEMMA FiledStays ==
  ASSUME ReadyTypes, EventsAreReal, Tick
  PROVE  /\ slots'["d2"] = NoSlot <=> slots["d2"] = NoSlot
         /\ slots["d2"] # NoSlot => slots'["d2"].at \in Int /\ slots'["d2"].at >= slots["d2"].at
<1>0. /\ "d2" \in DOMAIN slots /\ slots["d2"] \in [state : ReqStates, at : 0..Budget]
      /\ now' \in Int
  <2>1. now' = now + 1 BY DEF Tick
  <2> QED BY <2>1, Clocks DEF Ids, ReadyTypes
<1>1. slots'["d2"] = NoSlot <=> slots["d2"] = NoSlot BY <1>0, TickKeepsSlots
<1>2. ASSUME slots["d2"] # NoSlot
      PROVE  slots'["d2"].at \in Int /\ slots'["d2"].at >= slots["d2"].at
  <2>1. slots'["d2"] = [slots["d2"] EXCEPT !.at = AtLeast(@, now' - Idle)]
    BY <1>0, <1>2 DEF Tick
  <2>2. slots'["d2"].at = AtLeast(slots["d2"].at, now' - Idle) BY <1>0, <2>1
  <2>3. slots["d2"].at \in Int /\ now' - Idle \in Int BY <1>0, ReadyBounds
  <2>4. \A n, m \in Int : AtLeast(n, m) \in Int /\ AtLeast(n, m) >= n BY ONLY DEF AtLeast
  <2> QED BY ONLY <2>2, <2>3, <2>4
<1> QED BY <1>1, <1>2

LEMMA PageReplaces ==
  ASSUME ReadyTypes, DocumentsFollow, ReplacedIsSeen, PageMoves
  PROVE  ReplacedIsSeen'
<1>1. UNCHANGED <<slots, dropped, truncated, sm, wpc>> BY PageLeaves
<1>2. /\ wpc = "measure" => ~sm.net.complete
      /\ Measured /\ ~sm.kept => Filed
      /\ Idle > SampleMax /\ ~sm.kept /\ sm.net.complete => "top" \in sm.net.busy
  BY DEF ReplacedIsSeen
<1>3. ASSUME wpc = "measure", page'.loader # sm.loader PROVE page'.loader = 2 /\ Arriving'
  <2>1. page.loader # 0 BY <1>3 DEF DocumentsFollow
  <2>2. \/ page'.loader = page.loader
        \/ page'.loader = 2 /\ Event("responseReceived", "d2")
    BY <2>1, DocumentsMove
  <2>3. \A what, id : what \in {"requestWillBeSent", "redirected", "responseReceived",
                              "loadingFinished", "loadingFailed"} /\ id \in Ids =>
        [what |-> what, id |-> id] \in Told
    BY DEF Told
  <2>4. Len(chan) \in Nat BY DEF ReadyTypes
  <2>5. CASE page'.loader = 2 /\ Event("responseReceived", "d2")
    <3>1. CASE lagged' BY <2>5, <3>1 DEF Arriving
    <3>2. CASE ~lagged'
      <4>1. "d2" \in Ids BY DEF Ids
      <4>2. /\ Len(chan') = Len(chan) + 1
            /\ chan'[Len(chan) + 1] = [what |-> "responseReceived", id |-> "d2"]
        BY <2>3, <2>5, <3>2, <4>1, EventSent DEF Event
      <4>3. Len(chan) + 1 \in 1..Len(chan') /\ IsAnswer(chan'[Len(chan) + 1])
        BY <2>4, <4>2 DEF IsAnswer
      <4>4. \E i \in 1..Len(chan') : IsAnswer(chan'[i]) BY <4>3
      <4> QED BY <2>5, <4>4 DEF Arriving
    <3> QED BY <3>1, <3>2
  <2>6. CASE page'.loader = page.loader
    <3>1. page.loader = 2 /\ Arriving BY <1>3, <2>6 DEF ReplacedIsSeen
    <3>2. CASE lagged'
      <4> QED BY <2>6, <3>1, <3>2 DEF Arriving
    <3>3. CASE ~lagged'
      <4>1. \/ UNCHANGED <<chan, lagged>>
            \/ \E what, id : /\ what \in {"requestWillBeSent", "redirected", "responseReceived",
                                          "loadingFinished", "loadingFailed"}
                             /\ id \in Ids /\ Event(what, id)
        <5>1. CASE PageRequests BY <5>1 DEF PageRequests
        <5>2. CASE PageIsRedirected BY <5>2 DEF PageIsRedirected, Ids
        <5>3. CASE PageAnswered BY <5>3 DEF PageAnswered
        <5>4. CASE PageLoaded
          <6>1. PICK id \in Ids, how \in {"done", "failed"} :
                  Event(IF how = "done" THEN "loadingFinished" ELSE "loadingFailed", id)
            BY <5>4 DEF PageLoaded
          <6>2. CASE how = "done" BY <6>1, <6>2
          <6>3. CASE how = "failed" BY <6>1, <6>3
          <6> QED BY <6>2, <6>3
        <5>5. CASE PageRenders BY <5>5 DEF PageRenders, wire
        <5> QED BY <5>1, <5>2, <5>3, <5>4, <5>5 DEF PageMoves
      <4>2. ~lagged /\ \A i \in 1..Len(chan) : i \in 1..Len(chan') /\ chan'[i] = chan[i]
        <5>1. CASE UNCHANGED <<chan, lagged>> BY <3>3, <5>1
        <5>2. ASSUME NEW what \in {"requestWillBeSent", "redirected", "responseReceived",
                                   "loadingFinished", "loadingFailed"}, NEW id \in Ids,
                     Event(what, id)
              PROVE  ~lagged /\ \A i \in 1..Len(chan) : i \in 1..Len(chan') /\ chan'[i] = chan[i]
          <6>1. ~lagged /\ Len(chan') = Len(chan) + 1 /\ \A i \in 1..Len(chan) : chan'[i] = chan[i]
            BY <2>3, <3>3, <5>2, EventSent DEF Event
          <6> QED BY <2>4, <6>1
        <5> QED BY <4>1, <5>1, <5>2
      <4>3. \A i \in 1..Len(chan) : IsAnswer(chan[i]) => \E j \in 1..Len(chan') : IsAnswer(chan'[j])
        BY <4>2
      <4> QED BY <1>1, <2>6, <3>1, <4>2, <4>3 DEF Arriving
    <3> QED BY <3>2, <3>3
  <2> QED BY <2>2, <2>5, <2>6
<1> QED BY <1>1, <1>2, <1>3 DEF ReplacedIsSeen, Measured, Filed

LEMMA CollectingReplaces ==
  ASSUME ReadyTypes, EventsAreReal, SampleIsShort, ReplacedIsSeen, Collecting
  PROVE  ReplacedIsSeen'
<1>1. UNCHANGED <<now, page, sm, wpc>> BY CollectingLeaves
<1>2. /\ wpc = "measure" => ~sm.net.complete
      /\ Measured /\ ~sm.kept => Filed
      /\ Idle > SampleMax /\ ~sm.kept /\ sm.net.complete => "top" \in sm.net.busy
      /\ wpc = "measure" /\ page.loader # sm.loader => page.loader = 2 /\ Arriving
      /\ now \in Int /\ sm.start \in Int /\ sm.start <= now
  BY Clocks DEF ReplacedIsSeen, SampleIsShort
<1>3. CASE CollectorLags
  <2>1. dropped' BY <1>3 DEF CollectorLags
  <2> QED BY <1>1, <1>2, <2>1 DEF ReplacedIsSeen, Measured, Filed, Arriving
<1>4. CASE Collects
  <2>1. /\ Len(chan) \in Nat /\ Len(chan) >= 1 /\ Len(chan') = Len(chan) - 1
        /\ \A i \in 1..Len(chan') : chan'[i] = chan[i + 1]
        /\ ~lagged /\ dropped' = dropped
    BY <1>4, HeadTaken
  <2>2. truncated => truncated' BY <1>4, SlotsFollow
  <2>3. /\ slots'["d2"] = slots["d2"] \/ (slots'["d2"] # NoSlot /\ slots'["d2"].at = now)
        /\ IsAnswer(chan[1]) => slots'["d2"] = NoSlot \/ slots'["d2"].at = now
    BY <1>4, AnswerIsFiled
  <2>4. sm'.start = sm.start /\ now >= sm.start BY <1>1, <1>2
  <2>5. Filed => Filed' BY <2>1, <2>2, <2>3, <2>4 DEF Filed
  <2>6. Arriving => Arriving'
    <3>1. CASE dropped \/ slots["d2"] = NoSlot \/ slots["d2"].at >= sm.start
      BY <2>1, <2>3, <2>4, <3>1 DEF Arriving
    <3>2. ASSUME NEW i \in 1..Len(chan), IsAnswer(chan[i]) PROVE Arriving'
      <4>1. CASE i = 1
        BY <2>3, <2>4, <3>2, <4>1 DEF Arriving
      <4>2. CASE i # 1
        <5>1. \A n, m \in Nat : n \in 1..m /\ n # 1 => n - 1 \in 1..(m - 1) /\ (n - 1) + 1 = n
          OBVIOUS
        <5>2. i \in Nat /\ i \in 1..Len(chan) OBVIOUS
        <5>3. i - 1 \in 1..Len(chan') /\ (i - 1) + 1 = i BY ONLY <2>1, <4>2, <5>1, <5>2
        <5>4. IsAnswer(chan'[i - 1]) BY <2>1, <3>2, <5>3
        <5>5. \E j \in 1..Len(chan') : IsAnswer(chan'[j]) BY <5>3, <5>4
        <5> QED BY <5>5 DEF Arriving
      <4> QED BY <4>1, <4>2
    <3> QED BY <2>1, <3>1, <3>2 DEF Arriving
  <2> QED BY <1>1, <1>2, <2>5, <2>6 DEF ReplacedIsSeen, Measured
<1> QED BY <1>3, <1>4 DEF Collecting

LEMMA WaitReplaces ==
  ASSUME ReadyTypes, EventsAreReal, RequestsAreKnown, SampleIsShort, ReplacedIsSeen, Waits
  PROVE  ReplacedIsSeen'
<1>1. UNCHANGED <<now, page, chan, lagged, slots, dropped, truncated>> BY WaitLeaves
<1>2. /\ wpc = "measure" => ~sm.net.complete
      /\ Measured /\ ~sm.kept => Filed
      /\ Idle > SampleMax /\ ~sm.kept /\ sm.net.complete => "top" \in sm.net.busy
      /\ wpc = "measure" /\ page.loader # sm.loader => page.loader = 2 /\ Arriving
      /\ now \in Int /\ sm.start \in Int /\ sm.net.complete \in BOOLEAN
      /\ sm.kept \in BOOLEAN
  BY Clocks DEF ReplacedIsSeen
<1>3. CASE BeginsSample
  <2>1. wpc' = "measure" /\ sm'.loader = page.loader /\ ~sm'.kept /\ ~sm'.net.complete
    BY <1>3, SampleBegins
  <2> QED BY <1>1, <2>1 DEF ReplacedIsSeen, Measured
<1>4. CASE Measures
  <2>1. /\ wpc = "measure" /\ wpc' \in {"kid", "network"} /\ sm'.start = sm.start
        /\ sm'.kept = (page.loader = sm.loader) /\ sm'.net = sm.net
    BY <1>4, SampleMeasures
  <2>2. chan = <<>> /\ ~lagged BY <1>4 DEF Measures, Prompt
  <2>3. ASSUME page.loader # sm.loader PROVE Filed
    <3>1. page.loader = 2 /\ Arriving BY <1>2, <2>1, <2>3
    <3>2. Len(chan) = 0 BY <2>2
    <3>3. dropped \/ slots["d2"] = NoSlot \/ slots["d2"].at >= sm.start
      BY <2>2, <3>1, <3>2 DEF Arriving
    <3>4. real["d2"] # Nowhere /\ "d2" \in Ids BY <3>1 DEF EventsAreReal, Ids
    <3>5. dropped \/ truncated \/ slots["d2"] # NoSlot
      BY <2>2, <3>2, <3>4 DEF RequestsAreKnown
    <3> QED BY <3>3, <3>5 DEF Filed
  <2>4. ~sm'.kept => Filed' BY <1>1, <2>1, <2>3 DEF Filed
  <2>5. ~sm'.net.complete BY <1>2, <2>1
  <2> QED BY <2>1, <2>4, <2>5 DEF ReplacedIsSeen
<1>5. CASE LooksAtKid \/ ReadsNetwork
  <2>1. /\ Measured /\ wpc' \in {"kid", "network", "assess"}
        /\ sm'.start = sm.start /\ sm'.kept = sm.kept
        /\ sm'.net = sm.net \/ (ReadsNetwork /\ sm'.net = readiness_snapshot)
    BY <1>5, SampleGoesOn
  <2>2. ~sm'.kept => Filed' BY <1>1, <1>2, <2>1 DEF Filed
  <2>3. ASSUME Idle > SampleMax, ~sm'.kept, sm'.net.complete PROVE "top" \in sm'.net.busy
    <3>1. CASE sm'.net = sm.net BY <1>2, <2>1, <2>3, <3>1
    <3>2. CASE sm'.net = readiness_snapshot
      <4>1. ~dropped /\ ~truncated
        <5>1. readiness_snapshot.complete BY ONLY <2>3, <3>2
        <5> QED BY <5>1 DEF readiness_snapshot, complete
      <4>2. slots["d2"] # NoSlot /\ slots["d2"].at >= sm.start
        BY <1>2, <2>1, <2>3, <4>1 DEF Filed
      <4>3. slots["d2"].at \in Int /\ "d2" \in Ids BY DEF ReadyTypes, Ids
      <4>4. now <= sm.start + SampleMax BY <2>1 DEF SampleIsShort, Sampling, Measured
      <4>5. now - slots["d2"].at < Idle BY <1>2, <2>3, <4>2, <4>3, <4>4, ReadyBounds
      <4>6. "d2" \in Used /\ frameOf("d2") = "top" BY <4>2, <4>3 DEF Used, frameOf
      <4>7. "top" \in readiness_snapshot.busy BY <4>5, <4>6 DEF readiness_snapshot
      <4> QED BY <3>2, <4>7
    <3> QED BY <2>1, <3>1, <3>2
  <2> QED BY <2>1, <2>2, <2>3 DEF ReplacedIsSeen
<1>6. CASE ~BeginsSample /\ ~Measures /\ ~LooksAtKid /\ ~ReadsNetwork
  <2>1. /\ wpc' \in {"loop", "sleep", "status", "over"}
        /\ sm' = sm \/ ~sm'.net.complete
    BY <1>6, SampleIsOver
  <2> QED BY <1>2, <2>1 DEF ReplacedIsSeen, Measured
<1> QED BY <1>3, <1>4, <1>5, <1>6

LEMMA ReplacedIsSeenStep ==
  ASSUME ReadyTypes, EventsAreReal, RequestsAreKnown, DocumentsFollow, SampleIsShort,
         ReplacedIsSeen, [ReadyNext]_readyVars
  PROVE  ReplacedIsSeen'
<1>1. CASE UNCHANGED <<page, chan, lagged, slots, dropped, truncated, sm, wpc>>
  BY <1>1 DEF ReplacedIsSeen, Measured, Filed, Arriving
<1>2. CASE Tick
  <2>1. UNCHANGED <<page, chan, lagged, dropped, truncated, sm, wpc>> BY <1>2, TickLeaves
  <2>2. /\ slots'["d2"] = NoSlot <=> slots["d2"] = NoSlot
        /\ slots["d2"] # NoSlot => slots'["d2"].at \in Int /\ slots'["d2"].at >= slots["d2"].at
    BY <1>2, FiledStays
  <2>3. slots["d2"].at \in Int /\ sm.start \in Int BY Clocks DEF ReadyTypes, Ids
  <2>4. Filed => Filed' BY <2>1, <2>2, <2>3 DEF Filed
  <2>5. Arriving => Arriving'
    <3>1. CASE lagged \/ dropped \/ \E i \in 1..Len(chan) : IsAnswer(chan[i])
      BY <2>1, <3>1 DEF Arriving
    <3>2. CASE slots["d2"] = NoSlot BY <2>2, <3>2 DEF Arriving
    <3>3. CASE slots["d2"] # NoSlot /\ slots["d2"].at >= sm.start
      <4>1. slots'["d2"].at >= sm'.start BY <2>1, <2>2, <2>3, <3>3
      <4> QED BY <4>1 DEF Arriving
    <3> QED BY <3>1, <3>2, <3>3 DEF Arriving
  <2> QED BY <2>1, <2>4, <2>5 DEF ReplacedIsSeen, Measured
<1> QED BY <1>1, <1>2, ReadySteps, PageReplaces, CollectingReplaces, WaitReplaces

-------------------------------------------------------------------------------
(* Readiness: content.                                                     *)

LEMMA TickHolds ==
  ASSUME ReadyTypes, SampleIsShort, ContentIsHeld, Tick
  PROVE  ContentIsHeld'
<1>1. UNCHANGED <<sm, wpc>> BY TickLeaves
<1>2. /\ now' = now + 1 /\ (Sampling => now < sm.start + SampleMax)
      /\ tracker'.some = tracker.some /\ tracker'.last = tracker.last
      /\ seen'.content = seen.content
      /\ tracker'.since = AtLeast(tracker.since, now + 1 - Stable - SampleMax)
      /\ seen'.since = AtLeast(seen.since, now + 1 - Stable - SampleMax)
  BY TickAges
<1>3. /\ now \in Int /\ sm.start \in Int /\ tracker.since \in Int /\ seen.since \in Int
      /\ now + 1 - Stable - SampleMax \in Int /\ now + 1 - Stable - SampleMax <= now + 1
  BY Clocks, ReadyBounds
<1>4. \A n, m, f \in Int : /\ n <= m => AtLeast(n, f) <= AtLeast(m, f)
                           /\ n <= m /\ f <= m => AtLeast(n, f) <= m
  BY ONLY DEF AtLeast
<1>5. seen.since <= tracker.since => seen'.since <= tracker'.since BY ONLY <1>2, <1>3, <1>4
<1>6. seen'.since <= now'
  <2>1. seen.since <= now BY DEF ContentIsHeld
  <2>2. seen.since <= now + 1 /\ now + 1 \in Int BY <1>3, <2>1
  <2> QED BY ONLY <1>2, <1>3, <1>4, <2>2
<1>7. Sampling => seen'.since <= sm.start
  <2> SUFFICES ASSUME Sampling PROVE seen'.since <= sm.start OBVIOUS
  <2>1. seen.since <= sm.start BY DEF ContentIsHeld
  <2>2. now + 1 - Stable - SampleMax <= sm.start BY <1>2, <1>3, ReadyBounds
  <2> QED BY ONLY <1>2, <1>3, <1>4, <2>1, <2>2
<1> QED BY <1>1, <1>2, <1>5, <1>6, <1>7 DEF ContentIsHeld, Sampling, Measured

LEMMA WaitHolds ==
  ASSUME ReadyTypes, SampleIsShort, ContentIsHeld, Waits
  PROVE  ContentIsHeld'
<1>0. /\ now \in Int /\ 0 <= now /\ sm.start \in Int /\ tracker.since \in Int
      /\ seen.since \in Int /\ tracker.some \in BOOLEAN /\ now' = now /\ sm.start <= now
      /\ seen.since <= now
  BY Clocks, WaitLeaves DEF SampleIsShort, ContentIsHeld
<1>1. CASE BeginsSample
  <2>1. /\ wpc = "loop" /\ wpc' = "measure" /\ UNCHANGED <<tracker, seen>> /\ sm'.start = now
    BY <1>1, SampleBegins
  <2> QED BY <1>0, <2>1 DEF ContentIsHeld, Sampling, Measured
<1>2. CASE Measures
  <2>1. /\ wpc = "measure" /\ wpc' \in {"kid", "network"} /\ tracker' = tracker
        /\ sm'.start = sm.start /\ sm'.content = page.content
        /\ \/ page.content = seen.content /\ seen' = seen
           \/ /\ page.content # seen.content
              /\ seen'.content = page.content /\ seen'.since = sm.start
    BY <1>2, SampleMeasures
  <2>2. /\ seen.since <= sm.start
        /\ tracker.some => seen.content = tracker.last /\ seen.since <= tracker.since
    BY <2>1 DEF ContentIsHeld, Sampling
  <2>3. seen'.content = sm'.content /\ seen'.since <= sm'.start /\ seen'.since <= now
    BY <1>0, <2>1, <2>2
  <2>4. tracker'.some /\ tracker'.last = sm'.content => seen'.since <= tracker'.since
    BY <2>1, <2>2
  <2> QED BY <1>0, <2>1, <2>3, <2>4 DEF ContentIsHeld, Sampling, Measured
<1>3. CASE LooksAtKid \/ ReadsNetwork
  <2>1. /\ Measured /\ wpc' \in {"kid", "network", "assess"} /\ UNCHANGED <<tracker, seen>>
        /\ sm'.start = sm.start /\ sm'.content = sm.content
    BY <1>3, SampleGoesOn
  <2> QED BY <1>0, <2>1 DEF ContentIsHeld, Sampling, Measured
<1>4. CASE Assesses
  <2>1. /\ wpc = "assess" /\ wpc' \in {"status", "sleep"} /\ seen' = seen
        /\ tracker' = observes(tracker) \/ tracker' = Afresh
    BY <1>4 DEF Assesses, Goes
  <2>2. CASE tracker' = Afresh
    <3>1. ~tracker'.some BY <2>2 DEF Afresh, NoTracker
    <3> QED BY <1>0, <2>1, <3>1 DEF ContentIsHeld, Sampling, Measured
  <2>3. CASE tracker' = observes(tracker)
    <3>1. /\ tracker'.last = sm.content
          /\ \/ tracker.some /\ tracker.last = sm.content /\ tracker'.since = tracker.since
             \/ tracker'.since = sm.start
      BY <2>3 DEF observes
    <3>2. /\ seen.content = sm.content /\ seen.since <= sm.start
          /\ tracker.some /\ tracker.last = sm.content => seen.since <= tracker.since
      BY <2>1 DEF ContentIsHeld, Sampling, Measured
    <3>3. seen'.content = tracker'.last /\ seen'.since <= tracker'.since
      BY <2>1, <3>1, <3>2
    <3> QED BY <1>0, <2>1, <3>3 DEF ContentIsHeld, Sampling, Measured
  <2> QED BY <2>1, <2>2, <2>3
<1>5. CASE SampleFails
  <2>1. wpc' = "sleep" /\ tracker' = Afresh /\ seen' = NothingSeen
    BY <1>5 DEF SampleFails, losesEvidence, Goes
  <2>2. ~tracker'.some /\ seen'.since = 0 BY <2>1 DEF Afresh, NoTracker, NothingSeen
  <2> QED BY <1>0, <2>1, <2>2 DEF ContentIsHeld, Sampling, Measured
<1>6. CASE Sleeps \/ WaitStarts
  <2>1. wpc \in {"sleep", "navigating"} /\ wpc' = "loop" /\ UNCHANGED <<tracker, seen>>
    BY <1>6 DEF Sleeps, WaitStarts, Goes
  <2> QED BY <1>0, <2>1 DEF ContentIsHeld, Sampling, Measured
<1>7. CASE SampleCut \/ WaitTimesOut \/ ReportsMain
  <2>1. wpc' \in {"status", "over"} /\ seen' = seen
    BY <1>7 DEF SampleCut, WaitTimesOut, ReportsMain, Goes
  <2> QED BY <1>0, <2>1 DEF ContentIsHeld, Sampling, Measured
<1> QED BY <1>1, <1>2, <1>3, <1>4, <1>5, <1>6, <1>7 DEF Waits

LEMMA ContentIsHeldStep ==
  ASSUME ReadyTypes, SampleIsShort, ContentIsHeld, [ReadyNext]_readyVars
  PROVE  ContentIsHeld'
<1>1. CASE UNCHANGED <<now, sm, wpc, tracker, seen>>
  BY <1>1 DEF ContentIsHeld, Sampling, Measured
<1>2. CASE Collecting BY <1>1, <1>2, CollectingLeaves
<1>3. CASE PageMoves BY <1>1, <1>3, PageLeaves
<1> QED BY <1>1, <1>2, <1>3, ReadySteps, TickHolds, WaitHolds

-------------------------------------------------------------------------------
(* Readiness: the main document's slot.                                    *)

\* The entries after a request that has room: one more, or one more for a redirect.
LEMMA SentFills ==
  ASSUME ReadyTypes, EventsAreReal, NEW ev \in Told, handleSent(ev), hasRoom(ev.id),
         ev.what = "redirected" => ev.id \in {"d1", "s"}
  PROVE  \/ Used' = Used \cup {ev.id}
         \/ /\ ev.what = "redirected" /\ ev.id \in Used
            /\ Cardinality(Used \ {ev.id}) + 2 <= world.limit
            /\ Used' = Used \cup {hopId(ev.id)}
<1>1. /\ slots' \in [Ids \cup HopIds -> [state : ReqStates, at : 0..Budget]]
      /\ slots'[ev.id] = [state |-> "open", at |-> now]
      /\ \A u \in Ids \ {ev.id} : slots'[u] = slots[u]
      /\ \/ \A u \in HopIds : slots'[u] = slots[u]
         \/ /\ ev.what = "redirected" /\ slots[ev.id] # NoSlot
            /\ Cardinality(Used \ {ev.id}) + 2 <= world.limit
            /\ slots'[hopId(ev.id)] = [state |-> "done", at |-> now]
            /\ \A u \in HopIds \ {hopId(ev.id)} : slots'[u] = slots[u]
  BY SentIsKept
<1>2. /\ [state |-> "open", at |-> now] # NoSlot /\ [state |-> "done", at |-> now] # NoSlot
  BY DEF NoSlot, Nowhere
<1>3. ev.id \in Ids BY DEF Told
<1>4. CASE \A u \in HopIds : slots'[u] = slots[u]
  BY <1>1, <1>2, <1>3, <1>4, HopsApart DEF Used
<1>5. CASE /\ ev.what = "redirected" /\ slots[ev.id] # NoSlot
           /\ Cardinality(Used \ {ev.id}) + 2 <= world.limit
           /\ slots'[hopId(ev.id)] = [state |-> "done", at |-> now]
           /\ \A u \in HopIds \ {hopId(ev.id)} : slots'[u] = slots[u]
  <2>1. hopId(ev.id) \in HopIds /\ hopId(ev.id) \notin Ids BY <1>3, <1>5, HopsApart
  <2>2. Used' = Used \cup {hopId(ev.id)} BY <1>1, <1>2, <1>3, <1>5, <2>1 DEF Used
  <2>3. ev.id \in Used BY <1>3, <1>5 DEF Used
  <2> QED BY <1>5, <2>2, <2>3
<1> QED BY <1>1, <1>4, <1>5

LEMMA OneMore ==
  ASSUME NEW e
  PROVE  /\ Cardinality(Used \cup {e}) \in Nat /\ Cardinality(Used \cup {e}) <= Cardinality(Used) + 1
         /\ e \in Used => /\ Cardinality(Used \cup {e}) = Cardinality(Used)
                          /\ Cardinality(Used) = Cardinality(Used \ {e}) + 1
         /\ Cardinality(Used \ {e}) \in Nat
<1>1. IsFiniteSet(Used) /\ Cardinality(Used) \in Nat BY UsedIsFinite
<1>2. CASE e \in Used
  <2>1. Used \cup {e} = Used BY <1>2
  <2>2. IsFiniteSet(Used \ {e}) /\ Cardinality(Used \ {e}) = Cardinality(Used) - 1
    BY ONLY <1>1, <1>2, FS_RemoveElement
  <2>3. Cardinality(Used \ {e}) \in Nat BY ONLY <2>2, FS_CardinalityType
  <2>4. Cardinality(Used \cup {e}) = Cardinality(Used) BY <2>1
  <2>5. \A n, m \in Nat : m = n - 1 => n = m + 1 /\ n <= n + 1 OBVIOUS
  <2> QED BY ONLY <1>1, <1>2, <2>2, <2>3, <2>4, <2>5
<1>3. CASE e \notin Used
  <2>1. IsFiniteSet(Used \cup {e}) /\ Cardinality(Used \cup {e}) = Cardinality(Used) + 1
    BY ONLY <1>1, <1>3, FS_AddElement
  <2>2. Used \ {e} = Used BY <1>3
  <2> QED BY <1>1, <1>3, <2>1, <2>2
<1> QED BY <1>2, <1>3

\* A subresource leaves the reserve, unless it takes the entry of a redirect.
LEMMA SentReserves ==
  ASSUME ReadyTypes, EventsAreReal, ReserveIsKept, NEW ev \in Told, handleSent(ev),
         ev.what = "redirected" => ev.id \in hops, UNCHANGED <<world, hops>>
  PROVE  ReserveIsKept'
<1>1. /\ Cardinality(Used) \in Nat /\ world.limit \in Nat /\ hops \subseteq {"d1", "s"}
      /\ ev.id \in Ids
  BY UsedIsFinite, WorldIsOne DEF ReadyTypes, Told
<1>2. /\ Cardinality(Used) <= world.limit
      /\ mainId = Nowhere /\ "s" \notin hops => Cardinality(Used) + 1 <= world.limit
      /\ refused => "s" \in hops
  BY DEF ReserveIsKept, MainDocumentFits
<1>3. CASE ~hasRoom(ev.id)
  <2>1. /\ UNCHANGED <<slots, mainId>>
        /\ refused' = (refused \/ (Doc(ev.id) /\ mainId = Nowhere))
    BY <1>3 DEF handleSent
  <2>2. Used' = Used BY <2>1 DEF Used
  <2>3. Doc(ev.id) /\ mainId = Nowhere => "s" \in hops
    <3>1. SUFFICES ASSUME Doc(ev.id), mainId = Nowhere, "s" \notin hops PROVE FALSE OBVIOUS
    <3>2. limitFor(ev.id) = world.limit BY <3>1 DEF limitFor
    <3> QED BY <1>1, <1>2, <1>3, <3>1, <3>2 DEF hasRoom
  <2> QED BY <1>2, <2>1, <2>2, <2>3 DEF ReserveIsKept, MainDocumentFits
<1>4. CASE hasRoom(ev.id)
  <2>0. ev.what = "redirected" => ev.id \in {"d1", "s"} BY <1>1
  <2>1. mainId' = (IF Doc(ev.id) /\ mainId = Nowhere THEN ev.id ELSE mainId) /\ refused' = refused
    BY <1>4, <2>0, SentIsKept
  <2>2. mainId' = Nowhere => mainId = Nowhere /\ ~Doc(ev.id)
    BY <2>1 DEF Doc, Nowhere
  <2>3. /\ Cardinality(Used') <= world.limit
        /\ mainId' = Nowhere /\ "s" \notin hops => Cardinality(Used') + 1 <= world.limit
    <3>1. CASE Used' = Used \cup {ev.id}
      <4>1. CASE ev.id \in Used BY <1>2, <2>2, <3>1, <4>1, OneMore
      <4>2. CASE ev.id \notin Used
        <5>1. Cardinality(Used) < limitFor(ev.id) BY <1>1, <1>4, <4>2 DEF hasRoom, Used
        <5>2. /\ limitFor(ev.id) <= world.limit /\ limitFor(ev.id) \in Int
              /\ mainId' = Nowhere => limitFor(ev.id) = world.limit - 1
          BY <1>1, <2>2 DEF limitFor
        <5>3. Cardinality(Used') \in Nat /\ Cardinality(Used') <= Cardinality(Used) + 1
          BY <3>1, OneMore
        <5> QED BY <1>1, <5>1, <5>2, <5>3
      <4> QED BY <4>1, <4>2
    <3>2. CASE /\ ev.what = "redirected" /\ ev.id \in Used
               /\ Cardinality(Used \ {ev.id}) + 2 <= world.limit
               /\ Used' = Used \cup {hopId(ev.id)}
      <4>1. Cardinality(Used') \in Nat /\ Cardinality(Used') <= Cardinality(Used) + 1
        BY <3>2, OneMore
      <4>2. /\ Cardinality(Used) = Cardinality(Used \ {ev.id}) + 1
            /\ Cardinality(Used \ {ev.id}) \in Nat
        BY <3>2, OneMore
      <4>3. ev.id \in hops BY <3>2
      <4>4. mainId' = Nowhere => "s" \in hops
        <5>1. ev.id \in {"d1", "s"} BY <2>0, <3>2
        <5> QED BY <2>2, <4>3, <5>1 DEF Doc
      <4> QED BY <1>1, <3>2, <4>1, <4>2, <4>4
    <3> QED BY <1>4, <2>0, <3>1, <3>2, SentFills
  <2> QED BY <1>2, <2>1, <2>3 DEF ReserveIsKept, MainDocumentFits
<1> QED BY <1>3, <1>4

LEMMA ReserveIsKeptStep ==
  ASSUME ReadyTypes, EventsAreReal, ReserveIsKept, [ReadyNext]_readyVars
  PROVE  ReserveIsKept'
<1>1. CASE UNCHANGED <<world, hops, slots, mainId, refused>>
  BY <1>1 DEF ReserveIsKept, MainDocumentFits, Used
<1>2. CASE Waits
  <2>1. UNCHANGED <<world, hops, slots, refused>> BY <1>2, WaitLeaves
  <2>2. mainId' = mainId \/ mainId' = select_main_document
    <3>1. CASE LooksAtKid \/ Measures BY <3>1 DEF LooksAtKid, Measures, collector
    <3>2. CASE ReadsNetwork BY <3>2 DEF ReadsNetwork
    <3> QED BY <1>2, <3>1, <3>2, SampleEnds
  <2>3. mainId' = Nowhere => mainId = Nowhere
    BY <2>2 DEF select_main_document, Nowhere
  <2>4. Used' = Used BY <2>1 DEF Used
  <2> QED BY <2>1, <2>3, <2>4 DEF ReserveIsKept, MainDocumentFits
<1>3. CASE Tick
  <2>1. UNCHANGED <<world, hops, mainId, refused>> BY <1>3, TickLeaves
  <2>2. DOMAIN slots = Ids \cup HopIds BY DEF ReadyTypes
  <2>3. Used' = Used BY <1>3, <2>2, TickKeepsSlots DEF Used
  <2> QED BY <2>1, <2>3 DEF ReserveIsKept, MainDocumentFits
<1>4. CASE PageMoves
  <2>1. UNCHANGED <<world, slots, mainId, refused>> BY <1>4, PageLeaves
  <2>2. hops \subseteq hops'
    BY <1>4 DEF PageMoves, PageRequests, PageIsRedirected, PageAnswered, PageLoaded, PageRenders
  <2>3. Used' = Used BY <2>1 DEF Used
  <2> QED BY <2>1, <2>2, <2>3 DEF ReserveIsKept, MainDocumentFits
<1>5. CASE CollectorLags BY <1>1, <1>5 DEF CollectorLags, pageVars
<1>6. CASE Collects
  <2>1. UNCHANGED <<world, hops>> BY <1>6, CollectingLeaves DEF Collecting
  <2>2. /\ Head(chan) \in Told /\ Head(chan) = chan[1] /\ 1 \in 1..Len(chan)
        /\ Head(chan).what = "redirected" => Head(chan).id \in hops
    BY <1>6, HeadTaken DEF EventsAreReal
  <2>3. CASE Head(chan).what \in {"requestWillBeSent", "redirected"}
    <3>1. handleSent(Head(chan)) BY <1>6, <2>3 DEF Collects, handle_event
    <3> QED BY <2>1, <2>2, <3>1, SentReserves
  <2>4. CASE Head(chan).what \notin {"requestWillBeSent", "redirected"}
    <3>1. handleUpdate(Head(chan)) BY <1>6, <2>4 DEF Collects, handle_event
    <3> DEFINE ev == Head(chan)
    <3>2. /\ slots' \in [Ids \cup HopIds -> [state : ReqStates, at : 0..Budget]]
          /\ slots \in [Ids \cup HopIds -> [state : ReqStates, at : 0..Budget]]
          /\ \A u \in DOMAIN slots : u # ev.id => slots'[u] = slots[u]
          /\ slots[ev.id] = NoSlot => slots' = slots
          /\ slots[ev.id] # NoSlot => slots'[ev.id].state \in {"answered", "done", "failed"}
          /\ UNCHANGED <<mainId, truncated, refused>>
      <4> HIDE DEF ev
      <4>1. /\ slots' \in [Ids \cup HopIds -> [state : ReqStates, at : 0..Budget]]
            /\ \A u \in DOMAIN slots : u # ev.id => slots'[u] = slots[u]
            /\ slots[ev.id] = NoSlot => slots' = slots
            /\ slots[ev.id] # NoSlot =>
                 /\ slots'[ev.id] = [state |-> stateAfter(ev.what), at |-> now]
                 /\ stateAfter(ev.what) \in {"answered", "done", "failed"}
            /\ UNCHANGED <<mainId, truncated, refused>>
        BY <2>2, <2>4, <3>1, UpdateIsKept DEF ev
      <4>2. slots[ev.id] # NoSlot => slots'[ev.id].state = stateAfter(ev.what)
        BY <4>1
      <4> QED BY <4>1, <4>2 DEF ReadyTypes
    <3> HIDE DEF ev
    <3>3. Used' = Used
      <4>1. CASE slots[ev.id] = NoSlot BY <3>2, <4>1 DEF Used
      <4>2. CASE slots[ev.id] # NoSlot
        <5>1. slots'[ev.id] # NoSlot BY <3>2, <4>2 DEF NoSlot, Nowhere
        <5> QED BY <3>2, <4>2, <5>1 DEF Used
      <4> QED BY <4>1, <4>2
    <3> QED BY <2>1, <3>2, <3>3 DEF ReserveIsKept, MainDocumentFits
  <2> QED BY <2>3, <2>4
<1> QED BY <1>1, <1>2, <1>3, <1>4, <1>5, <1>6, ReadySteps DEF Collecting

-------------------------------------------------------------------------------
(* Readiness: what is reported.                                            *)

\* What an assessment finds satisfied was so.
LEMMA SatisfiedIsSo ==
  ASSUME ReadyTypes, SnapshotSettles, ReplacedIsSeen, ContentIsHeld, wpc = "assess",
         eligible, target_network_quiet, observes(tracker).stable
  PROVE  /\ sm.settled /\ sm.net.main /\ sm.net.complete /\ (Idle > SampleMax => sm.kept)
         /\ seen.content = sm.content /\ sm.start - seen.since >= Stable
<1>1. sm.net.main /\ sm.net.complete BY DEF eligible
<1>2. sm.settled
  <2>1. sm.net.busy \subseteq {"top", "kid"} BY DEF ReadyTypes, Samples, Snapshots, Frames
  <2>2. \A frame \in sm.net.busy : frame # "top" /\ sm.kid = "ancillary"
    BY DEF target_network_quiet, required
  <2>3. sm.net.busy # {} => sm.net.busy = {"kid"} /\ sm.kid = "ancillary" BY <2>1, <2>2
  <2> QED BY <1>1, <2>3 DEF SnapshotSettles
<1>3. tracker.some /\ tracker.last = sm.content /\ sm.start - tracker.since >= Stable
  <2> DEFINE same == tracker.some /\ tracker.last = sm.content
  <2>1. observes(tracker).stable =
          (same /\ sm.start - (IF same THEN tracker.since ELSE sm.start) >= Stable)
    BY DEF observes
  <2>2. same BY <2>1
  <2> QED BY <2>1, <2>2
<1>4. seen.content = sm.content /\ seen.since <= tracker.since
  BY <1>3 DEF ContentIsHeld, Measured
<1>5. sm.start - seen.since >= Stable BY <1>3, <1>4, Clocks, ReadyBounds
<1>6. Idle > SampleMax => sm.kept
  <2>1. "top" \notin sm.net.busy BY DEF target_network_quiet, required
  <2> QED BY <1>1, <2>1 DEF ReplacedIsSeen
<1> QED BY <1>1, <1>2, <1>4, <1>5, <1>6

LEMMA ReportIsEarnedStep ==
  ASSUME ReadyTypes, SnapshotSettles, ReplacedIsSeen, ContentIsHeld, ReportIsEarned,
         [ReadyNext]_readyVars
  PROVE  ReportIsEarned'
<1>1. CASE UNCHANGED <<wpc, sm, seen, report>> BY <1>1 DEF ReportIsEarned, Sampling
<1>2. CASE Tick
  <2>1. UNCHANGED <<wpc, sm, report>> BY <1>2, TickLeaves
  <2>2. report.by = Nowhere BY <1>2 DEF Tick, ReportIsEarned
  <2> QED BY <2>1, <2>2 DEF ReportIsEarned, Sampling
<1>3. CASE Collecting BY <1>1, <1>3, CollectingLeaves
<1>4. CASE PageMoves BY <1>1, <1>4, PageLeaves
<1>5. CASE Waits
  <2>1. /\ sm \in Samples
        /\ report \in [by : {Nowhere, "stable"}, timedOut : BOOLEAN, complete : BOOLEAN,
                       main : {Nowhere, "d1", "d2", "k"}]
    BY DEF ReadyTypes
  <2>2. wpc \notin {"status", "over"} => report.by = Nowhere /\ ~report.timedOut
    BY DEF ReportIsEarned
  <2>3. ~NoSample.failed BY DEF NoSample
  <2>4. CASE WaitStarts \/ Sleeps
    <3>1. /\ wpc \in {"navigating", "sleep"} /\ wpc' = "loop" /\ UNCHANGED <<sm, report>>
      BY <2>4 DEF WaitStarts, Sleeps, Goes
    <3> QED BY <2>2, <3>1 DEF ReportIsEarned, Sampling
  <2>5. CASE BeginsSample
    <3>1. /\ wpc = "loop" /\ wpc' = "measure" /\ report' = report
          /\ sm' = [NoSample EXCEPT !.start = now, !.loader = page.loader]
      BY <2>5 DEF BeginsSample, Goes
    <3>2. ~sm'.failed BY <3>1 DEF NoSample
    <3> QED BY <2>2, <3>1, <3>2 DEF ReportIsEarned, Sampling
  <2>6. CASE Measures \/ LooksAtKid \/ ReadsNetwork
    <3>1. /\ Sampling /\ wpc' \notin {"status", "over"} /\ report' = report
      BY <2>6 DEF Measures, LooksAtKid, ReadsNetwork, Goes, Sampling
    <3>2. sm'.failed = sm.failed
      <4>1. CASE Measures BY <2>1, <4>1 DEF Measures, Samples
      <4>2. CASE LooksAtKid
        <5>1. PICK scope \in {kidScope, "unknown"} :
                sm' = [sm EXCEPT !.kid = scope,
                  !.ready = @ /\ (scope = "target" => real["k"] \notin {"open", "answered"})]
          BY <4>2 DEF LooksAtKid
        <5> QED BY <2>1, <5>1 DEF Samples
      <4>3. CASE ReadsNetwork
        <5>1. sm' = [sm EXCEPT !.net = readiness_snapshot, !.settled = ~was]
          BY <4>3 DEF ReadsNetwork
        <5> HIDE DEF readiness_snapshot
        <5> QED BY <2>1, <5>1 DEF Samples
      <4> QED BY <2>6, <4>1, <4>2, <4>3
    <3>3. ~sm.failed /\ wpc \notin {"status", "over"}
      BY <3>1 DEF ReportIsEarned, Sampling
    <3> QED BY <2>2, <3>1, <3>2, <3>3 DEF ReportIsEarned
  <2>7. CASE Assesses
    <3> DEFINE ready == eligible /\ target_network_quiet /\ tracker'.stable
               satisfied == ready /\ (world.strict => quiet)
    <3>1. /\ wpc = "assess"
          /\ tracker' = IF eligible THEN observes(tracker) ELSE Afresh
          /\ report' = [report EXCEPT !.complete = sm.net.complete /\ observed,
                                      !.by = IF satisfied THEN "stable" ELSE Nowhere]
          /\ wpc' = IF satisfied THEN "status" ELSE "sleep"
          /\ sm' = IF satisfied THEN sm ELSE NoSample
      BY <2>7 DEF Assesses, Goes
    <3>2. report.by = Nowhere /\ ~report.timedOut /\ ~sm.failed
      BY <2>2, <3>1 DEF ReportIsEarned, Sampling
    <3>3. CASE satisfied
      <4>1. eligible /\ target_network_quiet /\ tracker'.stable BY <3>3
      <4>2. tracker' = observes(tracker) BY <3>1, <4>1
      <4>3. /\ sm.settled /\ sm.net.main /\ sm.net.complete /\ (Idle > SampleMax => sm.kept)
            /\ seen.content = sm.content /\ sm.start - seen.since >= Stable
        BY <3>1, <4>1, <4>2, SatisfiedIsSo
      <4>4. observed BY <4>1 DEF eligible
      <4>5. report'.complete /\ ~report'.timedOut
        <5>1. /\ report'.complete = (sm.net.complete /\ observed)
              /\ report'.timedOut = report.timedOut
          <6> HIDE DEF satisfied
          <6> QED BY <2>1, <3>1
        <5> QED BY <3>2, <4>3, <4>4, <5>1
      <4>6. wpc' = "status" /\ sm' = sm /\ seen' = seen BY <2>7, <3>1, <3>3 DEF Assesses
      <4> QED BY <3>2, <4>3, <4>5, <4>6 DEF ReportIsEarned, Sampling
    <3>4. CASE ~satisfied
      <4>1. wpc' = "sleep" /\ sm' = NoSample BY <3>1, <3>4
      <4>2. report'.by = Nowhere /\ report'.timedOut = report.timedOut
        <5> DEFINE whole == sm.net.complete /\ observed
        <5>1. report' = [report EXCEPT !.complete = whole, !.by = Nowhere] BY <3>1, <3>4
        <5> HIDE DEF whole
        <5> QED BY <2>1, <5>1
      <4> QED BY <2>3, <3>2, <4>1, <4>2 DEF ReportIsEarned
    <3> QED BY <3>3, <3>4
  <2>8. CASE SampleCut
    <3>1. /\ wpc \in {"measure", "kid", "network", "assess"} /\ wpc' = "status" /\ sm' = NoSample
          /\ report' = [report EXCEPT !.timedOut = TRUE]
      BY <2>8 DEF SampleCut, InSample, Goes
    <3>2. report'.by = report.by BY <2>1, <3>1
    <3> QED BY <2>2, <2>3, <3>1, <3>2 DEF ReportIsEarned
  <2>9. CASE SampleFails
    <3>1. /\ wpc \in {"measure", "kid", "network", "assess"} /\ wpc' = "sleep"
          /\ report' = [report EXCEPT !.complete = FALSE]
      BY <2>9 DEF SampleFails, InSample, losesEvidence, Goes
    <3>2. report'.by = report.by /\ report'.timedOut = report.timedOut /\ ~report'.complete
      BY <2>1, <3>1
    <3> QED BY <2>2, <3>1, <3>2 DEF ReportIsEarned, Sampling
  <2>10. CASE WaitTimesOut
    <3>1. /\ wpc = "loop" /\ wpc' = "status" /\ sm' = sm /\ seen' = seen
          /\ report' = [report EXCEPT !.timedOut = TRUE]
      BY <2>10 DEF WaitTimesOut, Goes
    <3>2. report'.by = report.by /\ report'.complete = report.complete BY <2>1, <3>1
    <3> QED BY <2>2, <3>1, <3>2 DEF ReportIsEarned, Sampling
  <2>11. CASE ReportsMain
    <3>1. /\ wpc = "status" /\ wpc' = "over" /\ sm' = sm /\ seen' = seen
          /\ report' = [report EXCEPT !.main = mainId']
      BY <2>11 DEF ReportsMain, Goes
    <3>2. /\ report'.by = report.by /\ report'.complete = report.complete
          /\ report'.timedOut = report.timedOut
      BY <2>1, <3>1
    <3> QED BY <3>1, <3>2 DEF ReportIsEarned, Sampling
  <2> QED BY <1>5, <2>4, <2>5, <2>6, <2>7, <2>8, <2>9, <2>10, <2>11 DEF Waits
<1> QED BY <1>1, <1>2, <1>3, <1>4, <1>5, ReadySteps

-------------------------------------------------------------------------------
(* Readiness: the invariant.                                               *)

LEMMA ReadyAtFirst ==
  ASSUME ReadyInit
  PROVE  ReadyInv
<1> USE DEF ReadyInit
<1>1. \A u \in Ids \cup HopIds : slots[u] = NoSlot OBVIOUS
<1>2. ReadyTypes
  <2>1. 0 \in 0..Budget /\ -Idle \in Int /\ 0 <= Capacity BY ReadyBounds
  <2>2. sm \in Samples
    <3>1. NoNetwork \in Snapshots BY DEF NoNetwork, Snapshots
    <3> QED BY <2>1, <3>1 DEF NoSample, Samples, Shown
  <2>3. slots \in [Ids \cup HopIds -> [state : ReqStates, at : 0..Budget]]
    BY <2>1 DEF NoSlot, ReqStates
  <2>4. chan \in Seq(Told) /\ Len(chan) <= Capacity BY <2>1
  <2>5. /\ tracker \in Trackers /\ seen \in Sightings
        /\ report \in [by : {Nowhere, "stable"}, timedOut : BOOLEAN, complete : BOOLEAN,
                       main : {Nowhere, "d1", "d2", "k"}]
    BY DEF NoTracker, NoReport, NothingSeen, Trackers, Sightings, Shown
  <2>6. page \in Views BY DEF Views, Shown
  <2>7. real \in [Ids -> ReqStates] BY DEF ReqStates
  <2> QED BY <2>1, <2>2, <2>3, <2>4, <2>5, <2>6, <2>7 DEF ReadyTypes, WaitPlaces
<1>3. EventsAreReal
  <2>1. NoSlot.state = Nowhere BY DEF NoSlot
  <2>2. DOMAIN slots = Ids \cup HopIds /\ Len(chan) = 0 /\ page.loader = 0 OBVIOUS
  <2> QED BY <1>1, <2>1, <2>2 DEF EventsAreReal, Nowhere
<1>4. RequestsAreKnown /\ NeedIsSeen BY DEF RequestsAreKnown, NeedIsSeen
<1>5. SnapshotSettles BY DEF SnapshotSettles, NoSample, NoNetwork, Nowhere
<1>6. SampleIsShort BY DEF SampleIsShort, Sampling, NoSample
<1>7. ContentIsHeld BY DEF ContentIsHeld, Sampling, Measured, NoTracker, NothingSeen
<1>10. DocumentsFollow
  <2>1. "d2" \in Ids BY DEF Ids
  <2> QED BY <2>1 DEF DocumentsFollow
<1>11. ReplacedIsSeen BY DEF ReplacedIsSeen, Measured, NoSample, NoNetwork
<1>8. ReserveIsKept
  <2>1. Used = {} BY <1>1 DEF Used
  <2>2. Cardinality(Used) = 0 BY <2>1, FS_EmptySet
  <2>3. world.limit \in Nat /\ world.limit >= 1 BY <1>2, WorldIsOne
  <2> QED BY <2>2, <2>3 DEF ReserveIsKept, MainDocumentFits
<1>9. ReportIsEarned BY DEF ReportIsEarned, NoReport, NoSample, Sampling, Nowhere
<1> QED BY <1>2, <1>3, <1>4, <1>5, <1>6, <1>7, <1>8, <1>9, <1>10, <1>11 DEF ReadyInv

LEMMA ReadyInvStep ==
  ASSUME ReadyInv, [ReadyNext]_readyVars
  PROVE  ReadyInv'
<1>1. /\ ReadyTypes /\ EventsAreReal /\ RequestsAreKnown /\ NeedIsSeen /\ SnapshotSettles
      /\ DocumentsFollow /\ SampleIsShort /\ ReplacedIsSeen /\ ContentIsHeld /\ ReserveIsKept
      /\ ReportIsEarned
  BY DEF ReadyInv
<1>2. ReadyTypes' BY <1>1, ReadyTypesStep
<1>3. EventsAreReal' BY <1>1, EventsAreRealStep
<1>4. RequestsAreKnown' BY <1>1, RequestsAreKnownStep
<1>5. NeedIsSeen' BY <1>1, NeedIsSeenStep
<1>6. SnapshotSettles' BY <1>1, SnapshotSettlesStep
<1>7. SampleIsShort' BY <1>1, SampleIsShortStep
<1>8. ContentIsHeld' BY <1>1, ContentIsHeldStep
<1>9. ReserveIsKept' BY <1>1, ReserveIsKeptStep
<1>10. ReportIsEarned' BY <1>1, ReportIsEarnedStep
<1>11. DocumentsFollow' BY <1>1, DocumentsFollowStep
<1>12. ReplacedIsSeen' BY <1>1, ReplacedIsSeenStep
<1> QED BY <1>2, <1>3, <1>4, <1>5, <1>6, <1>7, <1>8, <1>9, <1>10, <1>11, <1>12 DEF ReadyInv

\* For every budget, window, channel capacity and number of slots: what the collector has
\* happened, what it lacks was lost and told, and what the wait's samples measured is as
\* old as its tracker says (NetworkCollector, wait_for_readiness).
THEOREM ReadyInvariant == ReadySpec => []ReadyInv
<1>1. ReadyInit => ReadyInv BY ReadyAtFirst
<1>2. ReadyInv /\ [ReadyNext]_readyVars => ReadyInv' BY ReadyInvStep
<1> QED BY <1>1, <1>2, PTL DEF ReadySpec

\* The document reported is the latest that was answered, if nothing was lost.
LEMMA LatestIsFound ==
  ASSUME ReadyInv, ReportsMain
  PROVE  LatestIsReported
<1> SUFFICES ASSUME chan = <<>>, ~lagged, complete
             PROVE  loaderOf(report'.main) >= page.loader
  BY DEF LatestIsReported
<1>1. ReadyTypes /\ EventsAreReal /\ RequestsAreKnown BY DEF ReadyInv
<1>2. report'.main = select_main_document
  <2>1. mainId' = select_main_document /\ report' = [report EXCEPT !.main = mainId']
    BY DEF ReportsMain
  <2> QED BY <1>1, <2>1 DEF ReadyTypes
<1>3. page.loader \in 0..2 BY <1>1 DEF ReadyTypes, Views
<1>4. CASE page.loader = 2
  <2>1. real["d2"] # Nowhere /\ "d2" \in Ids BY <1>1, <1>4 DEF EventsAreReal, Ids
  <2>2. slots["d2"] # NoSlot BY <1>1, <2>1 DEF RequestsAreKnown, complete
  <2> QED BY <1>2, <1>4, <2>2 DEF select_main_document, loaderOf
<1>5. CASE page.loader # 2 BY <1>2, <1>3, <1>5 DEF loaderOf
<1> QED BY <1>4, <1>5

\* A report of readiness can be relied on (wait_for_readiness, select_main_document).
THEOREM ReadinessEarned == ReadySpec => ReadinessIsEarned
<1>1. ASSUME ReadyInv
      PROVE  /\ ReadyTypeOK /\ SatisfiedMeansSettled /\ SatisfiedContentHeld
             /\ MeasuredIsTheFinishedDocument /\ FailedSampleTakesBack /\ MainDocumentFits
  <2>1. ReadyTypes /\ SnapshotSettles /\ ReserveIsKept /\ ReportIsEarned BY <1>1 DEF ReadyInv
  <2>2. ReadyTypeOK
    <3>1. sm.kid \in {Nowhere, "target", "ancillary", "unknown"} BY <2>1 DEF ReadyTypes, Samples
    <3> QED BY <2>1, <3>1 DEF ReadyTypeOK, ReadyTypes, ReqStates, ReserveIsKept, ReportIsEarned
  <2> QED BY <2>1, <2>2 DEF SatisfiedMeansSettled, SatisfiedContentHeld,
        MeasuredIsTheFinishedDocument, FailedSampleTakesBack, SnapshotSettles, ReserveIsKept,
        ReportIsEarned
<1>2. ASSUME ReadyInv, ReadyInv', [ReadyNext]_readyVars
      PROVE  [/\ (ReadyTypeOK /\ SatisfiedMeansSettled /\ SatisfiedContentHeld)'
              /\ (MeasuredIsTheFinishedDocument /\ FailedSampleTakesBack /\ MainDocumentFits)'
              /\ LatestIsReported]_readyVars
  <2>1. /\ (ReadyTypeOK /\ SatisfiedMeansSettled /\ SatisfiedContentHeld)'
        /\ (MeasuredIsTheFinishedDocument /\ FailedSampleTakesBack /\ MainDocumentFits)'
    BY <1>1, <1>2, PTL
  <2>2. LatestIsReported BY <1>2, LatestIsFound DEF LatestIsReported
  <2> QED BY <2>1, <2>2
<1> QED BY <1>2, ReadyInvariant, PTL DEF ReadySpec, ReadinessIsEarned
===============================================================================
