------------------------------- MODULE Readiness -------------------------------
(***************************************************************************)
(* Waiting for a page (sdk/fetch/pipeline/browser/wait.rs, readiness.rs)   *)
(* over the network events of its tab (fetch/artifacts/collectors.rs).     *)
(* The page sends requests, navigates and renders at any time; its events  *)
(* come through a channel that drops the oldest when its reader is behind; *)
(* a sample of the page takes several calls, between which it goes on.     *)
(*                                                                         *)
(* One tick is half a second, what a sample may take.  The collector empties *)
(* the channel within a tick.                                              *)
(***************************************************************************)
EXTENDS Integers, Sequences, FiniteSets

CONSTANTS Worlds,     \* [ids, kid, where, strict, limit, lossy]: see ReadyInit
          Contents,   \* what the target may show, as far as counts and hashes tell
          Capacity,   \* 256 in the source: events a reader may be behind
          Idle,       \* the network must be quiet for as long
          Stable,     \* and the content unchanged
          SampleMax,  \* what one sample may take (500 ms)
          Budget      \* the wait's, less the reserve for what follows

ASSUME ReadyAssumption ==
  /\ Capacity \in Nat \ {0} /\ Idle \in Nat \ {0} /\ Stable \in Nat \ {0}
  /\ SampleMax \in Nat \ {0} /\ Budget \in Nat \ {0}
\* At most one child frame, of the target or not; the main document's slot is one of
\* those there are.
ASSUME NetworksAssumption == \A w \in Worlds :
  /\ w.kid \in {"nowhere", "target", "ancillary"}
  /\ w.strict \in BOOLEAN /\ w.limit \in Nat \ {0}

Nowhere == "nowhere"
\* The first page's and a script redirect's document, what they load, the
\* document of a child frame and what that loads.
Ids == {"d1", "d2", "s", "t", "k", "x"}
Doc(id) == id \in {"d1", "d2", "k"}
frameOf(id) == IF id \in {"k", "x"} THEN "kid" ELSE "top"
loaderOf(id) == IF id = "d2" THEN 2 ELSE 1
HopIds == {"d1#redirect", "s#redirect"}
hopId(id) == IF id = "d1" THEN "d1#redirect" ELSE "s#redirect"

VARIABLES
  world,
  now,      \* ticks since the wait began
  real,     \* what each request really is: none, open, answered, done, failed
  hops,     \* requests that were redirected already
  was,      \* history: whether the target needed any request under way when
            \* the present tick began
  page,     \* [loader, content, ready]: of the top document
  chan, lagged,  \* events not taken yet, and whether some were dropped
  slots,    \* the collector's entries by request id, NoSlot if there is none
  mainId, dropped, truncated, lastActivity,
  refused,  \* history: whether a first Document found no slot
  wpc, sm,  \* where the wait is, and the sample it is taking
  tracker,  \* what was last measured of the target, and since when it is so
  seen,     \* history: the content of the last samples, and when the first of them
            \* began that all came back and measured just that
  report    \* what the wait returns

pageVars == <<real, hops, page>>
wire == <<chan, lagged>>
collector == <<slots, mainId, dropped, truncated, lastActivity, refused>>
waiter == <<wpc, sm, tracker, seen, report>>
readyVars == <<world, now, was, pageVars, wire, collector, waiter>>

NoSlot == [state |-> Nowhere, at |-> 0]
Blank == "blank"
NoTracker == [some |-> FALSE, last |-> Blank, since |-> 0, stable |-> FALSE]
NothingSeen == [content |-> Blank, since |-> 0]
\* kept and settled are history: that the tree's document was measured, and that
\* nothing the target needed was really under way.
\* net is the network snapshot: whether it is complete, the frames that have requests
\* under way or newly ended, and those whose document failed, and whether the tree's
\* document finished.
NoNetwork == [complete |-> FALSE, busy |-> {}, failed |-> {}, main |-> FALSE]
NoSample == [start |-> 0, loader |-> 0, content |-> Blank, ready |-> FALSE, net |-> NoNetwork,
             kid |-> Nowhere, kept |-> FALSE, settled |-> FALSE, failed |-> FALSE]
NoReport == [by |-> Nowhere, timedOut |-> FALSE, complete |-> FALSE, main |-> Nowhere]

ReadyInit ==
  /\ world \in Worlds
  /\ now = 0
  /\ real = [id \in Ids |-> Nowhere]
  /\ hops = {} /\ was = FALSE
  /\ page = [loader |-> 0, content |-> Blank, ready |-> FALSE]
  /\ chan = <<>> /\ lagged = FALSE
  /\ slots = [id \in Ids \cup HopIds |-> NoSlot]
  /\ mainId = Nowhere /\ dropped = FALSE /\ truncated = FALSE /\ lastActivity = -Idle /\ refused = FALSE
  /\ wpc = "navigating" /\ sm = NoSample /\ tracker = NoTracker /\ seen = NothingSeen
  /\ report = NoReport

-------------------------------------------------------------------------------
(* The page, and the channel its events come through.                         *)

UnderWay(r) == {id \in Ids : r[id] \in {"open", "answered"}}

\* broadcast: a reader that is a channel behind loses the oldest event.
sends(ev) ==
  /\ chan' = IF Len(chan) < Capacity THEN Append(chan, ev) ELSE Append(Tail(chan), ev)
  /\ lagged' = (lagged \/ Len(chan) = Capacity)
Event(what, id) == sends([what |-> what, id |-> id])

\* What the world has, in the order a page can send it; only in a lossy world
\* does the page outrun the reader.
mayTell == world.lossy \/ chan = <<>>
maySend(id) ==
  /\ id \in world.ids /\ real[id] = Nowhere
  /\ id = "d2" => page.loader = 1
  /\ id = "k" => page.loader # 0
  /\ id = "x" => real["k"] \in {"answered", "done"}

PageRequests == \E id \in Ids :
  /\ maySend(id) /\ mayTell
  /\ real' = [real EXCEPT ![id] = "open"] /\ Event("requestWillBeSent", id)
  /\ UNCHANGED <<world, now, was, hops, page, collector, waiter>>

PageIsRedirected == \E id \in {"d1", "s"} \ hops :
  /\ hopId(id) \in world.ids /\ real[id] = "open" /\ mayTell /\ hops' = hops \cup {id} /\ Event("redirected", id)
  /\ UNCHANGED <<world, now, was, real, page, collector, waiter>>

\* A document that is answered replaces the one before, and may show the same; of
\* other requests the answer is left out, and their failure, which change nothing here.
PageAnswered == \E id \in Ids :
  /\ real[id] = "open" /\ Doc(id) /\ mayTell
  /\ real' = [real EXCEPT ![id] = "answered"]
  /\ IF id \in {"d1", "d2"}
       THEN \E c \in Contents : page' = [loader |-> loaderOf(id), content |-> c, ready |-> FALSE]
       ELSE page' = page
  /\ Event("responseReceived", id)
  /\ UNCHANGED <<world, now, was, hops, collector, waiter>>

PageLoaded == \E id \in Ids, how \in {"done", "failed"} :
  /\ real[id] = "answered" \/ (real[id] = "open" /\ ~Doc(id)) \/ (real[id] = "open" /\ how = "failed" /\ id # "d1")
  /\ how = "failed" => Doc(id)
  /\ mayTell /\ real' = [real EXCEPT ![id] = how]
  /\ page' = IF Doc(id) /\ loaderOf(id) = page.loader /\ id # "k" THEN [page EXCEPT !.ready = TRUE] ELSE page
  /\ Event(IF how = "done" THEN "loadingFinished" ELSE "loadingFailed", id)
  /\ UNCHANGED <<world, now, was, hops, collector, waiter>>

\* What is shown changes, and changes back.
PageRenders ==
  /\ page.loader # 0
  /\ \E c \in Contents : page' = [page EXCEPT !.content = c]
  /\ UNCHANGED <<world, now, was, real, hops, wire, collector, waiter>>

\* What must have ended for the target to be ready, of what is really there.
RequiredOfAll(ids) == {id \in ids : world.strict \/ frameOf(id) = "top" \/ world.kid = "target"}

AtLeast(n, m) == IF n < m THEN m ELSE n

\* Time passes only once the collector has what there is; how long ago is
\* forgotten once it is longer than any window.
Tick ==
  /\ wpc \notin {"navigating", "status", "over"} /\ now < Budget /\ chan = <<>> /\ ~lagged
  /\ wpc \in {"measure", "kid", "network", "assess"} => now < sm.start + SampleMax
  /\ now' = now + 1 /\ was' = (RequiredOfAll(UnderWay(real)) # {})
  /\ slots' = [id \in DOMAIN slots |-> IF slots[id] = NoSlot THEN NoSlot
                                      ELSE [slots[id] EXCEPT !.at = AtLeast(@, now' - Idle)]]
  /\ lastActivity' = AtLeast(lastActivity, now' - Idle)
  /\ tracker' = [tracker EXCEPT !.since = AtLeast(@, now' - Stable - SampleMax)]
  /\ seen' = [seen EXCEPT !.since = AtLeast(@, now' - Stable - SampleMax)]
  /\ UNCHANGED <<world, pageVars, wire, mainId, dropped, truncated, refused, wpc, sm, report>>

-------------------------------------------------------------------------------
(* The collector.                                                             *)

Used == {id \in Ids \cup HopIds : slots[id] # NoSlot}

\* One slot is kept for the main document.
limitFor(id) == IF mainId = Nowhere /\ ~Doc(id) THEN world.limit - 1 ELSE world.limit
hasRoom(id) == slots[id] # NoSlot \/ Cardinality(Used) < limitFor(id)

\* A redirect ends a hop, which moves to an entry of its own if there is room.
moved(id) ==
  IF slots[id] = NoSlot \/ Cardinality(Used \ {id}) + 2 > world.limit THEN slots
  ELSE [slots EXCEPT ![hopId(id)] = [state |-> "done", at |-> now]]

\* requestWillBeSent, as the first request or after a redirect.
handleSent(ev) ==
  IF ~hasRoom(ev.id)
  THEN /\ truncated' = TRUE
       /\ refused' = (refused \/ (Doc(ev.id) /\ mainId = Nowhere))
       /\ UNCHANGED <<slots, mainId>>
  ELSE /\ mainId' = IF Doc(ev.id) /\ mainId = Nowhere THEN ev.id ELSE mainId
       /\ LET before == IF ev.what = "redirected" THEN moved(ev.id) ELSE slots IN
          slots' = [before EXCEPT ![ev.id] = [state |-> "open", at |-> now]]
       /\ truncated' = (truncated \/ (/\ ev.what = "redirected" /\ slots[ev.id] # NoSlot
                                      /\ moved(ev.id) = slots))
       /\ UNCHANGED refused

stateAfter(what) ==
  CASE what = "responseReceived" -> "answered" [] what = "loadingFinished" -> "done"
    [] what = "loadingFailed" -> "failed"

handleUpdate(ev) ==
  /\ slots' = IF slots[ev.id] = NoSlot THEN slots
              ELSE [slots EXCEPT ![ev.id] = [@ EXCEPT !.state = stateAfter(ev.what), !.at = now]]
  /\ UNCHANGED <<mainId, truncated, refused>>

\* Every event counts as activity, also one that found no slot.
handle_event(ev) ==
  /\ lastActivity' = now
  /\ IF ev.what \in {"requestWillBeSent", "redirected"} THEN handleSent(ev) ELSE handleUpdate(ev)

CollectorLags ==
  /\ lagged /\ lagged' = FALSE /\ dropped' = TRUE /\ lastActivity' = now
  /\ UNCHANGED <<world, now, was, pageVars, chan, slots, mainId, truncated, refused, waiter>>

Collects ==
  /\ ~lagged /\ chan # <<>>
  /\ handle_event(Head(chan)) /\ chan' = Tail(chan)
  /\ UNCHANGED <<world, now, was, pageVars, lagged, dropped, waiter>>

\* The latest document of the top frame owns the main status.
select_main_document ==
  IF slots["d2"] # NoSlot THEN "d2" ELSE IF slots["d1"] # NoSlot THEN "d1" ELSE mainId

Unfinished(id) == slots[id].state \in {"open", "answered"}
\* (Variant: lost events are not held against it.)
forgetsLoss == ~truncated
complete == ~dropped /\ ~truncated
quiet == (\A id \in Used : ~Unfinished(id)) /\ now - lastActivity >= Idle

-------------------------------------------------------------------------------
(* A sample: the frame tree, what the top frame shows, the child frame, the   *)
(* network.  Any call may fail, and the sample may run out of time.           *)

Goes(to) == wpc' = to
\* Steps that do not look at the network are taken when the collector has what
\* there is: only bursts of the page between two calls outrun it.
Prompt == chan = <<>> /\ ~lagged

\* navigate() has returned: the document was answered.
WaitStarts ==
  /\ wpc = "navigating" /\ real["d1"] # "open" /\ page.loader # 0
  /\ Goes("loop")
  /\ UNCHANGED <<world, now, was, pageVars, wire, collector, sm, tracker, seen, report>>

Expired == now >= Budget

BeginsSample ==
  /\ Prompt /\ wpc = "loop" /\ ~Expired
  /\ Goes("measure") /\ sm' = [NoSample EXCEPT !.start = now, !.loader = page.loader]
  /\ UNCHANGED <<world, now, was, pageVars, wire, collector, tracker, seen, report>>

Measures ==
  /\ Prompt /\ wpc = "measure"
  /\ Goes(IF world.kid # Nowhere /\ world.where = "tree" THEN "kid" ELSE "network")
  /\ sm' = [sm EXCEPT !.content = page.content, !.ready = page.ready,
                      !.kept = page.loader = sm.loader]
  /\ seen' = IF page.content = seen.content THEN seen
             ELSE [content |-> page.content, since |-> sm.start]
  /\ UNCHANGED <<world, now, was, pageVars, wire, collector, tracker, report>>

\* The child frame's owner is looked for in the target (all of the page if strict);
\* if it is there the frame is measured too, and what is ready then is both.  When
\* either call fails the frame is not observed.
kidScope == IF world.strict THEN "target" ELSE world.kid
LooksAtKid ==
  /\ Prompt /\ wpc = "kid"
  /\ \E scope \in {kidScope, "unknown"} :
       sm' = [sm EXCEPT !.kid = scope,
                        !.ready = @ /\ (scope = "target" => real["k"] \notin {"open", "answered"})]
  /\ Goes(IF world.where = "tree" THEN "network" ELSE "assess")
  /\ UNCHANGED <<world, now, was, pageVars, wire, collector, tracker, seen, report>>

readiness_snapshot ==
  [complete |-> complete,
   busy |-> {frameOf(id) : id \in {u \in Used : Unfinished(u) \/ now - slots[u].at < Idle}},
   failed |-> {frameOf(id) : id \in {u \in Used \cap {"d1", "d2", "k"} :
                 slots[u].state = "failed" /\ (u = "k" \/ loaderOf(u) = sm.loader)}},
   main |-> \E id \in Used \cap {"d1", "d2"} :
              loaderOf(id) = sm.loader /\ slots[id].state = "done"]

\* A child frame that only the network knows of is looked at after the snapshot.
ReadsNetwork ==
  /\ wpc = "network"
  /\ mainId' = select_main_document
  /\ sm' = [sm EXCEPT !.net = readiness_snapshot, !.settled = ~was]
  /\ Goes(IF world.where = "network" /\ slots["k"] # NoSlot THEN "kid" ELSE "assess")
  /\ UNCHANGED <<world, now, was, pageVars, wire, slots, dropped, truncated, lastActivity, refused,
                 tracker, seen, report>>

\* A frame nobody looked at is not known to be ancillary.
required(frame) == frame = "top" \/ sm.kid # "ancillary"
target_network_quiet == sm.net.complete /\ \A frame \in sm.net.busy : ~required(frame)
failed_target_document == \E frame \in sm.net.failed : required(frame)
observed == sm.kid # "unknown"
eligible ==
  sm.net.complete /\ observed /\ ~failed_target_document /\ sm.net.main /\ sm.ready

\* StabilityTracker::observe compares with the sample before, and with no other.
observes(t) ==
  LET same == t.some /\ t.last = sm.content
      since == IF same THEN t.since ELSE sm.start
  IN [some |-> TRUE, last |-> sm.content, since |-> since,
      stable |-> same /\ sm.start - since >= Stable]
Afresh == [NoTracker EXCEPT !.since = sm.start]

Assesses ==
  /\ wpc = "assess"
  /\ tracker' = IF eligible THEN observes(tracker) ELSE Afresh
  /\ LET ready == eligible /\ target_network_quiet /\ tracker'.stable
         satisfied == ready /\ (world.strict => quiet)
     IN /\ report' = [report EXCEPT !.complete = sm.net.complete /\ observed,
                                    !.by = IF satisfied THEN "stable" ELSE Nowhere]
        /\ Goes(IF satisfied THEN "status" ELSE "sleep")
        /\ sm' = IF satisfied THEN sm ELSE NoSample
  /\ UNCHANGED <<world, now, was, pageVars, wire, collector, seen>>

\* The wait may end within the last tick.
InSample == wpc \in {"measure", "kid", "network", "assess"}
cutShort == sm.start + SampleMax >= Budget

\* A sample the wait's own end cuts short takes nothing back.
SampleCut ==
  /\ InSample /\ cutShort
  /\ report' = [report EXCEPT !.timedOut = TRUE]
  /\ Goes("status") /\ sm' = NoSample
  /\ UNCHANGED <<world, now, was, pageVars, wire, collector, tracker, seen>>

\* One that fails or takes too long leaves no evidence.
losesEvidence ==
  /\ tracker' = Afresh
  /\ report' = [report EXCEPT !.complete = FALSE]
SampleFails ==
  /\ InSample
  /\ losesEvidence /\ seen' = NothingSeen
  /\ Goes("sleep") /\ sm' = [NoSample EXCEPT !.failed = TRUE]
  /\ UNCHANGED <<world, now, was, pageVars, wire, collector>>

Sleeps ==
  /\ Prompt /\ wpc = "sleep" /\ Goes("loop")
  /\ UNCHANGED <<world, now, was, pageVars, wire, collector, sm, tracker, seen, report>>

WaitTimesOut ==
  /\ wpc = "loop" /\ Expired
  /\ report' = [report EXCEPT !.timedOut = TRUE] /\ Goes("status")
  /\ UNCHANGED <<world, now, was, pageVars, wire, collector, sm, tracker, seen>>

\* wait_for_main_status: until the main entry has a status, or for a while.
ReportsMain ==
  /\ wpc = "status"
  /\ mainId' = select_main_document
  /\ report' = [report EXCEPT !.main = mainId']
  /\ Goes("over")
  /\ UNCHANGED <<world, now, was, pageVars, wire, slots, dropped, truncated, lastActivity, refused,
                 sm, tracker, seen>>

Waits ==
  \/ WaitStarts \/ BeginsSample \/ Measures \/ LooksAtKid \/ ReadsNetwork \/ Assesses
  \/ SampleCut \/ SampleFails \/ Sleeps \/ WaitTimesOut \/ ReportsMain
PageMoves == PageRequests \/ PageIsRedirected \/ PageAnswered \/ PageLoaded \/ PageRenders
Collecting == CollectorLags \/ Collects

ReadyNext == Waits \/ Tick \/ Collecting \/ (wpc # "over" /\ PageMoves)
ReadySpec == ReadyInit /\ [][ReadyNext]_readyVars

-------------------------------------------------------------------------------
(* Properties.                                                                *)

\* Type correctness of the collector's aggregate and of the wait (collectors.rs,
\* wait.rs).
ReadyTypeOK ==
  /\ slots \in [Ids \cup HopIds -> [state : {Nowhere, "open", "answered", "done", "failed"},
                                   at : 0..Budget]]
  /\ Cardinality(Used) <= world.limit /\ Len(chan) <= Capacity
  /\ mainId \in {Nowhere, "d1", "d2", "k"}
  /\ sm.kid \in {Nowhere, "target", "ancillary", "unknown"}
  /\ report.by # Nowhere => ~report.timedOut /\ report.complete

\* A satisfied wait means that nothing the target needs was under way, in the
\* page and not only among the events that arrived (quiet_snapshot, assess).
SatisfiedMeansSettled == report.by # Nowhere => sm.settled

\* and that for the stable window every sample came back and measured the same
\* content (StabilityTracker, and the reset after a failed sample).  What the page
\* shows between two samples nobody sees.
SatisfiedContentHeld ==
  report.by # Nowhere => seen.content = sm.content /\ sm.start - seen.since >= Stable

\* and that the document of the frame tree has finished, and is the one measured
\* if the network must be quiet for longer than a sample takes, though the frame
\* tree, the measurement and the network are read one after the other.
MeasuredIsTheFinishedDocument ==
  report.by # Nowhere => /\ real[IF sm.loader = 2 THEN "d2" ELSE "d1"] = "done"
                         /\ Idle > SampleMax => sm.kept

\* What a wait that timed out reports as completely observed was so in its last
\* sample that was not cut (wait_for_readiness).
FailedSampleTakesBack == sm.failed => ~report.complete

\* Many subresources alone never keep the main document out of the aggregate: a
\* redirect among them took its slot if it has none (requestWillBeSent's reserve,
\* collectors.rs:471), which docs/reference.md:340 says is the main document's.
MainDocumentFits == refused => "s" \in hops

\* The status reported is not that of a document older than the one shown, if
\* no event was lost (select_main_document, wait_for_main_status).
LatestIsReported ==
  ReportsMain /\ chan = <<>> /\ ~lagged /\ complete => loaderOf(report'.main) >= page.loader

\* A report of readiness can be relied on as far as it was looked: of the network,
\* of the document and of its status, with what events and samples left out told
\* (wait_for_readiness, NetworkCollector).
ReadinessIsEarned ==
  [][/\ (ReadyTypeOK /\ SatisfiedMeansSettled /\ SatisfiedContentHeld)'
     /\ (MeasuredIsTheFinishedDocument /\ FailedSampleTakesBack /\ MainDocumentFits)'
     /\ LatestIsReported]_readyVars
===============================================================================
