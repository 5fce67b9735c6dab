------------------------------- MODULE Downloads -------------------------------
(***************************************************************************)
(* A navigation that turns into a download                                 *)
(* (sdk/fetch/pipeline/browser/download.rs).  The browser saves every      *)
(* download of a profile into one directory; the fetches on that profile   *)
(* each list it before they navigate and then look for the file that is    *)
(* new, finished and named as their tab's download, if they heard its name. *)
(* Somebody at a retained tab downloads too.                               *)
(***************************************************************************)
EXTENDS Integers, Sequences, FiniteSets

CONSTANTS Fetches, Savers,  \* the fetches, and those and whoever else downloads
          Plans,            \* [name, staged]: what each saver's file is called, and
                            \* whether the browser writes under another name first
          SizeMax, WritesMax

ASSUME DownloadAssumption ==
  /\ Fetches \subseteq Savers /\ SizeMax \in Nat \ {0} /\ WritesMax \in Nat
ASSUME SaversAssumption == IsFiniteSet(Savers)
ASSUME PlansAssumption == \A p \in Plans : p.staged \in BOOLEAN

Unnamed == "unnamed"
NoFile == [st |-> "none", path |-> <<Unnamed, 0>>, size |-> 0, at |-> 0]
NoPath == [path |-> <<Unnamed, 0>>, part |-> FALSE]

VARIABLES
  plan,
  disk,      \* each saver's file: none, partial, whole or removed
  writes,    \* the clock of the modification times
  dpc,       \* start, listed, navigating, listening, looking, sizing, reported, failed
  hasDir, before, readable,  \* the directory, what it held, whether it could be read
  notice,    \* downloadWillBegin for the tab: none, published, lost
  flagged,   \* whether Page.navigate said it became a download
  expected,  \* the name that was heard of
  cand, size1,
  found      \* history: whose file is reported, and its state then

downloadVars == <<plan, disk, writes, dpc, hasDir, before, readable, notice, flagged,
                  expected, cand, size1, found>>
fetchSide == <<dpc, hasDir, before, readable, flagged, expected, cand, size1, found>>
browserSide == <<plan, disk, writes, notice>>

NoFind == [whose |-> "nobody", st |-> "none", new |-> TRUE]

DownloadInit ==
  /\ plan \in Plans
  /\ \E old \in BOOLEAN :
       disk = [s \in Savers |->
                 IF s \notin Fetches /\ old
                   THEN [st |-> "whole", path |-> <<plan.name[s], 0>>, size |-> 1, at |-> 0]
                   ELSE NoFile]
  /\ writes = 0
  /\ dpc = [f \in Fetches |-> "start"] /\ hasDir = [f \in Fetches |-> FALSE]
  /\ before = [f \in Fetches |-> {}] /\ readable = [f \in Fetches |-> TRUE]
  /\ notice = [f \in Fetches |-> "none"] /\ flagged = [f \in Fetches |-> FALSE]
  /\ expected = [f \in Fetches |-> Unnamed]
  /\ cand = [f \in Fetches |-> NoPath] /\ size1 = [f \in Fetches |-> 0]
  /\ found = [f \in Fetches |-> NoFind]

-----------------------------------------------------------------------------
(* The directory                                                           *)

\* "a_1", for "a (1)", is what "a" is saved as when it is taken, and a name of its own.
fileName(name, n) == IF name = "a" /\ n = 1 THEN <<"a_1", 0>> ELSE <<name, n>>

Present == {s \in Savers : disk[s].st \in {"partial", "whole"}}
pathOf(s) == [path |-> disk[s].path, part |-> disk[s].st = "partial" /\ plan.staged]
taken == {disk[s].path : s \in Present}
freePath(name) == LET n == CHOOSE k \in 0..Cardinality(Savers) :
                             /\ fileName(name, k) \notin taken
                             /\ \A j \in 0..(k - 1) : fileName(name, j) \in taken
                  IN fileName(name, n)

\* The browser starts to save; a tab's download also publishes its event, which
\* the fetch may miss.
StartsSaving(s) ==
  /\ disk[s].st = "none" /\ (s \in Fetches => dpc[s] = "navigating")
  /\ disk' = [disk EXCEPT ![s] = [st |-> "partial", path |-> freePath(plan.name[s]),
                                  size |-> 0, at |-> writes]]
  /\ IF s \in Fetches THEN \E n \in {"published", "lost"} : notice' = [notice EXCEPT ![s] = n]
                      ELSE UNCHANGED notice
  /\ UNCHANGED <<plan, writes, fetchSide>>

SavesMore(s) ==
  /\ disk[s].st = "partial" /\ disk[s].size < SizeMax /\ writes < WritesMax
  /\ writes' = writes + 1
  /\ disk' = [disk EXCEPT ![s].size = @ + 1, ![s].at = writes + 1]
  /\ UNCHANGED <<plan, notice, fetchSide>>

\* It gets its name when it is whole; a failed download leaves nothing.
EndsSaving(s) ==
  /\ disk[s].st = "partial"
  /\ disk' = [disk EXCEPT ![s].st = IF @ = "partial" /\ disk[s].size > 0 THEN "whole"
                                                                        ELSE "removed"]
  /\ UNCHANGED <<plan, writes, notice, fetchSide>>

-----------------------------------------------------------------------------
(* The fetch                                                               *)

at(f, p) == dpc' = [dpc EXCEPT ![f] = p]

\* The host may not tell the profile's directory; then nothing is listed, and
\* no event is subscribed to.
configure_download_capture(f) ==
  /\ dpc[f] = "start"
  /\ \/ at(f, "listed") /\ hasDir' = [hasDir EXCEPT ![f] = TRUE]
     \/ at(f, "navigating") /\ UNCHANGED hasDir
  /\ UNCHANGED <<browserSide, before, readable, flagged, expected, cand, size1, found>>

listing == {pathOf(s) : s \in Present}

\* A directory that cannot be read counts as an empty one.
snapshot_download_dir(f) ==
  /\ dpc[f] = "listed" /\ at(f, "navigating")
  /\ \E ok \in BOOLEAN :
       /\ readable' = [readable EXCEPT ![f] = ok]
       /\ before' = [before EXCEPT ![f] = IF ok THEN listing ELSE {}]
  /\ UNCHANGED <<browserSide, hasDir, flagged, expected, cand, size1, found>>

\* The flag comes with the answer to Page.navigate; a backend need not set it.
NavigateReturns(f) ==
  /\ dpc[f] = "navigating" /\ disk[f].st # "none" /\ at(f, "listening")
  /\ \E flag \in BOOLEAN : flagged' = [flagged EXCEPT ![f] = flag]
  /\ UNCHANGED <<browserSide, hasDir, before, readable, expected, cand, size1, found>>

heard(f) == hasDir[f] /\ notice[f] = "published"
navigation_became_download(f) == heard(f) \/ flagged[f]

\* The event may come without a name; with neither event nor flag the navigation
\* failed with ERR_ABORTED.
wait_for_download_start(f) ==
  /\ dpc[f] = "listening"
  /\ at(f, IF navigation_became_download(f) /\ hasDir[f] THEN "looking" ELSE "failed")
  /\ \E name \in IF heard(f) THEN {plan.name[f], Unnamed} ELSE {Unnamed} :
       expected' = [expected EXCEPT ![f] = name]
  /\ UNCHANGED <<browserSide, hasDir, before, readable, flagged, cand, size1, found>>

is_download_named(name, e) == name[1] = e \/ name = fileName(e, 1)

\* What qualifies of the files there are.  (Variant: whatever their names.)
looksFinished(p) == ~p.part
isNew(f, p) == p \notin before[f]
fitsAny(name, e) == TRUE
fits(name, e) == e = Unnamed \/ is_download_named(name, e)
Qualifying(f) == {s \in Present : LET p == pathOf(s) IN
                    isNew(f, p) /\ looksFinished(p) /\ fits(p.path, expected[f])}

\* The latest modified of them is sized twice.
newest_completed_download(f) ==
  /\ dpc[f] = "looking"
  /\ \E s \in Qualifying(f) :
       /\ \A o \in Qualifying(f) : disk[o].at <= disk[s].at
       /\ cand' = [cand EXCEPT ![f] = pathOf(s)]
       /\ size1' = [size1 EXCEPT ![f] = disk[s].size]
  /\ at(f, "sizing")
  /\ UNCHANGED <<browserSide, hasDir, before, readable, flagged, expected, found>>

Behind(f) == {s \in Present : pathOf(s) = cand[f]}

wait_for_download_file(f) ==
  /\ dpc[f] = "sizing"
  /\ IF \E s \in Behind(f) : disk[s].size = size1[f]
       THEN LET s == CHOOSE s \in Behind(f) : TRUE IN
            /\ at(f, "reported")
            /\ found' = [found EXCEPT ![f] = [whose |-> s, st |-> disk[s].st,
                                              new |-> cand[f] \notin before[f]]]
       ELSE at(f, "looking") /\ UNCHANGED found
  /\ UNCHANGED <<browserSide, hasDir, before, readable, flagged, expected, cand, size1>>

DownloadTimesOut(f) ==
  /\ dpc[f] \in {"looking", "sizing"} /\ at(f, "failed")
  /\ UNCHANGED <<browserSide, hasDir, before, readable, flagged, expected, cand, size1, found>>

DownloadNext ==
  \/ \E s \in Savers : StartsSaving(s) \/ SavesMore(s) \/ EndsSaving(s)
  \/ \E f \in Fetches :
       \/ configure_download_capture(f) \/ snapshot_download_dir(f) \/ NavigateReturns(f)
       \/ wait_for_download_start(f) \/ newest_completed_download(f)
       \/ wait_for_download_file(f) \/ DownloadTimesOut(f)

DownloadSpec == DownloadInit /\ [][DownloadNext]_downloadVars

-----------------------------------------------------------------------------
Reported == {f \in Fetches : dpc[f] = "reported"}

\* A file that is still being written under the browser's temporary name is not
\* reported, however long its size stays the same.
ReportedIsWhole == plan.staged => \A f \in Reported : found[f].st = "whole"

\* Nor is one that lay there when the fetch began, if the directory could be read.
ReportedIsNew == \A f \in Reported : readable[f] => found[f].new

Alike(s, f) == \E n \in 0..Cardinality(Savers) : is_download_named(fileName(plan.name[s], n),
                                                                   plan.name[f])
\* A fetch that heard its download's name reports the file its tab saved, however
\* many others are saved there meanwhile under names of their own.
NamedReportIsOwn ==
  \A f \in Reported :
     /\ expected[f] # Unnamed /\ readable[f]
     /\ \A s \in Savers \ {f} : ~Alike(s, f)
     => found[f].whose = f

\* What a fetch reports as its download is one: whole, new, and its own tab's if it
\* was told the name (newest_completed_download, wait_for_download_file).
DownloadIsTheTabs == ReportedIsWhole /\ ReportedIsNew /\ NamedReportIsOwn
===============================================================================
