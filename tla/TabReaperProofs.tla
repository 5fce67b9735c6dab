--------------------------- MODULE TabReaperProofs ---------------------------
(***************************************************************************)
(* Theorems about TabLedger, for any finite set of connections and any     *)
(* targets and request ids, and about TabReaper, for any number of         *)
(* drivers, tabs and browsers and any timeout.  The ledger's invariant     *)
(* goes along with the reaper's: every step of the reaper's world is a     *)
(* step of the ledger, or touches only the pages and the orphan set, from  *)
(* which it takes.                                                         *)
(***************************************************************************)
EXTENDS TabReaper, FiniteSetTheorems, TLAPS

\* The holders of a target are finitely many, being connections.
LEMMA HoldersFinite == \A t : IsFiniteSet(HoldersOf(t))
BY ConnsFinite, FS_Subset DEF HoldersOf

\* The only operations that touch the ledgers keep their types.
LEMMA TookType ==
    ASSUME LedgerTypeOK, NEW c \in Conns, NEW t \in Targets, Took(c, t)
    PROVE  /\ owned' \in [Conns -> SUBSET Targets]
           /\ target_holders' \in [Targets -> Nat]
           /\ orphaned_targets' \in SUBSET Targets
           /\ taken' \in SUBSET Targets
BY DEF LedgerTypeOK, Took

LEMMA ReleaseType ==
    ASSUME LedgerTypeOK, NEW ts
    PROVE  release(ts) \in [Targets -> Nat]
BY DEF LedgerTypeOK, release

LEMMA ClosedType ==
    ASSUME LedgerTypeOK, NEW c \in Conns, NEW t \in Targets, Closed(c, t)
    PROVE  /\ owned' \in [Conns -> SUBSET Targets]
           /\ target_holders' \in [Targets -> Nat]
           /\ closeAsked' \in SUBSET Targets
BY ReleaseType DEF LedgerTypeOK, Closed

\* An answer of the browser is a reply.
LEMMA AnswerType ==
    ASSUME LedgerTypeOK, NEW c \in Conns, NEW r \in ReqIds,
           NEW made \in SUBSET Targets, Answer(c, r, made)
    PROVE  replies' \in [Conns -> SUBSET Reply]
<1>1. [id |-> r, made |-> made] \in Reply
  BY DEF Reply
<1> QED
  BY <1>1 DEF LedgerTypeOK, Answer

\* One step of one connection keeps every variable in its type.
LEMMA ConnStepType ==
    ASSUME LedgerTypeOK, NEW c \in Conns, ConnStep(c)
    PROVE  LedgerTypeOK'
<1>1. CASE Connect(c)
  BY <1>1 DEF LedgerTypeOK, Connect, Phases
<1>2. CASE UpstreamOpens(c)
  BY <1>2 DEF LedgerTypeOK, UpstreamOpens, Phases
<1>3. ASSUME NEW r \in ReqIds, RequestCreate(c, r)
      PROVE  LedgerTypeOK'
  BY <1>3 DEF LedgerTypeOK, RequestCreate
<1>4. ASSUME NEW t \in Targets, RequestAttach(c, t)
      PROVE  LedgerTypeOK'
  BY <1>4, TookType DEF LedgerTypeOK, RequestAttach
<1>5. ASSUME NEW t \in Targets, RequestClose(c, t)
      PROVE  LedgerTypeOK'
  BY <1>5, ClosedType DEF LedgerTypeOK, RequestClose
<1>6. ASSUME NEW m \in replies[c], ResponseCreate(c, m)
      PROVE  LedgerTypeOK'
  <2>1. m \in Reply
    BY <1>6 DEF LedgerTypeOK
  <2>2. /\ owned' \in [Conns -> SUBSET Targets]
        /\ target_holders' \in [Targets -> Nat]
        /\ orphaned_targets' \in SUBSET Targets
        /\ taken' \in SUBSET Targets
    BY <1>6, <2>1, TookType DEF LedgerTypeOK, ResponseCreate, Reply
  <2>3. /\ replies' \in [Conns -> SUBSET Reply]
        /\ pending_creates' \in [Conns -> SUBSET ReqIds]
    BY <1>6 DEF LedgerTypeOK, ResponseCreate
  <2> QED
    BY <1>6, <2>2, <2>3 DEF LedgerTypeOK, ResponseCreate
<1>7. CASE EndConnection(c)
  <2>1. orphaned_targets' \in SUBSET Targets
    BY <1>7 DEF LedgerTypeOK, EndConnection, LastHolds
  <2> QED
    BY <1>7, <2>1, ReleaseType DEF LedgerTypeOK, EndConnection, Phases
<1>8. CASE DropGuard(c)
  BY <1>8 DEF LedgerTypeOK, DropGuard, Phases
<1> QED
  BY <1>1, <1>2, <1>3, <1>4, <1>5, <1>6, <1>7, <1>8 DEF ConnStep

\* So does one step of the browser or of the person at the display.
LEMMA BrowserStepType ==
    ASSUME LedgerTypeOK, BrowserStep
    PROVE  LedgerTypeOK'
<1>1. ASSUME NEW c \in Conns, NEW r \in ReqIds, NEW t \in Targets,
             BrowserCreates(c, r, t)
      PROVE  LedgerTypeOK'
  BY <1>1, AnswerType DEF LedgerTypeOK, BrowserCreates
<1>2. ASSUME NEW c \in Conns, NEW r \in ReqIds, BrowserRefusesCreate(c, r)
      PROVE  LedgerTypeOK'
  BY <1>2, AnswerType DEF LedgerTypeOK, BrowserRefusesCreate
<1>3. ASSUME NEW c \in Conns, NEW t \in Targets, BrowserCloses(c, t)
      PROVE  LedgerTypeOK'
  BY <1>3 DEF LedgerTypeOK, BrowserCloses
<1>4. ASSUME NEW c \in Conns, FramesLost(c)
      PROVE  LedgerTypeOK'
  BY <1>4 DEF LedgerTypeOK, FramesLost
<1>5. ASSUME NEW t \in Targets, TabOpensByItself(t)
      PROVE  LedgerTypeOK'
  BY <1>5 DEF LedgerTypeOK, TabOpensByItself
<1>6. ASSUME NEW t \in Targets, TabClosesByItself(t)
      PROVE  LedgerTypeOK'
  BY <1>6 DEF LedgerTypeOK, TabClosesByItself
<1> QED
  BY <1>1, <1>2, <1>3, <1>4, <1>5, <1>6 DEF BrowserStep

\* Every variable keeps the shape its Rust type gives it; in particular a
\* holder count never goes below zero (release, note_holding).
THEOREM LedgerTypeCorrect == LedgerSpec => []LedgerTypeOK
<1>1. LedgerInit => LedgerTypeOK
  BY DEF LedgerInit, LedgerTypeOK, Phases
<1>2. LedgerTypeOK /\ [LedgerNext]_ledgerVars => LedgerTypeOK'
  <2> SUFFICES ASSUME LedgerTypeOK, [LedgerNext]_ledgerVars
               PROVE  LedgerTypeOK'
    OBVIOUS
  <2>1. CASE LedgerNext
    BY <2>1, ConnStepType, BrowserStepType DEF LedgerNext
  <2>2. CASE UNCHANGED ledgerVars
    BY <2>2 DEF LedgerTypeOK, ledgerVars
  <2> QED
    BY <2>1, <2>2
<1> QED
  BY <1>1, <1>2, PTL DEF LedgerSpec

-----------------------------------------------------------------------------
(***************************************************************************)
(* The counts are exact.  That needs the ledgers of ended connections to   *)
(* be empty (HoldersAreOpen): a count could otherwise name a connection    *)
(* that will never give its hold up.                                       *)
(***************************************************************************)

\* What every step keeps: counts equal ledgers, orphans have no holder.
LedgerInv ==
    /\ LedgerTypeOK
    /\ HoldersAreOpen
    /\ HoldersCountLedgers
    /\ OrphansHaveNoHolder

\* Whether t is held at all can be read off the count.
LEMMA CountOfHeld ==
    ASSUME LedgerInv, NEW c \in Conns, NEW t \in owned[c]
    PROVE  target_holders[t] >= 1
<1>1. t \in Targets /\ c \in HoldersOf(t)
  BY DEF LedgerInv, LedgerTypeOK, HoldersOf
<1>2. Cardinality(HoldersOf(t)) \in Nat /\ Cardinality(HoldersOf(t)) # 0
  BY <1>1, HoldersFinite, FS_CardinalityType, FS_EmptySet
<1> QED
  BY <1>1, <1>2 DEF LedgerInv, HoldersCountLedgers

\* c takes t: it joins the holders of t, whose count goes up by one.
LEMMA TookCounts ==
    ASSUME LedgerInv, NEW c \in Conns, NEW t \in Targets, Took(c, t),
           phase[c] = "open", UNCHANGED phase
    PROVE  HoldersAreOpen' /\ HoldersCountLedgers' /\ OrphansHaveNoHolder'
<1>1. CASE t \in owned[c]
  BY <1>1 DEF LedgerInv, Took, HoldersAreOpen, HoldersCountLedgers,
              OrphansHaveNoHolder, HoldersOf
<1>2. CASE t \notin owned[c]
  <2> USE <1>2 DEF LedgerInv, LedgerTypeOK
  <2>1. HoldersOf(t)' = HoldersOf(t) \cup {c} /\ c \notin HoldersOf(t)
    BY DEF Took, HoldersOf
  <2>2. Cardinality(HoldersOf(t)') = Cardinality(HoldersOf(t)) + 1
    BY <2>1, HoldersFinite, FS_AddElement
  <2>3. \A u \in Targets \ {t} : HoldersOf(u)' = HoldersOf(u)
    BY DEF Took, HoldersOf
  <2>4. HoldersCountLedgers'
    BY <2>2, <2>3 DEF Took, HoldersCountLedgers
  <2>5. OrphansHaveNoHolder'
    BY <2>3 DEF Took, OrphansHaveNoHolder
  <2>6. HoldersAreOpen'
    BY DEF Took, HoldersAreOpen
  <2> QED
    BY <2>4, <2>5, <2>6
<1> QED
  BY <1>1, <1>2

\* c gives up ts, all of which it holds: every count of ts goes down by one.
LEMMA ReleaseCounts ==
    ASSUME LedgerInv, NEW c \in Conns, NEW ts \in SUBSET owned[c],
           owned' = [owned EXCEPT ![c] = @ \ ts],
           target_holders' = release(ts)
    PROVE  HoldersCountLedgers'
<1> SUFFICES ASSUME NEW t \in Targets
             PROVE  target_holders'[t] = Cardinality(HoldersOf(t)')
  BY DEF HoldersCountLedgers
<1> USE DEF LedgerInv, LedgerTypeOK
<1>1. CASE t \in ts
  <2>1. HoldersOf(t)' = HoldersOf(t) \ {c} /\ c \in HoldersOf(t)
    BY <1>1 DEF HoldersOf
  <2>2. Cardinality(HoldersOf(t)') = Cardinality(HoldersOf(t)) - 1
    <3>1. IsFiniteSet(HoldersOf(t))
      BY HoldersFinite
    <3>2. Cardinality(HoldersOf(t) \ {c}) = Cardinality(HoldersOf(t)) - 1
      BY <2>1, <3>1, FS_RemoveElement
    <3> QED
      BY <2>1, <3>2
  <2>3. target_holders'[t] = target_holders[t] - 1
    <3>1. target_holders[t] >= 1
      BY <1>1, CountOfHeld
    <3> QED
      BY <1>1, <3>1 DEF release
  <2> QED
    BY <2>2, <2>3 DEF HoldersCountLedgers
<1>2. CASE t \notin ts
  <2>1. HoldersOf(t)' = HoldersOf(t)
    BY <1>2 DEF HoldersOf
  <2> QED
    BY <1>2, <2>1 DEF HoldersCountLedgers, release
<1> QED
  BY <1>1, <1>2

\* The ledger is untouched: so is everything said about it.
LEMMA LedgerUntouched ==
    ASSUME LedgerInv, LedgerTypeOK', UNCHANGED <<owned, target_holders,
           orphaned_targets>>,
           \A c \in Conns : phase[c] = "open" => phase'[c] = "open"
    PROVE  LedgerInv'
BY DEF LedgerInv, LedgerTypeOK, HoldersAreOpen, HoldersCountLedgers,
       OrphansHaveNoHolder, HoldersOf

\* A connection that ends leaves exact counts, and only orphans behind that
\* nobody else holds.
LEMMA EndConnectionKeeps ==
    ASSUME LedgerInv, LedgerTypeOK', NEW c \in Conns, EndConnection(c)
    PROVE  LedgerInv'
<1>1. owned' = [owned EXCEPT ![c] = @ \ owned[c]]
  BY DEF LedgerInv, LedgerTypeOK, EndConnection
<1>2. HoldersCountLedgers'
  BY <1>1, ReleaseCounts DEF EndConnection
<1>3. HoldersAreOpen'
  BY DEF LedgerInv, LedgerTypeOK, HoldersAreOpen, EndConnection
<1>4. ASSUME NEW t \in orphaned_targets'
      PROVE  HoldersOf(t)' = {}
  <2>1. CASE t \in orphaned_targets
    BY <2>1 DEF LedgerInv, LedgerTypeOK, OrphansHaveNoHolder, HoldersOf,
                EndConnection
  <2>2. CASE t \in LastHolds(owned[c])
    <3>1. t \in Targets /\ target_holders[t] <= 1 /\ t \in owned[c]
      BY <2>2 DEF LastHolds, LedgerInv, LedgerTypeOK
    <3>2. target_holders'[t] = 0
      BY <3>1 DEF EndConnection, release, LedgerInv, LedgerTypeOK
    <3>3. Cardinality(HoldersOf(t)') = 0
      BY <1>2, <3>1, <3>2 DEF HoldersCountLedgers
    <3>4. IsFiniteSet(HoldersOf(t)')
      BY ConnsFinite, FS_Subset DEF HoldersOf
    <3> QED
      BY <3>3, <3>4, FS_EmptySet
  <2> QED
    BY <1>4, <2>1, <2>2 DEF EndConnection
<1> QED
  BY <1>2, <1>3, <1>4 DEF LedgerInv, OrphansHaveNoHolder

\* Every step of a connection keeps the invariant.
LEMMA ConnStepKeeps ==
    ASSUME LedgerInv, LedgerTypeOK', NEW c \in Conns, ConnStep(c)
    PROVE  LedgerInv'
<1> USE DEF LedgerInv
<1>1. CASE Connect(c)
  BY <1>1, LedgerUntouched DEF Connect, LedgerTypeOK
<1>2. CASE UpstreamOpens(c)
  BY <1>2, LedgerUntouched DEF UpstreamOpens, LedgerTypeOK
<1>3. ASSUME NEW r \in ReqIds, RequestCreate(c, r)
      PROVE  LedgerInv'
  BY <1>3, LedgerUntouched DEF RequestCreate
<1>4. ASSUME NEW t \in Targets, RequestAttach(c, t)
      PROVE  LedgerInv'
  BY <1>4, TookCounts DEF RequestAttach
<1>5. ASSUME NEW t \in Targets, RequestClose(c, t)
      PROVE  LedgerInv'
  <2>1. CASE t \in owned[c]
    <3>1. HoldersCountLedgers'
      BY <1>5, <2>1, ReleaseCounts DEF RequestClose, Closed
    <3>2. HoldersAreOpen' /\ OrphansHaveNoHolder'
      BY <1>5, <2>1 DEF RequestClose, Closed, HoldersAreOpen, LedgerTypeOK,
                        OrphansHaveNoHolder, HoldersOf
    <3> QED
      BY <3>1, <3>2
  <2>2. CASE t \notin owned[c]
    BY <1>5, <2>2, LedgerUntouched DEF RequestClose, Closed
  <2> QED
    BY <2>1, <2>2
<1>6. ASSUME NEW m \in replies[c], ResponseCreate(c, m)
      PROVE  LedgerInv'
  <2>1. m.made \in SUBSET Targets
    BY <1>6 DEF LedgerTypeOK, Reply
  <2>2. CASE UNCHANGED <<owned, target_holders, orphaned_targets>>
    BY <1>6, <2>2, LedgerUntouched DEF ResponseCreate
  <2>3. ASSUME NEW t \in m.made, Took(c, t)
        PROVE  LedgerInv'
    BY <1>6, <2>1, <2>3, TookCounts DEF ResponseCreate
  <2> QED
    BY <1>6, <2>2, <2>3 DEF ResponseCreate
<1>7. CASE EndConnection(c)
  BY <1>7, EndConnectionKeeps
<1>8. CASE DropGuard(c)
  BY <1>8, LedgerUntouched DEF DropGuard, LedgerTypeOK
<1> QED
  BY <1>1, <1>2, <1>3, <1>4, <1>5, <1>6, <1>7, <1>8 DEF ConnStep

\* The browser and the person never touch the ledger.
LEMMA BrowserStepKeeps ==
    ASSUME LedgerInv, LedgerTypeOK', BrowserStep
    PROVE  LedgerInv'
<1>1. UNCHANGED <<phase, owned, target_holders, orphaned_targets>>
  BY DEF BrowserStep, BrowserCreates, BrowserRefusesCreate, BrowserCloses,
         FramesLost, TabOpensByItself, TabClosesByItself
<1> QED
  BY <1>1, LedgerUntouched

LEMMA LedgerInvariant == LedgerSpec => []LedgerInv
<1>1. LedgerInit => LedgerInv
  <2> SUFFICES ASSUME LedgerInit
               PROVE  LedgerInv
    OBVIOUS
  <2>1. LedgerTypeOK
    BY DEF LedgerInit, LedgerTypeOK, Phases
  <2>2. \A t \in Targets : HoldersOf(t) = {}
    BY DEF LedgerInit, HoldersOf
  <2> QED
    BY <2>1, <2>2, FS_EmptySet
       DEF LedgerInit, LedgerInv, HoldersAreOpen, HoldersCountLedgers,
           OrphansHaveNoHolder
<1>2. LedgerInv /\ [LedgerNext]_ledgerVars => LedgerInv'
  <2> SUFFICES ASSUME LedgerInv, [LedgerNext]_ledgerVars
               PROVE  LedgerInv'
    OBVIOUS
  <2>1. LedgerTypeOK'
    BY ConnStepType, BrowserStepType
       DEF LedgerInv, LedgerNext, LedgerTypeOK, ledgerVars
  <2>2. CASE LedgerNext
    BY <2>1, <2>2, ConnStepKeeps, BrowserStepKeeps DEF LedgerNext
  <2>3. CASE UNCHANGED ledgerVars
    BY <2>1, <2>3, LedgerUntouched DEF ledgerVars
  <2> QED
    BY <2>2, <2>3
<1> QED
  BY <1>1, <1>2, PTL DEF LedgerSpec

\* The shared holder counts are exactly what the live connections' private
\* ledgers say, for any number of drivers attaching to, creating and closing
\* any tabs in any order (note_holding, release_targets).
THEOREM CountsAreExact == LedgerSpec => []HoldersCountLedgers
BY LedgerInvariant, PTL DEF LedgerInv

\* A tab somebody holds is never an orphan, so the reaper's orphan rule never
\* names a tab a driver is on.
THEOREM HeldTabsAreNoOrphans == LedgerSpec => []OrphansHaveNoHolder
BY LedgerInvariant, PTL DEF LedgerInv

-----------------------------------------------------------------------------
(***************************************************************************)
(* The reaper.                                                             *)
(***************************************************************************)

\* What the reaper's variables say of the browsers: a switch has room for one
\* more; only tabs that were handed out are listed or have a clock; what was
\* listed is in the browser that was asked, and that one has the clocks.
BrowsersOK ==
    /\ switching => active < MaxGeneration
    /\ pages \subseteq used
    /\ \A t \in Targets :
          idle_since[t] # NoClock => t \in used /\ home[t] = tracker_url
    /\ \A t \in sweep.ids : t \in used /\ home[t] = sweep.entry
    /\ sweep.at # "sleeping" => sweep.entry = tracker_url

\* What a sweep that began among held tabs, on a busy host or under a
\* credential has read, and therefore has not marked.
WatchOK ==
    /\ \A t \in heldThrough :
          sweep.driver /\ t \notin sweep.orphans \cup sweep.expired
    /\ busyThrough => sweep.driver /\ sweep.expired \subseteq sweep.orphans
    /\ ~credThrough

\* What every step keeps.
ReaperInv ==
    /\ LedgerInv
    /\ TypeOK
    /\ BrowsersOK
    /\ WatchOK

\* Steps that leave the browser's pages aside are the ledger's own.
OtherSteps ==
    \/ Mint \/ Lapse \/ SwitchBegins \/ SwitchEnds \/ Tick
    \/ SweepGate \/ SweepList \/ SweepListFails
    \/ \E t \in Targets : SweepCloseFails(t) \/ Navigates(t)

-----------------------------------------------------------------------------
(***************************************************************************)
(* The ledger.                                                             *)
(***************************************************************************)

\* Whatever the tabs do is a step of a connection or of the browser.
LEMMA TabStepIsLedgerStep ==
    ASSUME TabStep
    PROVE  \/ \E c \in Conns : ConnStep(c)
           \/ BrowserStep
           \/ UNCHANGED ledgerVars
           \/ \E g \in Generations : BrowserDies(g)
BY DEF TabStep, DriverConnects, DriverEnds, DriverCreates, HumanOpens,
       Navigates, OtherTabStep, ConnStep, BrowserStep

\* Pages that go and orphans that are forgotten leave the ledger's invariant.
LEMMA LessKeepsLedger ==
    ASSUME LedgerInv,
           UNCHANGED <<phase, pending_creates, owned, target_holders,
                       createWire, closeWire, replies, used, taken, closeAsked>>,
           orphaned_targets' \subseteq orphaned_targets,
           pages' \subseteq pages
    PROVE  LedgerInv'
BY DEF LedgerInv, LedgerTypeOK, HoldersAreOpen, HoldersCountLedgers,
       OrphansHaveNoHolder, HoldersOf

\* Every step of the reaper's world keeps the ledger's invariant.
LEMMA NextKeepsLedger ==
    ASSUME LedgerInv, [Next]_vars
    PROVE  LedgerInv'
<1>1. ASSUME NEW c \in Conns, ConnStep(c)
      PROVE  LedgerInv'
  BY <1>1, ConnStepType, ConnStepKeeps DEF LedgerInv
<1>2. CASE BrowserStep
  BY <1>2, BrowserStepType, BrowserStepKeeps DEF LedgerInv
<1>3. CASE UNCHANGED ledgerVars
  BY <1>3, LessKeepsLedger DEF ledgerVars
<1>4. ASSUME NEW g \in Generations, BrowserDies(g)
      PROVE  LedgerInv'
  BY <1>4, LessKeepsLedger DEF BrowserDies
<1>5. CASE SweepDecide
  BY <1>5, LessKeepsLedger DEF SweepDecide
<1>6. ASSUME NEW t \in Targets, SweepCloses(t)
      PROVE  LedgerInv'
  BY <1>6, LessKeepsLedger DEF SweepCloses
<1>7. CASE OtherSteps
  BY <1>7, <1>3 DEF OtherSteps, Mint, Lapse, SwitchBegins, SwitchEnds, Tick,
     SweepGate, SweepList, SweepListFails, SweepCloseFails, Navigates
<1> QED
  BY <1>1, <1>2, <1>3, <1>4, <1>5, <1>6, <1>7, TabStepIsLedgerStep
     DEF Next, SweepStep, OtherSteps, vars

-----------------------------------------------------------------------------
(***************************************************************************)
(* Types and browsers.                                                     *)
(***************************************************************************)

\* A step of the tabs leaves the reaper's own variables alone; it may put a
\* tab into a browser only when that tab is new.
TabFrame ==
    /\ UNCHANGED notTabs
    /\ browserOf' \in [Conns -> Generations]
    /\ home' \in [Targets -> Generations]
    /\ web' \in SUBSET Targets
    /\ used \subseteq used'
    /\ pages' \subseteq pages \cup used'
    /\ \A t \in used : home'[t] = home[t]

LEMMA TabStepFrame ==
    ASSUME TypeOK, TabStep
    PROVE  TabFrame
<1> USE DEF TypeOK, LedgerTypeOK, Generations, notTabs, TabFrame
<1>1. ASSUME NEW c \in Conns, DriverConnects(c)
      PROVE  TabFrame
  BY <1>1 DEF DriverConnects, Connect
<1>2. ASSUME NEW c \in Conns, DriverEnds(c)
      PROVE  TabFrame
  BY <1>2, ReaperBounds DEF DriverEnds, EndConnection
<1>3. ASSUME NEW c \in Conns, NEW r \in ReqIds, NEW t \in Targets,
             DriverCreates(c, r, t)
      PROVE  TabFrame
  BY <1>3 DEF DriverCreates, BrowserCreates
<1>4. ASSUME NEW t \in Targets, HumanOpens(t)
      PROVE  TabFrame
  BY <1>4 DEF HumanOpens, TabOpensByItself
<1>5. ASSUME NEW t \in Targets, Navigates(t)
      PROVE  TabFrame
  BY <1>5 DEF Navigates, ledgerVars
<1>6. CASE OtherTabStep
  <2>1. UNCHANGED used /\ pages' \subseteq pages
    BY <1>6 DEF OtherTabStep, UpstreamOpens, RequestCreate, RequestAttach,
       RequestClose, ResponseCreate, DropGuard, BrowserRefusesCreate,
       BrowserCloses, FramesLost, TabClosesByItself
  <2> QED
    BY <1>6, <2>1 DEF OtherTabStep
<1>7. ASSUME NEW g \in Generations, BrowserDies(g)
      PROVE  TabFrame
  BY <1>7 DEF BrowserDies
<1> QED
  BY <1>1, <1>2, <1>3, <1>4, <1>5, <1>6, <1>7 DEF TabStep

\* The sweeps there can be.
Sweeps == [at : {"sleeping", "listing", "deciding", "closing"},
           entry : Generations, driver : BOOLEAN,
           orphans : SUBSET Targets, ids : SUBSET Targets,
           expired : SUBSET Targets]

LEMMA SleepingIsASweep == Sleeping \in Sweeps
<1>1. 0 \in Generations
  BY ReaperBounds DEF Generations
<1> QED
  BY <1>1 DEF Sleeping, Sweeps

\* Every step of a sweep makes it another one.
LEMMA SweepStaysASweep ==
    ASSUME TypeOK, SweepStep
    PROVE  sweep' \in Sweeps
<1>1. sweep \in Sweeps
  BY DEF TypeOK, Sweeps
<1>2. CASE SweepGate
  <2>1. active \in Generations /\ orphaned_targets \in SUBSET Targets
    BY DEF TypeOK, LedgerTypeOK
  <2>2. ASSUME NEW d \in BOOLEAN
        PROVE  [Sleeping EXCEPT !.at = "listing", !.entry = active,
                                !.driver = d, !.orphans = orphaned_targets]
               \in Sweeps
    BY <2>1, SleepingIsASweep DEF Sweeps
  <2>3. (cdp_client_count > 0) \in BOOLEAN
    OBVIOUS
  <2>4. \/ UNCHANGED sweep
        \/ sweep' = [Sleeping EXCEPT !.at = "listing", !.entry = active,
                                     !.driver = (cdp_client_count > 0),
                                     !.orphans = orphaned_targets]
    BY <1>2, Zenon DEF SweepGate
  <2> QED
    BY <1>1, <2>2, <2>3, <2>4, Zenon
<1>3. CASE SweepList
  <2>1. {t \in pages : home[t] = sweep.entry} \in SUBSET Targets
    BY DEF TypeOK, LedgerTypeOK
  <2> QED
    BY <1>1, <1>3, <2>1 DEF SweepList, Sweeps
<1>4. CASE SweepListFails
  BY <1>4, SleepingIsASweep DEF SweepListFails
<1>5. CASE SweepDecide
  <2>1. {t \in Considered : Clocks[t] >= IdleTimeout} \in SUBSET Targets
    BY DEF Considered, TypeOK
  <2>2. [sweep EXCEPT !.at = "closing",
                      !.expired = {t \in Considered : Clocks[t] >= IdleTimeout}]
        \in Sweeps
    BY <1>1, <2>1 DEF Sweeps
  <2> QED
    BY <1>5, <2>2, SleepingIsASweep DEF SweepDecide
<1>6. ASSUME NEW t \in Targets, SweepCloses(t) \/ SweepCloseFails(t)
      PROVE  sweep' \in Sweeps
  <2>1. sweep.expired \ {t} \in SUBSET Targets
    BY DEF TypeOK
  <2>2. [sweep EXCEPT !.expired = sweep.expired \ {t}] \in Sweeps
    BY <1>1, <2>1 DEF Sweeps
  <2> QED
    BY <1>6, <2>2, SleepingIsASweep DEF SweepCloses, SweepCloseFails, SweepAfter
<1> QED
  BY <1>2, <1>3, <1>4, <1>5, <1>6 DEF SweepStep

\* Every step keeps every type.
LEMMA NextKeepsTypes ==
    ASSUME TypeOK, BrowsersOK, LedgerTypeOK', Next
    PROVE  TypeOK'
<1>1. /\ heldThrough' \in SUBSET Targets
      /\ busyThrough' \in BOOLEAN
      /\ credThrough' \in BOOLEAN
      /\ younger' \in SUBSET Targets
      /\ mislaid' \in SUBSET Targets
  BY DEF Next, Watches, Watch, WatchOrphans, TypeOK, LedgerTypeOK
<1>2. CASE TabStep
  BY <1>1, <1>2, TabStepFrame DEF TabFrame, notTabs, TypeOK
<1>3. CASE Mint \/ Lapse
  BY <1>1, <1>3 DEF Mint, Lapse, TypeOK
<1>4. CASE SwitchBegins \/ SwitchEnds
  <2>1. active' \in Generations
    BY <1>4, ReaperBounds
       DEF SwitchBegins, SwitchEnds, TypeOK, BrowsersOK, Generations
  <2> QED
    BY <1>1, <1>4, <2>1 DEF SwitchBegins, SwitchEnds, TypeOK
<1>5. CASE Tick
  BY <1>1, <1>5, ReaperBounds DEF Tick, TypeOK, NoClock
<1>6. CASE SweepStep
  <2>1. sweep' \in [at : {"sleeping", "listing", "deciding", "closing"},
                    entry : Generations, driver : BOOLEAN,
                    orphans : SUBSET Targets, ids : SUBSET Targets,
                    expired : SUBSET Targets]
    BY <1>6, SweepStaysASweep DEF Sweeps
  <2>2. CASE SweepGate
    BY <1>1, <2>1, <2>2, ReaperBounds
       DEF SweepGate, TypeOK, NoClocks, KeptClocks
  <2>3. CASE SweepList \/ SweepListFails
    BY <1>1, <2>1, <2>3 DEF SweepList, SweepListFails, TypeOK
  <2>4. CASE SweepDecide
    <3>1. Clocks \in [Targets -> {NoClock} \cup 0..IdleTimeout]
      BY ReaperBounds DEF Clocks, TypeOK
    <3> QED
      BY <1>1, <2>1, <2>4, <3>1 DEF SweepDecide, TypeOK
  <2>5. ASSUME NEW t \in Targets, SweepCloses(t) \/ SweepCloseFails(t)
        PROVE  TypeOK'
    BY <1>1, <2>1, <2>5 DEF SweepCloses, SweepCloseFails, TypeOK
  <2> QED
    BY <1>6, <2>2, <2>3, <2>4, <2>5 DEF SweepStep
<1> QED
  BY <1>2, <1>3, <1>4, <1>5, <1>6 DEF Next

\* Every step keeps clocks and listings to the browser they were taken in.
LEMMA NextKeepsBrowsers ==
    ASSUME TypeOK, BrowsersOK, Next
    PROVE  BrowsersOK'
<1> USE DEF TypeOK, LedgerTypeOK, BrowsersOK
<1>1. CASE TabStep
  BY <1>1, TabStepFrame DEF TabFrame, notTabs
<1>2. CASE Mint \/ Lapse \/ SwitchBegins
  BY <1>2 DEF Mint, Lapse, SwitchBegins, ledgerVars
<1>3. CASE SwitchEnds
  BY <1>3 DEF SwitchEnds, ledgerVars
<1>4. CASE Tick
  BY <1>4 DEF Tick, ledgerVars
<1>5. CASE SweepGate
  BY <1>5 DEF SweepGate, ledgerVars, NoClocks, KeptClocks, Sleeping
<1>6. CASE SweepList \/ SweepListFails
  <2>1. CASE SweepList
    <3>1. /\ sweep'.ids = {t \in pages : home[t] = sweep.entry}
          /\ sweep'.entry = sweep.entry /\ sweep.at # "sleeping"
      BY <2>1 DEF SweepList
    <3> QED
      BY <2>1, <3>1 DEF SweepList, ledgerVars
  <2>2. CASE SweepListFails
    BY <2>2 DEF SweepListFails, ledgerVars, Sleeping
  <2> QED
    BY <1>6, <2>1, <2>2
<1>7. CASE SweepDecide
  BY <1>7 DEF SweepDecide, Clocks, Considered, Sleeping
<1>8. ASSUME NEW t \in Targets, SweepCloses(t) \/ SweepCloseFails(t)
      PROVE  BrowsersOK'
  BY <1>8 DEF SweepCloses, SweepCloseFails, SweepAfter, ledgerVars, Sleeping
<1> QED
  BY <1>1, <1>2, <1>3, <1>4, <1>5, <1>6, <1>7, <1>8 DEF Next, SweepStep

-----------------------------------------------------------------------------
(***************************************************************************)
(* What a sweep has read covers what is in use all through it.             *)
(***************************************************************************)

\* A tab with a holder means a driver is counted, and is not an orphan.
LEMMA HeldMeansBusy ==
    ASSUME LedgerInv, NEW t \in Targets, target_holders[t] > 0
    PROVE  ClientGuards # {} /\ t \notin orphaned_targets
<1>1. HoldersOf(t) # {}
  BY FS_EmptySet DEF LedgerInv, HoldersCountLedgers
<1>2. PICK c \in Conns : t \in owned[c]
  BY <1>1 DEF HoldersOf
<1>3. phase[c] = "open"
  BY <1>2 DEF LedgerInv, HoldersAreOpen
<1> QED
  BY <1>1, <1>3 DEF ClientGuards, LedgerInv, OrphansHaveNoHolder

\* The count the host reads is positive when somebody is connected.
LEMMA BusyIsCounted ==
    ASSUME ClientGuards # {}
    PROVE  cdp_client_count > 0
<1>1. IsFiniteSet(ClientGuards)
  BY ConnsFinite, FS_Subset DEF ClientGuards
<1> QED
  BY <1>1, FS_EmptySet, FS_CardinalityType DEF cdp_client_count

\* A step that does not move the sweep.
LEMMA QuietKeepsWatch ==
    ASSUME WatchOK, Watch, UNCHANGED sweep
    PROVE  WatchOK'
BY DEF WatchOK, Watch

\* Every step keeps what was read true of what is used.
LEMMA NextKeepsWatch ==
    ASSUME ReaperInv, Next
    PROVE  WatchOK'
<1> USE DEF ReaperInv
<1>1. Watch
  BY DEF Next, Watches
<1>2. CASE TabStep
  BY <1>1, <1>2, TabStepFrame, QuietKeepsWatch DEF TabFrame, notTabs
<1>3. CASE Mint \/ Lapse \/ SwitchBegins \/ SwitchEnds \/ Tick
  BY <1>1, <1>3, QuietKeepsWatch DEF Mint, Lapse, SwitchBegins, SwitchEnds, Tick
<1>4. CASE SweepGate
  <2>1. CASE sweep'.at = "sleeping"
    BY <1>1, <1>4, <2>1 DEF SweepGate, Watch, WatchOK
  <2>2. CASE sweep'.at # "sleeping"
    <3>1. /\ ~credential /\ sweep.at = "sleeping"
          /\ sweep'.driver = (cdp_client_count > 0)
          /\ sweep'.orphans = orphaned_targets
          /\ sweep'.expired = {}
      BY <1>4, <2>2
         DEF SweepGate, Sleeping, has_live_takeover_credentials, TypeOK
    <3>2. /\ heldThrough' = {t \in Targets : target_holders[t] > 0}
          /\ busyThrough' = (ClientGuards # {})
          /\ credThrough' = FALSE
      BY <1>1, <2>2, <3>1 DEF Watch
    <3>3. busyThrough' => sweep'.driver
      BY <3>1, <3>2, BusyIsCounted
    <3>4. ASSUME NEW t \in heldThrough'
          PROVE  sweep'.driver /\ t \notin sweep'.orphans
      BY <3>1, <3>2, <3>4, HeldMeansBusy, BusyIsCounted
    <3> QED
      BY <3>1, <3>2, <3>3, <3>4 DEF WatchOK
  <2> QED
    BY <2>1, <2>2
<1>5. CASE SweepList \/ SweepListFails
  <2>1. CASE SweepList
    <3>1. /\ sweep'.at # "sleeping" /\ sweep.at # "sleeping"
          /\ sweep'.driver = sweep.driver /\ sweep'.orphans = sweep.orphans
          /\ sweep'.expired = sweep.expired
      BY <2>1 DEF SweepList, TypeOK
    <3> QED
      BY <1>1, <3>1 DEF Watch, WatchOK
  <2>2. CASE SweepListFails
    <3>1. sweep'.at = "sleeping" /\ sweep.at # "sleeping"
      BY <2>2 DEF SweepListFails, Sleeping
    <3> QED
      BY <1>1, <3>1 DEF Watch, WatchOK
  <2> QED
    BY <1>5, <2>1, <2>2
<1>6. CASE SweepDecide
  <2>1. CASE sweep'.at = "sleeping"
    BY <1>1, <1>6, <2>1 DEF SweepDecide, Watch, WatchOK
  <2>2. CASE sweep'.at # "sleeping"
    <3>1. /\ sweep.at # "sleeping"
          /\ sweep'.driver = sweep.driver /\ sweep'.orphans = sweep.orphans
          /\ sweep'.expired \subseteq Considered
      BY <1>6, <2>2 DEF SweepDecide, Sleeping, TypeOK
    <3>2. sweep.driver => sweep'.expired \subseteq sweep.orphans
      BY <3>1 DEF Considered
    <3> QED
      BY <1>1, <2>2, <3>1, <3>2 DEF Watch, WatchOK
  <2> QED
    BY <2>1, <2>2
<1>7. ASSUME NEW t \in Targets, SweepCloses(t) \/ SweepCloseFails(t)
      PROVE  WatchOK'
  BY <1>1, <1>7
     DEF SweepCloses, SweepCloseFails, SweepAfter, Watch, WatchOK, TypeOK,
         Sleeping
<1> QED
  BY <1>2, <1>3, <1>4, <1>5, <1>6, <1>7 DEF Next, SweepStep

-----------------------------------------------------------------------------
LEMMA ReaperInvariant == Spec => []ReaperInv
<1>1. Init => ReaperInv
  <2> SUFFICES ASSUME Init
               PROVE  ReaperInv
    OBVIOUS
  <2>1. LedgerTypeOK
    BY DEF Init, LedgerInit, LedgerTypeOK, Phases
  <2>2. \A t \in Targets : HoldersOf(t) = {}
    BY DEF Init, LedgerInit, HoldersOf
  <2>3. LedgerInv
    BY <2>1, <2>2, FS_EmptySet
       DEF Init, LedgerInit, LedgerInv, HoldersAreOpen, HoldersCountLedgers,
           OrphansHaveNoHolder
  <2>4. TypeOK
    <3>1. 0 \in Generations /\ 1 \in Generations
      BY ReaperBounds DEF Generations
    <3>2. Sleeping \in Sweeps
      BY SleepingIsASweep
    <3> QED
      BY <2>1, <3>1, <3>2 DEF Init, TypeOK, NoClocks, Sweeps
  <2>5. BrowsersOK /\ WatchOK
    BY DEF Init, LedgerInit, BrowsersOK, WatchOK, NoClocks, Sleeping
  <2> QED
    BY <2>3, <2>4, <2>5 DEF ReaperInv
<1>2. ReaperInv /\ [Next]_vars => ReaperInv'
  <2> SUFFICES ASSUME ReaperInv, [Next]_vars
               PROVE  ReaperInv'
    OBVIOUS
  <2>1. LedgerInv'
    BY NextKeepsLedger DEF ReaperInv
  <2>2. CASE Next
    BY <2>1, <2>2, NextKeepsTypes, NextKeepsBrowsers, NextKeepsWatch
       DEF ReaperInv, LedgerInv
  <2>3. CASE UNCHANGED vars
    BY <2>1, <2>3
       DEF vars, ledgerVars, reaperVars, ReaperInv, TypeOK, LedgerInv,
           BrowsersOK, WatchOK
  <2> QED
    BY <2>2, <2>3
<1> QED
  BY <1>1, <1>2, PTL DEF Spec

\* A clock only ever runs for a tab of the browser the tracker's clocks were
\* taken in, through any number of profile switches, whichever step of a sweep
\* they fall into (sweep, Tracker).
THEOREM ClocksAreOneBrowsers == Spec => []ClocksFollowTheBrowser
<1>1. ReaperInv => ClocksFollowTheBrowser
  BY DEF ReaperInv, BrowsersOK, ClocksFollowTheBrowser
<1> QED
  BY <1>1, ReaperInvariant, PTL

\* Only the closing of an expired target adds to what was reaped.
LEMMA ReapedWereExpired ==
    ASSUME Next
    PROVE  reaped' \ reaped \subseteq sweep.expired
<1>1. CASE TabStep
  BY <1>1 DEF TabStep, DriverConnects, DriverEnds, DriverCreates, HumanOpens,
     Navigates, OtherTabStep, BrowserDies, notTabs
<1>2. CASE Mint \/ Lapse \/ SwitchBegins \/ SwitchEnds \/ Tick
  BY <1>2 DEF Mint, Lapse, SwitchBegins, SwitchEnds, Tick
<1>3. CASE SweepStep
  BY <1>3 DEF SweepStep, SweepGate, SweepList, SweepListFails, SweepDecide,
     SweepCloses, SweepCloseFails
<1> QED
  BY <1>1, <1>2, <1>3 DEF Next

\* What is in use all through a sweep survives it, although the sweep acts on
\* what it read two awaits before: a tab held all along, on a host that was
\* busy all along anything that was no orphan, and under a credential that was
\* live all along everything (sweep, reaper.rs).
THEOREM SweepsSpareWhatIsUsed == Spec => SweepSparesWhatIsUsed
<1>1. ReaperInv /\ [Next]_vars => [(reaped' \ reaped) \cap heldThrough = {}]_vars
  BY ReapedWereExpired DEF ReaperInv, WatchOK
<1>2. ReaperInv /\ [Next]_vars
      => [busyThrough => reaped' \ reaped \subseteq sweep.orphans]_vars
  BY ReapedWereExpired DEF ReaperInv, WatchOK
<1>3. ReaperInv /\ [Next]_vars => [credThrough => reaped' = reaped]_vars
  BY DEF ReaperInv, WatchOK
<1> QED
  BY <1>1, <1>2, <1>3, ReaperInvariant, PTL
     DEF Spec, SweepSparesWhatIsUsed, HeldTabsSurviveTheSweep,
         BusyHostKeepsUnattributedTabs, LiveCredentialKeepsEveryTab

-----------------------------------------------------------------------------
(***************************************************************************)
(* Nothing abandoned is mislaid, but for what a listing could not name.    *)
(* Given exact counts, a page leaves the hands of its last holder only by  *)
(* being closed or by being recorded; and what a sweep forgets, being in   *)
(* the browser it asked, was opened after the answer.                      *)
(***************************************************************************)

\* Only targets the browser handed out are in anybody's hands or answers.
HandedOut ==
    /\ taken \subseteq used
    /\ \A c \in Conns : \A m \in replies[c] : m.made \subseteq used

\* What the listing does not name of the browser asked, is younger than it.
ListingIsWhole ==
    sweep.at = "deciding" =>
        {t \in pages : home[t] = sweep.entry} \subseteq sweep.ids \cup younger

\* No closed page comes back, and what was forgotten stays noted.
NoPageReturns == pages' \cap used \subseteq pages
MislaidStays ==
    \A t \in pages' : t \in mislaid /\ HoldersOf(t)' = {} => t \in mislaid'

\* A target that is as it was, is as known as it was.
LEMMA UntouchedStaysKnown ==
    ASSUME HandedOut, AbandonedAreOrphans, NoPageReturns, MislaidStays,
           NEW t \in (taken \ closeAsked) \cap pages',
           HoldersOf(t)' = {}, HoldersOf(t)' = HoldersOf(t),
           t \in orphaned_targets => t \in orphaned_targets'
    PROVE  t \in orphaned_targets' \cup mislaid'
BY DEF HandedOut, AbandonedAreOrphans, NoPageReturns, MislaidStays

LEMMA AbandonedStep ==
    ASSUME LedgerInv, HandedOut, AbandonedAreOrphans, NoPageReturns,
           MislaidStays,
           (\E c \in Conns : ConnStep(c)) \/ BrowserStep
    PROVE  AbandonedAreOrphans'
<1> SUFFICES ASSUME NEW t \in (taken' \ closeAsked') \cap pages',
                    HoldersOf(t)' = {}
             PROVE  t \in orphaned_targets' \cup mislaid'
  BY DEF AbandonedAreOrphans
<1> USE DEF LedgerInv, LedgerTypeOK
<1>1. ASSUME NEW c \in Conns, NEW u \in Targets, Took(c, u),
             UNCHANGED closeAsked
      PROVE  t \in orphaned_targets' \cup mislaid'
  <2>1. t # u
    BY <1>1 DEF Took, HoldersOf
  <2>2. HoldersOf(t)' = HoldersOf(t)
    BY <1>1, <2>1 DEF Took, HoldersOf
  <2>3. t \in taken \ closeAsked
    BY <1>1, <2>1 DEF Took
  <2>4. t \in orphaned_targets => t \in orphaned_targets'
    BY <1>1, <2>1 DEF Took
  <2> QED
    BY <2>2, <2>3, <2>4, UntouchedStaysKnown
<1>2. ASSUME UNCHANGED <<owned, orphaned_targets, taken, closeAsked>>
      PROVE  t \in orphaned_targets' \cup mislaid'
  BY <1>2, UntouchedStaysKnown DEF HoldersOf
<1>3. ASSUME NEW c \in Conns, NEW u \in Targets, RequestClose(c, u)
      PROVE  t \in orphaned_targets' \cup mislaid'
  <2>1. CASE u \in owned[c]
    <3>1. t # u /\ t \in taken \ closeAsked
      BY <1>3, <2>1 DEF RequestClose, Closed
    <3>2. HoldersOf(t)' = HoldersOf(t)
      BY <1>3, <2>1, <3>1 DEF RequestClose, Closed, HoldersOf
    <3> QED
      BY <1>3, <3>1, <3>2, UntouchedStaysKnown DEF RequestClose
  <2>2. CASE u \notin owned[c]
    BY <1>2, <1>3, <2>2 DEF RequestClose, Closed
  <2> QED
    BY <2>1, <2>2
<1>4. ASSUME NEW c \in Conns, EndConnection(c)
      PROVE  t \in orphaned_targets' \cup mislaid'
  <2>1. t \in Targets /\ t \in taken \ closeAsked
    BY <1>4 DEF EndConnection
  <2>2. CASE t \in owned[c]
    <3>1. HoldersOf(t) = {c}
      BY <1>4, <2>1, <2>2 DEF EndConnection, HoldersOf
    <3>2. target_holders[t] = 1
      BY <2>1, <3>1, FS_Singleton DEF HoldersCountLedgers
    <3> QED
      BY <1>4, <2>2, <3>2 DEF EndConnection, LastHolds
  <2>3. CASE t \notin owned[c]
    <3>1. HoldersOf(t)' = HoldersOf(t)
      BY <1>4, <2>1, <2>3 DEF EndConnection, HoldersOf
    <3>2. t \in orphaned_targets => t \in orphaned_targets'
      BY <1>4 DEF EndConnection
    <3> QED
      BY <2>1, <3>1, <3>2, UntouchedStaysKnown
  <2> QED
    BY <2>2, <2>3
<1>5. ASSUME NEW c \in Conns, ConnStep(c)
      PROVE  t \in orphaned_targets' \cup mislaid'
  <2>1. ASSUME NEW m \in replies[c], ResponseCreate(c, m)
        PROVE  t \in orphaned_targets' \cup mislaid'
    <3>1. m.made \in SUBSET Targets
      BY <2>1 DEF Reply
    <3> QED
      BY <1>1, <1>2, <2>1, <3>1 DEF ResponseCreate
  <2>2. ASSUME NEW u \in Targets, RequestAttach(c, u)
        PROVE  t \in orphaned_targets' \cup mislaid'
    BY <1>1, <2>2 DEF RequestAttach
  <2>3. ASSUME Connect(c) \/ UpstreamOpens(c) \/ DropGuard(c)
                \/ \E r \in ReqIds : RequestCreate(c, r)
        PROVE  t \in orphaned_targets' \cup mislaid'
    BY <1>2, <2>3 DEF Connect, UpstreamOpens, DropGuard, RequestCreate
  <2> QED
    BY <1>3, <1>4, <1>5, <2>1, <2>2, <2>3 DEF ConnStep
<1>6. CASE BrowserStep
  BY <1>2, <1>6 DEF BrowserStep, BrowserCreates, BrowserRefusesCreate,
         BrowserCloses, FramesLost, TabOpensByItself, TabClosesByItself
<1> QED
  BY <1>5, <1>6

\* What a connection or the browser does keeps hands and answers to targets
\* that were handed out, and brings no closed page back.
LEMMA HandedOutStep ==
    ASSUME LedgerTypeOK, HandedOut,
           (\E c \in Conns : ConnStep(c)) \/ BrowserStep
    PROVE  HandedOut' /\ NoPageReturns
<1> USE DEF LedgerTypeOK, HandedOut, NoPageReturns
<1>1. ASSUME NEW c \in Conns, NEW u \in used, Took(c, u)
      PROVE  taken' \subseteq used
  BY <1>1 DEF Took
<1>2. ASSUME NEW c \in Conns, NEW r \in ReqIds, NEW made \in SUBSET Targets,
             made \subseteq used', used \subseteq used', Answer(c, r, made)
      PROVE  \A d \in Conns : \A m \in replies'[d] : m.made \subseteq used'
  BY <1>2 DEF Answer
<1>3. ASSUME NEW c \in Conns, ConnStep(c)
      PROVE  HandedOut' /\ NoPageReturns
  <2>1. UNCHANGED <<pages, used>>
    BY <1>3 DEF ConnStep, Connect, UpstreamOpens, RequestCreate,
       RequestAttach, RequestClose, ResponseCreate, EndConnection, DropGuard
  <2>2. \A d \in Conns : replies'[d] \subseteq replies[d]
    <3>1. ASSUME NEW m \in replies[c], ResponseCreate(c, m)
          PROVE  \A d \in Conns : replies'[d] \subseteq replies[d]
      BY <3>1 DEF ResponseCreate
    <3>2. ASSUME EndConnection(c)
          PROVE  \A d \in Conns : replies'[d] \subseteq replies[d]
      BY <3>2 DEF EndConnection
    <3> QED
      BY <1>3, <3>1, <3>2 DEF ConnStep, Connect, UpstreamOpens,
         RequestCreate, RequestAttach, RequestClose, DropGuard
  <2>3. taken' \subseteq used
    <3>1. ASSUME NEW m \in replies[c], ResponseCreate(c, m)
          PROVE  taken' \subseteq used
      BY <1>1, <3>1 DEF ResponseCreate
    <3>2. ASSUME NEW u \in Targets, RequestAttach(c, u)
          PROVE  taken' \subseteq used
      BY <1>1, <3>2 DEF RequestAttach
    <3> QED
      BY <1>3, <3>1, <3>2 DEF ConnStep, Connect, UpstreamOpens,
         RequestCreate, RequestClose, EndConnection, DropGuard
  <2> QED
    BY <2>1, <2>2, <2>3
<1>4. CASE BrowserStep
  <2>1. ASSUME NEW c \in Conns, NEW r \in ReqIds, NEW u \in Targets,
               BrowserCreates(c, r, u)
        PROVE  HandedOut' /\ NoPageReturns
    <3>1. /\ {u} \in SUBSET Targets /\ {u} \subseteq used'
          /\ used \subseteq used'
      BY <2>1 DEF BrowserCreates
    <3>2. \A d \in Conns : \A m \in replies'[d] : m.made \subseteq used'
      BY <1>2, <2>1, <3>1 DEF BrowserCreates
    <3> QED
      BY <2>1, <3>2 DEF BrowserCreates
  <2>2. ASSUME NEW c \in Conns, NEW r \in ReqIds, BrowserRefusesCreate(c, r)
        PROVE  HandedOut' /\ NoPageReturns
    <3>1. \A d \in Conns : \A m \in replies'[d] : m.made \subseteq used'
      BY <1>2, <2>2 DEF BrowserRefusesCreate
    <3> QED
      BY <2>2, <3>1 DEF BrowserRefusesCreate
  <2>3. ASSUME NEW c \in Conns, NEW u \in Targets, BrowserCloses(c, u)
        PROVE  HandedOut' /\ NoPageReturns
    BY <2>3 DEF BrowserCloses
  <2>4. ASSUME NEW c \in Conns, FramesLost(c)
        PROVE  HandedOut' /\ NoPageReturns
    BY <2>4 DEF FramesLost
  <2>5. ASSUME NEW u \in Targets, TabOpensByItself(u) \/ TabClosesByItself(u)
        PROVE  HandedOut' /\ NoPageReturns
    BY <2>5 DEF TabOpensByItself, TabClosesByItself
  <2> QED
    BY <1>4, <2>1, <2>2, <2>3, <2>4, <2>5 DEF BrowserStep
<1> QED
  BY <1>3, <1>4

\* What every step keeps of the orphans.
OrphanInv ==
    /\ HandedOut
    /\ ListingIsWhole
    /\ AbandonedAreOrphans

\* A step that leaves hands and orphans alone and opens no page.
LEMMA QuietKeepsOrphans ==
    ASSUME HandedOut, AbandonedAreOrphans, MislaidStays,
           UNCHANGED <<owned, orphaned_targets, taken, closeAsked, used,
                       replies>>,
           pages' \subseteq pages
    PROVE  HandedOut' /\ AbandonedAreOrphans'
<1>1. HandedOut' /\ NoPageReturns
  BY DEF HandedOut, NoPageReturns
<1>2. \A t \in Targets : HoldersOf(t)' = HoldersOf(t)
  BY DEF HoldersOf
<1> QED
  BY <1>1 DEF AbandonedAreOrphans, MislaidStays, HoldersOf

LEMMA NextKeepsOrphans ==
    ASSUME ReaperInv, OrphanInv, Next
    PROVE  OrphanInv'
<1> USE DEF ReaperInv, OrphanInv
<1>1. WatchOrphans
  BY DEF Next, Watches
<1>2. MislaidStays
  BY <1>1 DEF WatchOrphans, MislaidStays
<1>3. ListingIsWhole'
  <2> SUFFICES ASSUME sweep'.at = "deciding",
                      NEW t \in pages', home'[t] = sweep'.entry
               PROVE  t \in sweep'.ids \cup younger'
    BY DEF ListingIsWhole
  <2>1. CASE TabStep
    <3>1. TabFrame
      BY <2>1, TabStepFrame
    <3>2. CASE t \in used
      <4>1. t \in pages /\ home[t] = sweep.entry
        <5>1. ASSUME (\E c \in Conns : ConnStep(c)) \/ BrowserStep
              PROVE  t \in pages
          <6>1. NoPageReturns
            BY <5>1, HandedOutStep DEF LedgerInv
          <6> QED
            BY <3>2, <6>1 DEF NoPageReturns
        <5>2. ASSUME UNCHANGED ledgerVars
              PROVE  t \in pages
          BY <5>2 DEF ledgerVars
        <5>3. ASSUME NEW g \in Generations, BrowserDies(g)
              PROVE  t \in pages
          BY <5>3 DEF BrowserDies
        <5>4. t \in pages
          BY <2>1, <5>1, <5>2, <5>3, TabStepIsLedgerStep
        <5> QED
          BY <3>1, <3>2, <5>4 DEF TabFrame, notTabs
      <4> QED
        BY <1>1, <3>1, <4>1 DEF ListingIsWhole, WatchOrphans, TabFrame, notTabs
    <3>3. CASE t \notin used
      BY <1>1, <3>1, <3>3 DEF WatchOrphans, TabFrame, notTabs, BrowsersOK
    <3> QED
      BY <3>2, <3>3
  <2>2. CASE Mint \/ Lapse \/ SwitchBegins \/ SwitchEnds \/ Tick
    BY <1>1, <2>2 DEF Mint, Lapse, SwitchBegins, SwitchEnds, Tick,
       ledgerVars, ListingIsWhole, WatchOrphans
  <2>3. CASE SweepList
    <3>1. /\ sweep'.ids = {u \in pages : home[u] = sweep.entry}
          /\ sweep'.entry = sweep.entry
      BY <2>3 DEF SweepList, TypeOK
    <3> QED
      BY <2>3, <3>1 DEF SweepList, ledgerVars
  <2>5. CASE SweepGate
    <3>1. sweep'.at # "deciding"
      BY <2>5 DEF SweepGate, Sleeping
    <3> QED
      BY <3>1
  <2>6. CASE SweepListFails \/ SweepDecide
    <3>1. CASE sweep' = Sleeping
      BY <3>1 DEF Sleeping
    <3>2. ASSUME NEW ts, sweep' = [sweep EXCEPT !.at = "closing",
                                                !.expired = ts]
          PROVE  FALSE
      BY <3>2 DEF TypeOK
    <3> QED
      BY <2>6, <3>1, <3>2 DEF SweepListFails, SweepDecide
  <2>7. ASSUME NEW u \in Targets, SweepCloses(u) \/ SweepCloseFails(u)
        PROVE  FALSE
    <3>1. sweep'.at # "deciding"
      BY <2>7 DEF SweepCloses, SweepCloseFails, SweepAfter, Sleeping, TypeOK
    <3> QED
      BY <3>1
  <2> QED
    BY <2>1, <2>2, <2>3, <2>5, <2>6, <2>7 DEF Next, SweepStep
<1>4. CASE \/ \E c \in Conns : ConnStep(c)
           \/ BrowserStep
  BY <1>2, <1>3, <1>4, AbandonedStep, HandedOutStep DEF LedgerInv
<1>5. CASE UNCHANGED ledgerVars
  BY <1>2, <1>3, <1>5, QuietKeepsOrphans DEF ledgerVars
<1>6. ASSUME NEW g \in Generations, BrowserDies(g)
      PROVE  OrphanInv'
  BY <1>2, <1>3, <1>6, QuietKeepsOrphans DEF BrowserDies
<1>7. ASSUME NEW u \in Targets, SweepCloses(u)
      PROVE  OrphanInv'
  BY <1>2, <1>3, <1>7, QuietKeepsOrphans DEF SweepCloses
<1>8. CASE SweepDecide
  <2>1. UNCHANGED <<owned, taken, closeAsked, used, replies, pages>>
    BY <1>8 DEF SweepDecide
  <2>2. HandedOut'
    BY <2>1 DEF HandedOut
  <2> SUFFICES ASSUME NEW t \in (taken' \ closeAsked') \cap pages',
                      HoldersOf(t)' = {}
               PROVE  t \in orphaned_targets' \cup mislaid'
    BY <1>3, <2>2 DEF AbandonedAreOrphans
  <2>3. HoldersOf(t) = {} /\ t \in Targets /\ t \in pages
    BY <2>1 DEF HoldersOf, TypeOK, LedgerTypeOK
  <2>4. t \in orphaned_targets \cup mislaid
    BY <2>1, <2>3 DEF AbandonedAreOrphans
  <2>5. CASE t \in mislaid
    BY <1>2, <2>5 DEF MislaidStays
  <2>6. CASE t \in orphaned_targets /\ t \notin sweep.ids
    <3>1. t \in Unlisted
      BY <1>8, <2>3, <2>6 DEF SweepDecide, ListingIsWhole, Unlisted
    <3>2. t \in orphaned_targets \ orphaned_targets'
      BY <1>8, <2>6 DEF SweepDecide
    <3> QED
      BY <1>1, <3>1, <3>2 DEF WatchOrphans
  <2>7. CASE t \in orphaned_targets /\ t \in sweep.ids
    BY <1>8, <2>7 DEF SweepDecide
  <2> QED
    BY <2>4, <2>5, <2>6, <2>7
<1>9. CASE OtherSteps
  BY <1>9, <1>5 DEF OtherSteps, Mint, Lapse, SwitchBegins, SwitchEnds, Tick,
     SweepGate, SweepList, SweepListFails, SweepCloseFails, Navigates
<1> QED
  BY <1>4, <1>5, <1>6, <1>7, <1>8, <1>9, TabStepIsLedgerStep
     DEF Next, SweepStep, OtherSteps

\* A page some driver held, that nobody holds any more without a holder having
\* asked to close it, is in the orphan set, whatever sweeps and switches go on
\* meanwhile; the one exception is a page the last listing could not name,
\* which retain_orphaned_targets forgets (release_targets, sweep).
THEOREM AbandonedTabsAreKnown == Spec => []AbandonedAreOrphans
<1>1. Init => OrphanInv
  BY DEF Init, LedgerInit, OrphanInv, HandedOut, ListingIsWhole, Sleeping,
         AbandonedAreOrphans
<1>2. ReaperInv /\ OrphanInv /\ [Next]_vars => OrphanInv'
  <2>1. ASSUME OrphanInv, UNCHANGED vars
        PROVE  OrphanInv'
    BY <2>1 DEF vars, ledgerVars, reaperVars, OrphanInv, HandedOut,
       ListingIsWhole, AbandonedAreOrphans, HoldersOf
  <2> QED
    BY <2>1, NextKeepsOrphans
<1>3. OrphanInv => AbandonedAreOrphans
  BY DEF OrphanInv
<1> QED
  BY <1>1, <1>2, <1>3, ReaperInvariant, PTL DEF Spec
=============================================================================
