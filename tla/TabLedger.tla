------------------------------ MODULE TabLedger ------------------------------
(***************************************************************************)
(* Who holds which browser tab.                                            *)
(*                                                                         *)
(* The host's /cdp proxy forwards every frame of every driver untouched    *)
(* and reads three kinds of them on the way: Target.createTarget and its   *)
(* reply, Target.attachToTarget, Target.closeTarget.  Each connection has  *)
(* a private ledger (pending_creates, owned); the host shares one map of   *)
(* holder counts and one set of orphaned targets between all connections   *)
(* (src/host/listener/{cdp_proxy,target_ledger,mod}.rs).                   *)
(*                                                                         *)
(* A connection's two forwarding loops are polled by one task, so reading  *)
(* a frame into the ledger and noting the hold it reports is one step of   *)
(* that connection; between connections everything interleaves.  The       *)
(* browser is external: it creates, refuses and closes targets when the    *)
(* forwarded frames reach it, and pages and humans open and close tabs     *)
(* without any frame at all.                                               *)
(***************************************************************************)
EXTENDS Naturals, FiniteSets

CONSTANTS
    Conns,      \* slots for /cdp connections; a slot serves one at a time
    Targets,    \* target ids; a browser never reuses one
    ReqIds      \* CDP request ids a client uses for Target.createTarget

ASSUME ConnsFinite == IsFiniteSet(Conns)

VARIABLES
    phase,              \* [Conns -> Phases], where the connection's task is
    pending_creates,    \* [Conns -> SUBSET ReqIds], ledger: unanswered creates
    owned,              \* [Conns -> SUBSET Targets], ledger: held targets
    target_holders,     \* [Targets -> Nat], live connections holding each
    orphaned_targets,   \* SUBSET Targets, left behind by ended connections
    createWire,         \* createTarget frames on their way to the browser
    closeWire,          \* closeTarget frames on their way to the browser
    replies,            \* [Conns -> SUBSET Reply], on their way back
    pages,              \* the page targets the browser has
    used,               \* every target id the browser ever handed out
    taken,              \* history: targets some connection ever held
    closeAsked          \* history: targets some holder asked to close

ledgerVars == <<phase, pending_creates, owned, target_holders,
                orphaned_targets, createWire, closeWire, replies, pages,
                used, taken, closeAsked>>

\* idle: no connection.  connecting: counted, dialling the browser.  open:
\* forwarding.  released: its targets are given up, the client guard is not
\* dropped yet.
Phases == {"idle", "connecting", "open", "released"}

\* A createTarget reply names the target it made, or no target (an error).
Reply == [id : ReqIds, made : SUBSET Targets]

\* The connections that hold t, and how many clients the host counts.
HoldersOf(t) == {c \in Conns : t \in owned[c]}
ClientGuards == {c \in Conns : phase[c] # "idle"}

cdp_client_count == Cardinality(ClientGuards)

\* Frames the slot's last connection forwarded are still on the wire: a new
\* connection is a new websocket, so the slot waits until they are settled.
InFlight(c) ==
    \/ \E r \in ReqIds : <<c, r>> \in createWire
    \/ \E t \in Targets : <<c, t>> \in closeWire

LedgerInit ==
    /\ phase = [c \in Conns |-> "idle"]
    /\ pending_creates = [c \in Conns |-> {}]
    /\ owned = [c \in Conns |-> {}]
    /\ target_holders = [t \in Targets |-> 0]
    /\ orphaned_targets = {}
    /\ createWire = {}
    /\ closeWire = {}
    /\ replies = [c \in Conns |-> {}]
    /\ pages = {}
    /\ used = {}
    /\ taken = {}
    /\ closeAsked = {}

(***************************************************************************)
(* The shared bookkeeping.  An absent map entry is a count of zero.        *)
(***************************************************************************)

\* Faulty variant: one leaving holder forgets every other holder.
releaseForgetsOthers(ts) ==
    [t \in Targets |-> IF t \in ts THEN 0 ELSE target_holders[t]]

\* Drop one hold on each target of ts; a count that would reach zero is
\* removed from the map.
release(ts) ==
    [t \in Targets |->
        IF t \in ts
        THEN IF target_holders[t] > 1 THEN target_holders[t] - 1 ELSE 0
        ELSE target_holders[t]]

\* Faulty variants: every target given up is an orphan, whoever else has it;
\* or a target still counted once is not the last hold.
LastHoldsAll(ts) == ts
LastHoldsOffByOne(ts) == {t \in ts : target_holders[t] < 1}

\* The targets of ts that releasing leaves without a holder.
LastHolds(ts) == {t \in ts : target_holders[t] <= 1}

\* Holding::Took: one more holder, and no longer an orphan.  Taking a target
\* the ledger already has reports nothing.
Took(c, t) ==
    IF t \in owned[c]
    THEN UNCHANGED <<owned, target_holders, orphaned_targets, taken>>
    ELSE /\ owned' = [owned EXCEPT ![c] = @ \cup {t}]
         /\ target_holders' = [target_holders EXCEPT ![t] = @ + 1]
         /\ orphaned_targets' = orphaned_targets \ {t}
         /\ taken' = taken \cup {t}

\* Holding::Closed: one holder less.  Closing a target the ledger does not
\* have reports nothing, and closing never makes an orphan.
Closed(c, t) ==
    IF t \in owned[c]
    THEN /\ owned' = [owned EXCEPT ![c] = @ \ {t}]
         /\ target_holders' = release({t})
         /\ closeAsked' = closeAsked \cup {t}
    ELSE UNCHANGED <<owned, target_holders, closeAsked>>

(***************************************************************************)
(* One /cdp connection.                                                    *)
(***************************************************************************)

\* The handler takes the client guard and picks the browser, then upgrades.
Connect(c) ==
    /\ phase[c] = "idle"
    /\ ~InFlight(c)
    /\ phase' = [phase EXCEPT ![c] = "connecting"]
    /\ UNCHANGED <<pending_creates, owned, target_holders, orphaned_targets,
                   createWire, closeWire, replies, pages, used, taken,
                   closeAsked>>

\* The upstream websocket opens within UPSTREAM_CONNECT_TIMEOUT.
UpstreamOpens(c) ==
    /\ phase[c] = "connecting"
    /\ phase' = [phase EXCEPT ![c] = "open"]
    /\ UNCHANGED <<pending_creates, owned, target_holders, orphaned_targets,
                   createWire, closeWire, replies, pages, used, taken,
                   closeAsked>>

\* A Target.createTarget frame: awaited, not held, until its reply.
RequestCreate(c, r) ==
    /\ phase[c] = "open"
    /\ r \notin pending_creates[c]
    /\ <<c, r>> \notin createWire
    /\ pending_creates' = [pending_creates EXCEPT ![c] = @ \cup {r}]
    /\ createWire' = createWire \cup {<<c, r>>}
    /\ UNCHANGED <<phase, owned, target_holders, orphaned_targets, closeWire,
                   replies, pages, used, taken, closeAsked>>

\* A Target.attachToTarget frame adopts the target as it is forwarded,
\* whatever the browser will answer.
RequestAttach(c, t) ==
    /\ phase[c] = "open"
    /\ t \in used
    /\ Took(c, t)
    /\ UNCHANGED <<phase, pending_creates, createWire, closeWire, replies,
                   pages, used, closeAsked>>

\* A Target.closeTarget frame gives up the hold as it is forwarded.
RequestClose(c, t) ==
    /\ phase[c] = "open"
    /\ t \in used
    /\ Closed(c, t)
    /\ closeWire' = closeWire \cup {<<c, t>>}
    /\ UNCHANGED <<phase, pending_creates, orphaned_targets, createWire,
                   replies, pages, used, taken>>

\* A reply to a pending create: settled either way, held if it names a target.
ResponseCreate(c, m) ==
    /\ phase[c] = "open"
    /\ m \in replies[c]
    /\ replies' = [replies EXCEPT ![c] = @ \ {m}]
    /\ pending_creates' = [pending_creates EXCEPT ![c] = @ \ {m.id}]
    /\ \/ /\ m.made = {}
          /\ UNCHANGED <<owned, target_holders, orphaned_targets, taken>>
       \/ \E t \in m.made : Took(c, t)
    /\ UNCHANGED <<phase, createWire, closeWire, pages, used, closeAsked>>

\* Forwarding ends, on either side's initiative, by a send that times out or
\* because the browser never accepted; the targets still held are released,
\* and those nobody else holds are orphans.
EndConnection(c) ==
    /\ phase[c] \in {"connecting", "open"}
    /\ phase' = [phase EXCEPT ![c] = "released"]
    /\ target_holders' = release(owned[c])
    /\ orphaned_targets' = orphaned_targets \cup LastHolds(owned[c])
    /\ owned' = [owned EXCEPT ![c] = {}]
    /\ pending_creates' = [pending_creates EXCEPT ![c] = {}]
    /\ replies' = [replies EXCEPT ![c] = {}]
    /\ UNCHANGED <<createWire, closeWire, pages, used, taken, closeAsked>>

\* The client guard is the last local of the task to drop.
DropGuard(c) ==
    /\ phase[c] = "released"
    /\ phase' = [phase EXCEPT ![c] = "idle"]
    /\ UNCHANGED <<pending_creates, owned, target_holders, orphaned_targets,
                   createWire, closeWire, replies, pages, used, taken,
                   closeAsked>>

(***************************************************************************)
(* The browser, the wire and the person at the display (external).         *)
(***************************************************************************)

\* The reply to r, if its connection is still there to read it.
Answer(c, r, made) ==
    replies' = IF phase[c] = "open"
               THEN [replies EXCEPT ![c] = @ \cup {[id |-> r, made |-> made]}]
               ELSE replies

BrowserCreates(c, r, t) ==
    /\ <<c, r>> \in createWire
    /\ t \in Targets \ used
    /\ createWire' = createWire \ {<<c, r>>}
    /\ pages' = pages \cup {t}
    /\ used' = used \cup {t}
    /\ Answer(c, r, {t})
    /\ UNCHANGED <<phase, pending_creates, owned, target_holders,
                   orphaned_targets, closeWire, taken, closeAsked>>

BrowserRefusesCreate(c, r) ==
    /\ <<c, r>> \in createWire
    /\ createWire' = createWire \ {<<c, r>>}
    /\ Answer(c, r, {})
    /\ UNCHANGED <<phase, pending_creates, owned, target_holders,
                   orphaned_targets, closeWire, pages, used, taken,
                   closeAsked>>

\* A close request reaches the browser, which honours it or does not.
BrowserCloses(c, t) ==
    /\ <<c, t>> \in closeWire
    /\ closeWire' = closeWire \ {<<c, t>>}
    /\ pages' \in {pages, pages \ {t}}
    /\ UNCHANGED <<phase, pending_creates, owned, target_holders,
                   orphaned_targets, createWire, replies, used, taken,
                   closeAsked>>

\* Frames of a connection that has ended may never reach the browser.
FramesLost(c) ==
    /\ phase[c] \in {"released", "idle"}
    /\ InFlight(c)
    /\ createWire' = {w \in createWire : w[1] # c}
    /\ closeWire' = {w \in closeWire : w[1] # c}
    /\ UNCHANGED <<phase, pending_creates, owned, target_holders,
                   orphaned_targets, replies, pages, used, taken, closeAsked>>

\* A popup, or a tab the human opens on the display.
TabOpensByItself(t) ==
    /\ t \in Targets \ used
    /\ pages' = pages \cup {t}
    /\ used' = used \cup {t}
    /\ UNCHANGED <<phase, pending_creates, owned, target_holders,
                   orphaned_targets, createWire, closeWire, replies, taken,
                   closeAsked>>

\* window.close(), a crash of the tab, or the human closing it.
TabClosesByItself(t) ==
    /\ t \in pages
    /\ pages' = pages \ {t}
    /\ UNCHANGED <<phase, pending_creates, owned, target_holders,
                   orphaned_targets, createWire, closeWire, replies, used,
                   taken, closeAsked>>

ConnStep(c) ==
    \/ Connect(c)
    \/ UpstreamOpens(c)
    \/ \E r \in ReqIds : RequestCreate(c, r)
    \/ \E t \in Targets : RequestAttach(c, t) \/ RequestClose(c, t)
    \/ \E m \in replies[c] : ResponseCreate(c, m)
    \/ EndConnection(c)
    \/ DropGuard(c)

BrowserStep ==
    \/ \E c \in Conns, r \in ReqIds :
          \/ \E t \in Targets : BrowserCreates(c, r, t)
          \/ BrowserRefusesCreate(c, r)
    \/ \E c \in Conns, t \in Targets : BrowserCloses(c, t)
    \/ \E c \in Conns : FramesLost(c)
    \/ \E t \in Targets : TabOpensByItself(t) \/ TabClosesByItself(t)

LedgerNext == (\E c \in Conns : ConnStep(c)) \/ BrowserStep

LedgerSpec == LedgerInit /\ [][LedgerNext]_ledgerVars

-----------------------------------------------------------------------------
(***************************************************************************)
(* Properties.                                                             *)
(***************************************************************************)

\* Every variable has the shape its Rust type gives it.
LedgerTypeOK ==
    /\ phase \in [Conns -> Phases]
    /\ pending_creates \in [Conns -> SUBSET ReqIds]
    /\ owned \in [Conns -> SUBSET Targets]
    /\ target_holders \in [Targets -> Nat]
    /\ orphaned_targets \in SUBSET Targets
    /\ createWire \in SUBSET (Conns \X ReqIds)
    /\ closeWire \in SUBSET (Conns \X Targets)
    /\ replies \in [Conns -> SUBSET Reply]
    /\ pages \in SUBSET Targets
    /\ used \in SUBSET Targets
    /\ taken \in SUBSET Targets
    /\ closeAsked \in SUBSET Targets

\* The shared count of a target is exactly the number of live connections
\* whose private ledger has it: no hold is counted twice (a reply for a
\* target the client attached to first), lost, or left behind by a connection
\* that ended (note_holding, release_targets, release).
HoldersCountLedgers ==
    \A t \in Targets : target_holders[t] = Cardinality(HoldersOf(t))

\* Only a connection that is forwarding holds anything.
HoldersAreOpen == \A c \in Conns : owned[c] # {} => phase[c] = "open"

\* No target a live connection holds is ever among the orphans: a short
\* `afhttp cdp --tab` must not, on its way out, leave a tab another driver is
\* still on looking abandoned, and an attach adopts an orphan.
OrphansHaveNoHolder ==
    \A t \in orphaned_targets : HoldersOf(t) = {}
=============================================================================
