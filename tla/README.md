# afhttp in TLA+

A verification development of agent-first-http (afhttp): a browser host that lets
many drivers share one browser, and the client library whose fetches drive it. The
modules here are kept beside the Rust code (`src/`), are model-checked by TLC on
small instances and, for the host's and the fetch's core, proved by TLAPS for every
value of their constants. `PROJECT.json` maps every definition to the lines it models.

## 1. The system

`afhttp host` launches one browser under one profile and serves `/cdp`, `/health`,
`/profile`, `/recent-requests` and `/takeover/*`. Drivers (fetches, `afhttp cdp`, raw
CDP clients) reach the browser only through `/cdp`, a transparent proxy. A fetch tries
plain HTTP, escalates to the browser, opens a tab through its own CDP connection and
lets go of it again. People work on the same browser through a display panel whose
links carry credentials. `afhttp container` keeps a host in a container.

| component | state it keeps | operations | correct when | in |
|---|---|---|---|---|
| CDP proxy, target ledger (`host/listener/cdp_proxy.rs`, `target_ledger.rs`, `mod.rs`) | per connection: pending creates, owned targets; host-wide: client count, holder counts, orphans | connect, forward, note create / attach / close, release, drop the guard | counts equal the ledgers, a held tab is no orphan, an abandoned one is | `TabLedger` |
| idle-tab reaper (`host/reaper.rs`) | idle clocks, the browser they belong to | gate, connect and list, decide, close one by one | nothing in use is closed, every orphan eventually is | `TabReaper` |
| window anchor (`sdk/cdp/session.rs`) | none: the browser's own page list | list, create an anchor, close | afhttp never closes a browser's last page | `WindowAnchor` |
| driver's CDP connection (`sdk/cdp/ws_client.rs`) | reply slots, closed flag, queue, two tasks, next id | send, send with timeout, close, read, write | a caller gets its own answer, or an error, and nobody waits in vain | `CdpConnection`, `RpcChannel` |
| profile switch, browser ownership (`host/listener/mod.rs`, `host/browser.rs`) | active profile, switch lock, handles, credentials, subscriber, ring | ensure_profile, pick, follow, revoke, drop | no client loses its browser, no credential outlives its own | `ProfileSwitch` |
| host start and browser launch (`host/bootstrap.rs`, `host/browser/*`, `host/takeover`) | processes, picked ports, display, temporary directory, lock | provide a display, lock, spawn, probe, retry, serve, end, crash | nothing spawned is left untold to die, nobody else's program is taken for its own where a launch can tell | `HostLaunch` |
| client cache, inline host (`sdk/client.rs`, `inline.rs`) | cached connection, cached profile answer, launched host | connect lazily, replace, close, drop, launch once | one live connection, one host | `ClientHost` |
| container command (`cli/cmd/container.rs`) | the runtime's container, image, volume | install, uninstall, status, discover, read the token | another's container is spared, the token goes where the host listens, an install has what it was asked for | `Container` |
| fetch pipeline (`sdk/fetch/**`) | attempt, deadline, tab, session, trace | resolve, HTTP, escalate, open, attach, navigate, capture, close or detach, retry | nothing is sent twice that must not be, every tab is closed or named, it ends | `Fetch` |
| HTTP path, cookie jar (`http_only.rs`, `request_opts.rs`, `cookie_jar*.rs`) | request, hop, jar file, sibling lock, snapshot | prepare, send, follow, store, cap, sync back | secrets stay at their origin, the jar's rules hold for the jar as loaded, results say what was cut | `HttpPath`, `ProfileStore` |
| profile lock, delete, prune (`sdk/profile/*`) | lock file, pid file, directory | acquire, probe, release, remove | one owner; nothing is removed under it | `ProfileStore` |
| request interception (`navigate.rs`) | paused requests, override | enable, continue, re-issue, disable | the first document gets the override, credentials stay at their origin | `Intercept` |
| events, readiness, waits (`collectors.rs`, `wait.rs`, `readiness.rs`) | bounded channel, in-flight requests, stability windows | observe, sample, wait | quiet only on complete evidence; what was there to see was seen | `Readiness`, `Waits` |
| downloads (`download.rs`) | the shared directory, its listing | configure, list, wait, report | a whole, new file of its own tab | `Downloads` |
| capture (`browser/mod.rs`, `capture.rs`, `network_bodies.rs`, `deadline.rs`, `collectors.rs`) | stages, warnings, artifacts, streams | snapshot, capture one by one, judge, close | the trace agrees with the result, losses are told, a reclaimed tab was seen | `PageCapture`, `Streams` |
| takeover credentials and panel (`host/listener/mod.rs`, `sdk/takeover.rs`, `cli/cmd/ui.rs`) | credentials with fixed or idle lifetimes | mint, exchange, renew, revoke | a held lease is live, a spent one dead, nothing lingers | `Takeover` |
| fetch command (`cli/cmd/fetch.rs`, `cli/connect.rs`) | the command line it recommends | resolve host and profile, mint, recommend | the person gets to the host, the agent back to the tab | `FetchCommand` |
| display relay (`host/takeover/mod.rs`) | two sockets | landing page, dial, relay | the panel finds its socket, the relay ends with either end | `DisplayRelay` |
| read-only routes, argument parsing, printing | none | | | |

How they interact. A fetch holds a `Connection`; its frames pass the proxy, which reads
three kinds of them into a ledger; the ledgers feed the orphan set that the reaper reads;
fetch and reaper both close tabs through the window anchor's routine, on connections of
their own; `/cdp` requests may switch the profile first, which replaces the browser,
revokes the credentials the reaper looks at and moves the subscriber. A browser holds its
profile's lock; removals and fetches of other processes meet it only in the file system.
Within a process shared state is atomics, `RwLock`s held within one statement, and
`tokio` mutexes held across awaits.

What is hard. Every `.await` is a place where another task runs and where the future may
be dropped: a client that hangs up drops its handler, the whole-fetch timer drops the
pipeline, a caller's `timeout` drops a send. Requests that were sent are executed all the
same, late. The reaper acts on what it read several awaits ago. Event channels drop their
oldest when a reader is behind. Processes die between two system calls; ports, display
numbers and container names are taken by others between the look and the use.
`PROJECT.json` lists these hazards at their lines, with the properties that watch them.

## 2. Modules

Conventions. One action per stretch of code between two awaits (or two system calls);
what the code reads before an await and uses after it is a variable. Names are the
source's where there is one. A definition whose comment says *variant* is a plausible
mistake standing before the definition it would replace; no specification uses it, and
`PROJECT.json` "mutants" says which property notices it. Sums: components that share no
state are explored side by side in one instance, whose variable `part` says which of them
moves while the others rest in one state; what is said of each is then said of the sum.

| module | relation |
|---|---|
| `TabReaper` | EXTENDS `TabLedger`: every ledger step is a step of it |
| `CdpConnection` | implements `RpcChannel` (INSTANCE with a refinement mapping) |
| `ClientHost` | EXTENDS `HostLaunch`: its inline host is one of the machine's hosts |
| `Fetch` | its closes are one step, `WindowAnchor` has their inside; its stages are `HttpPath`, `Intercept`, `Readiness`, `Waits`, `Downloads`, `PageCapture` |
| `*Proofs` | EXTENDS the module and `TLAPS` |
| `MCDriver` | sum of `CdpConnection`, `Fetch` and `WindowAnchor` |
| `MCProfileSwitch` | sum of `ProfileSwitch` and `TabLedger` |
| `MCJar` | sum of `ProfileStore` and `HttpPath` |
| `MCMachine` | sum of `ClientHost` and `Container` |
| `MCTakeover` | sum of `Takeover`, `FetchCommand` and `DisplayRelay` |
| `MCPage` | sum of `Readiness`, `Waits`, `Intercept`, `Downloads`, `PageCapture` and `Streams` |
| `MCTabReaper` | an instance of `TabReaper` |

**TabLedger.** `phase` follows `cdp_proxy::handler`: *connecting* from the moment the
client is counted, *open* while `forward` runs, *released* between `release_targets` and
the drop of the client guard. `RequestCreate`, `RequestAttach`, `RequestClose`,
`ResponseCreate` are `observe_request` and `observe_response` with the host-wide note
each one reports, one step because one task polls both directions. `EndConnection` is
`release_targets`. The browser creates, refuses and closes when frames reach it, and
pages come and go without any frame.

**TabReaper.** `SweepGate` (credentials, client count, orphans read), `SweepList`,
`SweepDecide` (clocks, orphans forgotten, expired set) and `SweepCloses` /
`SweepCloseFails` are the stretches of `sweep`. Credentials and a switch of the profile
are reduced to what the sweep reads of them. Deciding includes
`retain_orphaned_targets`, which drops whatever orphan the listing does not name.
`heldThrough`, `busyThrough` and `credThrough` remember what has been true without a break
since the gate, `younger` the targets opened since the browser's listing and `mislaid` the
abandoned pages a sweep forgot unseen; they are history and guard nothing.

**WindowAnchor.** `Begin` .. `SendClose` are the awaits of the routine, `Lapse` any of
them ending early; `creates` and `closes` are requests the browser has yet to run, whether
or not anybody waits. Fetches and people open pages, people close and navigate them;
`single` is a browser that holds one page only.

**CdpConnection / RpcChannel.** `Number`, `File`, `Refused`, `Receive`, `TimerFires`,
`TimedOut`, `Dropped` are `send_inner`; `Write`, `WriterStops`, `WriteFails` the writer,
`Read` (with `Deliver`), `ReaderEnds` the reader. `RpcChannel` knows of each call only
its fate and whether the channel is up. Events are modelled where they are read.

**ProfileSwitch.** `Locks` .. `Follows` are `ensure_profile` await by await, `Counts`,
`Picks`, `Upgrades`, `DropsEntry`, `Leaves` the handler, `HangsUp` the handler dropped
where it awaits. `Held` is `Arc<BrowserHandle>` ownership, `ProcessEnds` the process
dying some time after its last owner; launching is one step that succeeds or fails. The
handler that mints a credential owns the entry it picked while it awaits
`require_takeover_ready` (`probed`, `Mints`, `NotReady`), so a switch may come between. In the
instance no state has both requests in the ring and a credential or a mint under way: nothing
reads the ring, and no step waits for a mint.

**HostLaunch / ClientHost.** A host goes through its display (an X number picked by
looking), its directory and lock, its attempts (a port picked free and bound later, a probe
that takes whoever answers, the kill before the next try), binding and serving; `Stops`,
`Crashes` and failures end it at any stage, and what Rust drops is dropped then: the browser
is told to die and the temporary directory is deleted beside it, which may fail as long as
the browser writes (`litter`). A foxbridge starts and ends a Camoufox of its own (`foxes`,
`FoxStarts`, `FoxEnds`), which nobody else tells anything. `StrangerListens` takes a port,
as a program that speaks DevTools or as one that does not. `ClientHost` gives one Client's
callers the three `tokio` mutexes (`cdp`, `info`, `launched`) with the caches behind them;
callers are cancelled wherever they wait, the last clone may be dropped, the cached
connection may die at any moment.

**Container.** Each command is a script whose steps are the runtime calls the code makes,
in its order, with the early returns; the runtime's container, image and volume are shared
by two commands, by people (`SomeoneRuns`, `SomeoneRemoves`) and by the host inside, which
boots, misses probes and exits in its own time.

**Fetch.** `step` is where the attempt awaits; `attempt` numbers both the attempt and the
tab it may open. Stages run while `clock` is *running*, fail by their own timer once it is
*spent* (`StageTimerFires`), and `CutShort` is the whole-fetch timer dropping the future.
`tabs` and `session` are the browser's side and move in its own time, also for requests
nobody waits for. `told` is what the result names (`tab_id`, `trace.retained_tab_id`); a
retry drops it with the error that carried it. `owed` and `reported` are history over all
attempts: the tabs they got onto (one the whole-fetch timer cut short aside), and those a
trace named, whether or not it was dropped since.

**HttpPath.** `ResolvesJar`, `Prepares`, then per hop `SendsHop`, `Answers`,
`StoresCookies`, `Follows`, the body chunk by chunk against its cap (`ReadsChunk`), `Judges`
whether the browser is needed, and there `Injects`, `PageSets`, `Syncs`. `OtherFetch` stores
cookies of its own at any moment, so the jar a response is merged into may be later than the
one its cookies were checked against. In the browser a page may end at any of the URLs.
Hosts form a small tree with one public suffix; a URL is a scheme, a host and a path.

**ProfileStore.** Files are their presence and their inode (`fd` against `lockfile`), so
that a lock on an unlinked file is a lock nobody else sees. Roles: host, delete, prune,
probe, fetch; each is its sequence of system calls. `Dies` ends a process between any two
of them and frees its locks; `Ages` makes a profile old enough to prune.

**Intercept.** The page makes requests of five kinds, which pause once `Fetch.enable`
arrived; `ReceivesPaused` is one iteration of the task's loop; a lost event leaves its
request paused until `DisablesFetch` or `FetchDetaches`.

**Readiness / Waits.** The channel keeps `Capacity` events and drops the oldest. `Collects`
is `handle_event` with the bounded aggregate; a sample is its calls one by one (frame tree,
kid, network, assessment) with the page moving between them. `ReadsNetwork` takes the
snapshot of the network (`sm.net`); `Assesses` judges that snapshot, by then old, and is
both stability trackers. They compare one sample's content with the sample's before it and
with no other (`tracker.last`), so a change that was taken back between two samples, or a
new document that shows the same, is not seen; `seen` is history. `Waits` has the load,
idle, selector and milliseconds modes with subscription, enabling and polling in the code's
order.

**Downloads.** One directory, one listing before the navigation, the browser's numbered
names, its temporary names where it uses them, the two-sizes test; other tabs and people
save into it at any time.

**PageCapture / Streams.** The ten captures in the code's order on the clock, each able to
fail in the ways its code names; `stages` is the trace, `warned` the warnings,
`content_verified` and `close_after_success` decide the tab. Streams are counted in
payload sizes against their three limits. The console is closed first, the WebSocket frames
are taken, then the server-sent events, then all is closed; until that last step the
collector keeps and counts what comes, also of streams already taken, and drops it then.

**Takeover.** Credentials are records with the way they lapse. Every handler is split at
its probe: `Arrives` authorises, `NotReady`, `MintsHandoff` and the handlers under their own
names act on it afterwards. The panel command
opens or mints, renews every third of the idle timeout, and ends when told, when its host
says the browser is gone, or when its window closes; requests and answers are lost, the
command crashes. Between the lease and the loop it waits for the panel's upstream
(`start_upstream`, the state *opening*). How long that takes is the UI library's affair and
not this repository's: `Delivery` bounds it, and beyond the bound a lease may lapse before
its first renewal.

**FetchCommand / DisplayRelay.** The command's choices (`ResolvesProfile`, `NamesHost`,
`Discovers`, ...) up to the recommended second command, which is then run on a machine whose
default container may have moved, also away from a port the first line named. The request
for the link carries a lifetime and nothing else, so the link shows the host's display and
no tab in particular. Whoever listens on a port the container left is no host; a container
that was restarted on the same port is the same host, without the tab. The relay's two loops
over bounded buffers, the landing page once per panel.

## 3. Runs

| run | instance | what it shows |
|---|---|---|
| `reaper` | 2 connections, 1 target, timeout of 1 tick, 2 browsers; either two drivers or one driver and a switch; fairness | what was held, unattributed on a busy host or under a credential *throughout* a sweep survives it; clocks are the right browser's; an abandoned tab is an orphan unless a sweep's listing could not name it; every lasting orphan is reclaimed |
| `driver` | 2 calls, timed or not; all requests, up to 2 retries; 2 closes, 4 ids, 1 lapse; fairness of the tasks and the timers | answers are own, nobody is stranded, `RpcChannel` is implemented, calls end; sent once unless idempotent, the tabs of every attempt closed or named at some time, closed only when meant, a fetch ends; afhttp never closes the last page |
| `switch` | 2 requests, 2 profiles, 3 browsers, a ring of 1; 2 connections, 2 targets, 1 request id; fairness | a client's browser outlives switches, credentials die with theirs, every request is decided; counts, holders and orphans agree |
| `jar` | 3 processes of any role, 1 cookie identity, 1 death; 10 builders, 4 hosts, 4 URLs, 2 hops, a body of up to 2 | one owner who tells its pid, nothing removed under it, no cookie changed by another's write, the jar's rules as far as the loaded jar tells, secrets at their origin, honest results |
| `machine` | 2 hosts, 2 ports, 2 tries, 1 screen, 1 stranger, 2 callers; 7 pairs of commands, 6 initial worlds, 1 accident | nothing left untold to die, what a launch can tell from its own it does not go on with, one connection and one inline launch; tokens, removals and installs as said in section 1 |
| `takeover` | 1 panel command, 3 credentials, 2 upsets, idle timeout of three sleeps; 8 command lines, 3 containers, 1 move; buffers of 1, 2 messages a side; fairness | held leases are live, spent credentials dead, nothing lingers, the link shows the host whose tab the recommended command names, the relay serves its panel |
| `page` | 6 network worlds over a channel of 2, 2 contents, 8 asks, 4 download plans, 4 orders on 6 pages, 3 streams of two kinds, 4 wait modes | readiness is earned, waits miss nothing, overrides and credentials stay put, downloads are the tab's, traces agree, losses are told |
| `reaper_stale` | as `reaper` | violated: a held tab is reaped |
| `profile_two` | as `jar` | violated: two hosts on one profile |
| `jar_plaintext` | as `jar` | violated: a plaintext response replaces a Secure cookie |
| `takeover_twice` | 2 panel commands | violated: one handoff, two leases |
| `page_reclaimed` | as `page` | violated: a tab closed although a requested artifact is missing |

Why the bounds are enough to be worth something. The ledger's conflicts are between two
holders of one tab, and its second target keeps them from being conflated; the reaper deals
with every target by itself, so one target with two drivers has the races, and two browsers
let a switch come between any two steps of a sweep. Two overlapping closes with a lapse and
four ids are enough for each to see the other's page and for a late anchor. Three browsers
let one request switch away and back under another. Two retries are enough for a tab of a
first and a second attempt to be late together. Three processes are two hosts and a removal,
two removals and a host, or two fetches and a removal: every pair that meets in the
directory, with a third beside it. Four hosts are two sites under one suffix and a name below
one of them; two hops go away and come back. One stranger and one screen let two hosts want
what one of them gets. Pairs of commands are chosen so that every command meets one that
removes or replaces its container. Channels of two overflow after three events, and every
aggregate is smaller than what the page sends. For the safety of every module the proofs
remove the bounds. `jar` and `page` use symmetry (they check no liveness); runs
with fairness use none, and where things are alike, an order: the last of the calls takes its
number after the other, the host does not start under the last profile, and target ids are
handed out in turn. Deadlock checking is off where the system really may stop (calls ended,
ids used, the fetch returned).

What the violations show.

* `reaper_stale`: `sweep` reads the client count and orphans, then awaits the connect, the
  listing and each close; a driver that connects and attaches in between loses its tab.
  `SweepSparesWhatIsUsed` is what does hold: in use since before the gate.
* `profile_two`: a removal unlinks the lock file after it let go of the guard. A host that
  had the file open then holds a lock on no file, and the next host makes and locks another.
  Without such a removal there is one: `ProfileHasOneOwner`.
* `jar_plaintext`: a plaintext response's cookies are checked against the jar as loaded and
  merged into the jar as re-read, where another fetch may have put a Secure one.
* `takeover_twice`: the handoff is authorised before the probe is awaited and revoked after
  it, so two exchanges that overlap both get a lease.
* `page_reclaimed`: `takeover_content_verified` knows seven warning codes; a capture that
  fails with another one, or whose file cannot be written, does not keep the tab.

More places where a document or a comment says more than the code does. The models contain
the steps; the property named says what does hold, and its comment quotes the other.

* An orphan is forgotten whose page is open: the sweep keeps of the orphans those its listing
  names, and the listing is an await old, and of one browser (`reaper.rs:156`, against the
  comment at `listener/mod.rs:176`). Nothing reclaims the page while drivers keep the host
  busy. That nothing *else* is ever lost is `AbandonedAreOrphans`.
* An error names no tab that an earlier attempt kept: a retry drops the failed attempt's error
  and its trace (`fetch/mod.rs:513`, against `docs/takeover-reliability.md:26`). That some
  trace named it is `AttachedTabsAreAccountedFor`.
* A takeover's tab goes over a finished download, with nothing captured (`download.rs:152`,
  against `docs/reference.md:118`): `TabsAreClosedOnlyWhenMeant`.
* A plaintext page's cookie, read back from the browser, replaces a Secure one of the jar,
  which that browser was never given (`cookie_jar_resolve.rs:207`, against
  `cookie_jar.rs:169`): `JarKeepsItsRules`.
* A program that was quicker to the picked port is served, by Lightpanda and Camoufox
  whatever it is, by Chromium if it speaks DevTools (`lightpanda.rs:70`, `camoufox.rs:74`,
  against `browser.rs:384`). What a launch can tell is `LaunchesTellStrangers`.
* foxbridge is killed, its Camoufox is not, nor is it in a group that is (`browser.rs:93`,
  against 70); and the kill is not waited for, so that a temporary directory stays when its
  deletion meets a browser still writing (`browser.rs:87`, against 50). What is let go of is
  `NothingLeftRunning`.
* The main document may find no slot: one is kept from new subresources, but the hop that a
  subresource's redirect ended may take it (`collectors.rs:471`, against
  `docs/reference.md:340`). Without a redirect it fits: `ReadinessIsEarned`, of which
  `MainDocumentFits` is a part.

Seen while modelling, with no run of its own (the models contain the steps; no property
that holds can exclude them):

* Host. A driver that comes and goes between two sweeps resets no clock (`reaper.rs:119`).
  Between `ensure_profile` and `get_profile` another request can switch, and the client is
  served another profile (`cdp_proxy.rs:64`, comment at 28). The request ring is cleared
  before the old subscription ends (`listener/mod.rs:256`, `recent_requests.rs:68`). A
  browser is told to die and its lock let go without waiting, and a crashed host's browser
  lives on: two browsers can share a directory (`browser.rs:87`, `chromium.rs:332`). The
  display's web port may be taken by a program that answers for it. A live Unix socket is
  unlinked (`listener/mod.rs:549`). A profile whose preferences file is no JSON cannot be
  launched any more.
* Profile and jar. The jar
  is checked against the profile active before the fetch's own connection selects another
  (`cookie_jar_resolve.rs:33`). A caller's cookie that a redirect dropped still keeps the
  jar's cookie of that name from being sent (`http_only.rs:138`). A jar named explicitly is
  refused when the host cannot confirm it (`docs/cli.md:243`).
* Fetch. The whole-fetch timer can drop the pipeline before a retained tab's id is in the
  trace (`browser/mod.rs:1202`). A tab whose `createTarget` came late, or whose attach and
  close both failed, is in no trace (`browser/mod.rs:170`, 193). In a reused tab the
  override goes to the first document request, possibly the old page's (`navigate.rs:53`),
  and what is paused when the fetch detaches goes out as a GET. Content that changed and
  changed back between two samples counts as stable (`wait.rs:73`). The idle wait takes any
  frame's event (`wait.rs:213`). A download without a heard name may be another tab's
  (`download.rs:86`); an unreadable directory counts as empty. Frames that come after the
  streams were taken are neither written nor told, nor does a document claim it
  (`collectors.rs:328`).
* Takeover and container. A host without a token keeps serving revoked panels
  (`listener/mod.rs:290`). The client that mints a lease has no timeout
  (`sdk/takeover.rs:151`, comment at 176); a lease is not revoked when the panel's upstream
  cannot start (`ui.rs:135`). The command a plain fetch's wall recommends does not name its
  profile and endpoint. A landing address with an old path but the right size is kept
  (`takeover/mod.rs:508`). A failing `inspect` is taken for "no container"
  (`container.rs:671`).

## 4. Fairness

* **Reaper**: its task is a loop with a sleep, so the gate recurs (WF) and time passes
  (WF). Listing and closing need a browser that answers now and then: SF. The orphan
  property excludes tabs a credential keeps coming back for: the code spares them.
* **Connection**: `tokio` runs ready tasks and timers: WF on what each caller (`CallRuns`),
  the writer (`WriterRuns`) and the reader (`ReaderRuns`) does. The peer gets no
  fairness except in `EveryCallEnds`, whose premise `PeerKeepsUp` names it; a call that was
  never begun need not end.
* **Switch**: each request's handler and launch proceed (WF); `switch_lock` is a `tokio`
  mutex, which is FIFO, hence SF on taking it. `HangsUp` is never assumed, nor prevented.
* **Fetch**: only the clock, the two timers and the retry's sleep are fair. The browser may
  answer nothing at all.
* **Takeover**: time passes, the server's handlers and the panel command's loop run (WF on
  each). Nothing is assumed of the browser, of windows or of people. In the relay the two
  loops are polled and the sockets' ends read (WF); nobody need send or close.

## 5. Proofs

Each proof module states an invariant as named parts, proves that `Init` implies it and
that every action preserves it (one lemma per part, one step per action), and derives the
theorems. The assumptions are the named ASSUMEs of the modules, which TLC evaluates for
every instance it runs: `ConnsFinite`, `LapsesAssumption`, `CallsAssumption`,
`BoundsAssumption`, `NoneIsNobody`, `RetriesAssumption`, `ReaperBounds`; `NamesAssumption`
and `DeathsAssumption` (processes of the profile store are not "none"); `HopsAssumption`,
`DomainsAssumption`, `UrlsAssumption`, `CallerAssumption`, `SettingsAssumption`,
`OffersAssumption`, `JarsAssumption` (what a URL, a request, a client, a `Set-Cookie` header
and a jar file may be; jars are lawful to begin with); `TakeoverAssumption` (the idle
timeout is three sleeps, of which two have room for the panel's start and two request
timeouts), `AgentAssumption`, `MaxMovesAssumption`, `LinesAssumption` (a command line names
no host, one of its own, or a port the default container may have) and `PortsAssumption` of
`FetchCommand`; `TriesAssumption`, `PortsAssumption` of `HostLaunch`, `NobodyAssumption`,
`CallersAssumption`, `InlineAssumption` (one Client has one inline host), `RoundsAssumption`,
`InspectAssumption`, `JobsAssumption` (an install has a port to publish),
`WorldsAssumption` (only an image made by hand may differ from its tag, when the commands
begin) and `CommandsAssumption`; and of a page `AsksAssumption`, `ModesAssumption`,
`SaversAssumption` (finitely many tabs save into the directory), `PlansAssumption`,
`BodiesAssumption` (sizes and caps are naturals), `StreamsAssumption`, `ReadyAssumption`
(windows and rooms are positive) and `NetworksAssumption` (one slot at least, and at most
one child frame).

* `TabReaperProofs`, the ledger's part: `LedgerInv`. A holder count is the cardinality of
  the holders (`HoldersCountLedgers`), so releasing one holder decrements it and `LastHolds`
  sees exactly the targets nobody else has. From it: `LedgerTypeCorrect` (counts stay
  natural only because they equal a cardinality), `CountsAreExact`, `HeldTabsAreNoOrphans`.
* `TabReaperProofs`, the reaper's part: `ReaperInv`. Every step of the reaper's world is a
  step of the ledger or takes from its pages and orphans, so `LedgerInv` goes along. A tab
  with a holder then means a counted driver and no orphan (`HeldMeansBusy`): what a sweep
  marks is an orphan whenever it read a driver, and what it read at its gate covers whatever
  is in use all through it (`WatchOK`). What the decision forgets either was younger than
  its listing or of another browser, hence in `mislaid`, or is no page any more. From it:
  `ClocksAreOneBrowsers`, `SweepsSpareWhatIsUsed`, `AbandonedTabsAreKnown`.
* `DriverProofs`, the anchor's part: `AnAnchorIsSpared` is not inductive alone: no page
  at the anchor's url may be a target of a call under way, and no fresh page can be,
  since targets were handed out before. From it `BrowserKeepsAPage`, an action property.
* `DriverProofs`, the connection's part: `ConnectionInv` relates ids, slots, queue, socket
  and inboxes: ids differ, a slot is its own call's, whoever waits has a slot or an answer,
  and a request is in at most one of queue, socket and stream. From it the four safety
  theorems and `ConnectionImplementsChannel`, step by step onto `RpcChannel`.
* `ProfileSwitchProofs`: `SwitchInv` adds that owned browsers run, holders have an
  entry, and a launch under way was begun over nobody but overtaken clients.
* `FetchProofs`: `FetchInv` says what every place has behind it: how often it sent, that
  a request that may not be resent has gone out at most once, whether it has a session,
  and what a close at that place is for. The tabs it owes, of whatever attempt, were
  reported or are closed; the current attempt's own is still to come.
* `JarProofs`, the directory's part: `StoreInv` says for every place of every process what
  it has done: which files it opened under which inode, that a held lock excludes every
  other holder of that inode (`ExclusionOK`), that a pid file and a directory are the lock's
  holder's until a removal unlinked the lock file (`PlacesOK`, `NamesOK`), and that a jar
  read under its lock is still the jar (`DoneOK`). One mutual-exclusion argument thus serves
  all roles. From it `HasOneOwner`, `RemovalsAreAlone` (a removal that took the lock finds
  no host, whatever it probed before), `WritesAreMerges`, and the two together,
  `NothingPulledAway`.
* `JarProofs`, the fetch's part: `HttpInv` ties the hop to its origin: what is attached came
  from the caller for this origin or from the jar for this host, entries in the jar and in
  the snapshot are lawful, options settled by `Prepares` do not change, and the count of
  bytes read against the cap is what `PastCap` says. From it `SecretsAreKept`,
  `ResultsAreHonestAlways`, `JarRulesAreKept`, over any chain of redirects; the last speaks
  of the jar as loaded, and of the jar written to the violations above say more.
* `TakeoverProofs`: `TakeoverInv`. Every step but the clock's keeps what a credential is
  worth or revokes it (`AllKept`), so what a client knows stays true while others move
  (`Bystanders`, `Turn`). A lease has lost at most what its command slept, what its request
  waited and what the renewal before that waited (`LeaseOf`), which `TakeoverAssumption`
  keeps below the idle timeout; a handoff is revoked in the step that mints from it
  (`CredsOK`). From it `LeasesAreHeld` (for commands whose client has a timeout) and
  `SpentIsDead`. For `FetchCommand`, `CommandInv` carries the profile and the host from the
  first command to the one it recommends, by the host that was called and not by the port's
  name: `TakeoversFindTheirHost`.
* `MachineProofs`, the hosts' and the Client's part: `MachineInv`. Nothing is left behind
  because each thing a host owns is owned in known stages only (`ProcsInStage`,
  `DisplayInStage`, `TmpInStage`, `HolderInStage`) and every way out of those drops it; a
  live browser is moreover the last attempt's, so each failed attempt killed its own. What
  was told to die and what could not be deleted are variables of their own, which the
  theorem does not speak of. That a port has one listener (`OneListens`) gives
  `NoPlainStrangerServed`. A Client's mutex is
  held exactly while a call is between taking and leaving it (`LocksHeld`), hence one open
  connection, and one launch, over at once when its caller is cancelled (`InlineFollows`).
  From it `NothingIsLeft`, `StrangersAreTold`, `CallersShare`.
* `MachineProofs`, the commands' part: `ContInv`. Ports talked to were read from the
  container or given to `run` (`PortsKnown`); a container some command made is what it
  asked for, because a tag spells its contents (`ImagesAsTagged`, `MadeAsAsked`); who is
  past the check saw its own (`CheckedOwn`); an undisturbed purge knows its image to the
  end (`PurgeKnows`). From it `CommandsAreTrue`, `RemovalsAreOwn`.

* `PageProofs`, one invariant for each module of a page. `InterceptInv`: every paused
  request is with the browser, the task or already answered, never with two of them, and the
  override is still to be had until it was given away: `OverridesAreKept`. `WaitsInv`: an
  event that came after the subscription is in the channel, was read, or was dropped by it,
  and polls are never further apart than the interval: `WaitsMissNothing`. The first attempt
  at it failed for a good reason: a load wait whose budget is nothing looks at the page
  after its only instant is over, which the property now says. `DownloadInv`: a file is
  written by the saver whose name it bears (`SavedUnderItsName`), and what was picked was
  not in the first listing (`PickedQualifies`); that a free number exists for every name is
  a pigeonhole argument. From it `DownloadsAreTheTabs`, for any number of savers.
  `CaptureInv`: `todo` is the rest of the list (`CaptureIsInOrder`), so what is not in it
  was dealt with: told once (`StagesToldOnce`), warned of when it failed
  (`FailuresAreWarnedOf`) or lost something (`LostIsWarnedOf`). From it `StagesAgree` and,
  with `SnapshotIsOfThePage`, `ReclaimedTabsWereSeen`. `StreamsInv`: counters count what was
  kept, and what came until the take is what was kept unless something was cut or missed.
  That `bytesOf` of a longer stream is the sum needs an induction over its length, which is
  made without the library's rule, by a least counterexample (`LeastNatural`, `SumsExist`):
  `FramesFit`. `ReadyInv`: what the collector and the channel have of a request happened
  (`EventsAreReal`), and a request that was made is with one of them unless something was
  lost (`RequestsAreKnown`); so one the target needed when the tick began is still under way
  for the collector or ended in this tick (`NeedIsSeen`), and a snapshot without one was
  taken when the target had none (`SnapshotSettles`). A document that replaced the one of
  the frame tree has an event on its way, filed or lost, so a complete snapshot finds the
  top frame busy (`DocumentsFollow`, `ReplacedIsSeen`), as long as the network's window is
  longer than a sample takes. The content the tracker has is what every sample measured for
  at least as long (`SampleIsShort`, `ContentIsHeld`). A slot is free for the main document
  while nothing else was redirected (`ReserveIsKept`). From it `ReadinessEarned`. The
  attempt showed that the model judged the live aggregate where `assess` judges the
  snapshot; it now keeps the snapshot.

Only model-checked: every liveness property (`OrphansAreReclaimed`, `EveryCallEnds`,
`EveryRequestIsDecided`, `FetchEnds`, `NothingLingers`, `RelayServesItsPanel`): fairness and
`ENABLED` are out of the prover's reach.

## 6. Not modelled, and why

Frame formats, wording, logging, redaction and layout; argument parsing; browser flags,
preferences and version strings (data); the display server itself and its HTTP assets; the
read-only routes; `container logs`; the extraction of content from pages and what
classifies a wall by its text; the console and diagnostics lists beyond their limits. In the
modelled parts: the opening handshake of a CDP connection, what makes an error retryable
(`Fetch` lets any error be), and real time (clocks are ticks and deadlines; the cleanup's
bound is not compared with the timer's in numbers).

## 7. Plan

1. An abstract register per cookie identity that `ProfileStore`'s jar implements, and an
   abstract set of live secrets for `Takeover`.
2. Several fetches on one browser: `Fetch` twice over one `TabLedger`.
