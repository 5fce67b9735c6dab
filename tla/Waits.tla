--------------------------------- MODULE Waits ---------------------------------
(***************************************************************************)
(* The plain wait modes of a fetch (sdk/fetch/pipeline/browser/wait.rs):   *)
(* the network-idle event, the load, a selector and a number of            *)
(* milliseconds, each on a budget a little shorter than what the fetch has *)
(* left.  The page changes in its own time; events come over a channel     *)
(* that drops the oldest when the wait falls behind.                       *)
(***************************************************************************)
EXTENDS Naturals, Sequences

CONSTANTS Modes,    \* the kinds of wait explored
          Limits,   \* what may be left of the fetch when the wait begins
          Asked,    \* the timeout the caller asked for
          Reserve,  \* 100 ms in the source
          Every,    \* units between polls: 50 ms
          Kept,     \* events a subscriber may be behind
          MaxNoise  \* bound on events about other things

ASSUME WaitsAssumption ==
  /\ Reserve \in Nat /\ Every \in Nat \ {0} /\ Kept \in Nat \ {0} /\ Asked \in Nat /\ Limits \subseteq Nat
ASSUME ModesAssumption == Modes \subseteq {"idle", "load", "selector", "ms"}

VARIABLES
  wait,     \* the mode
  wstage,   \* "starts", "subscribed", "enabling", "looked", "waits" or "over"
  clock,    \* units since the wait began
  spare,     \* what the fetch had left then
  until,    \* when the wait's budget ends
  pollAt,   \* when the page is next looked at, or the events were first
  holds,    \* whether what is waited for holds: idle, loaded, selector matched
  since,    \* when it came to hold
  replays,  \* whether the browser reports lifecycle events on this session
  listening,\* whether the wait has subscribed
  unread,   \* what the subscriber has not read
  noise,
  lost,     \* whether it lost events or a request failed
  ended     \* "none", "satisfied", "expired", "failed"

waitVars == <<wait, wstage, clock, spare, until, pollAt, holds, since, replays, listening, unread, noise, lost, ended>>

WaitsInit ==
  /\ wait \in Modes /\ spare \in Limits
  /\ wstage = "starts" /\ clock = 0 /\ until = 0 /\ pollAt = 0
  /\ holds \in BOOLEAN /\ since = 0
  /\ replays = FALSE /\ listening = FALSE /\ unread = <<>> /\ noise = 0
  /\ lost = FALSE /\ ended = "none"

smaller(a, b) == IF a < b THEN a ELSE b
explicit_wait_budget(remaining, asked) ==
  LET most == smaller(remaining, asked) IN IF most >= Reserve THEN most - Reserve ELSE most

sleepsOnly == wait = "ms"
heardOf == wait \in {"idle", "load"}
polled == wait \in {"load", "selector"}

Over(how) == wstage' = "over" /\ ended' = how
\* What the subscriber gets: all of it, or the newest.
Heard(q) == IF Len(q) > Kept THEN SubSeq(q, Len(q) - Kept + 1, Len(q)) ELSE q
Emits(what) ==
  LET q == Append(unread, what) IN
  /\ unread' = IF listening THEN Heard(q) ELSE unread
  /\ lost' = (lost \/ (listening /\ Len(q) > Kept))
-----------------------------------------------------------------------------
\* wait_for_network_idle: subscribed first, then enabled, which makes the
\* browser replay what the page has reached; whether that worked is not looked
\* at, the time it took is.
\* (Variant: enabled first.)
subscribesAfter == FALSE
ahead == TRUE
BeginsIdle ==
  /\ wait = "idle" /\ wstage = "starts"
  /\ listening' = ahead /\ wstage' = "subscribed"
  /\ UNCHANGED <<wait, clock, spare, until, pollAt, holds, since, replays, unread, noise, lost, ended>>
Enables ==
  /\ wstage = "subscribed"
  /\ \/ /\ replays' = TRUE
        /\ IF holds THEN Emits("it") ELSE UNCHANGED <<unread, lost>>
     \/ lost' = TRUE /\ UNCHANGED <<replays, unread>>
  /\ wstage' = "enabling"
  /\ UNCHANGED <<wait, clock, spare, until, pollAt, holds, since, listening, noise, ended>>
Enabled ==
  /\ wstage = "enabling"
  /\ IF spare > clock
     THEN /\ until' = clock + explicit_wait_budget(spare - clock, Asked) /\ pollAt' = clock
          /\ wstage' = "waits" /\ listening' = TRUE /\ UNCHANGED ended
     ELSE Over("failed") /\ UNCHANGED <<until, pollAt, listening>>
  /\ UNCHANGED <<wait, clock, spare, holds, since, replays, unread, noise, lost>>

\* wait_for_load looks at the page before it waits for its event; the others
\* begin at once.
looksFirst == wait = "load" /\ holds
Begins ==
  /\ wait # "idle" /\ wstage = "starts"
  /\ until' = clock + explicit_wait_budget(spare, Asked) /\ pollAt' = clock
  /\ IF looksFirst THEN Over("satisfied") ELSE wstage' = "looked" /\ UNCHANGED ended
  /\ UNCHANGED <<wait, clock, spare, holds, since, replays, listening, unread, noise, lost>>
\* The look at the page took a while, and nothing was heard meanwhile.
Looked ==
  /\ wstage = "looked" /\ wstage' = "waits" /\ listening' = heardOf
  /\ until' = until + (clock - pollAt) /\ pollAt' = clock
  /\ UNCHANGED <<wait, clock, spare, holds, since, replays, unread, noise, lost, ended>>

\* wait_event_on: the time is looked at before the channel.
Receives ==
  /\ wstage = "waits" /\ heardOf /\ clock < until /\ unread # <<>>
  /\ unread' = Tail(unread)
  /\ IF Head(unread) = "it" THEN Over("satisfied") ELSE UNCHANGED <<wstage, ended>>
  /\ UNCHANGED <<wait, clock, spare, until, pollAt, holds, since, replays, listening, noise, lost>>
\* A poll that fails is passed over by the load and ends the selector's wait.
Polls ==
  /\ wstage = "waits" /\ polled /\ clock = pollAt /\ clock < until
  /\ pollAt' = clock + Every
  /\ \/ IF holds THEN Over("satisfied") /\ UNCHANGED lost ELSE UNCHANGED <<wstage, lost, ended>>
     \/ lost' = TRUE /\ IF wait = "load" THEN UNCHANGED <<wstage, ended>> ELSE Over("failed")
  /\ UNCHANGED <<wait, clock, spare, until, holds, since, replays, listening, unread, noise>>
RunsOut ==
  /\ wstage = "waits" /\ clock >= until
  /\ Over(IF sleepsOnly THEN "satisfied" ELSE "expired")
  /\ UNCHANGED <<wait, clock, spare, until, pollAt, holds, since, replays, listening, unread, noise, lost>>

\* The page: what is waited for comes to hold, and a selector's match goes
\* again.  An idle page is reported only once reports are on.
PageChanges ==
  /\ wstage # "over"
  /\ \/ ~holds /\ holds' = TRUE /\ since' = clock
     \/ holds /\ wait = "selector" /\ holds' = FALSE /\ UNCHANGED since
  /\ IF holds' /\ (wait = "load" \/ (wait = "idle" /\ replays)) THEN Emits("it") ELSE UNCHANGED <<unread, lost>>
  /\ UNCHANGED <<wait, wstage, clock, spare, until, pollAt, replays, listening, noise, ended>>
\* The idle event is not asked which frame it is of.
OtherEvents ==
  /\ wstage # "over" /\ noise < MaxNoise /\ noise' = noise + 1
  /\ Emits("other") \/ (wait = "idle" /\ replays /\ Emits("it"))
  /\ UNCHANGED <<wait, wstage, clock, spare, until, pollAt, holds, since, replays, listening, ended>>

\* What there is to read or to look at is done before the next unit of time.
WaitsTick ==
  /\ wstage \in {"subscribed", "enabling"} \/ (wstage = "looked" /\ wait = "load") \/ (wstage = "waits" /\ clock < until)
  /\ clock < spare
  /\ wstage = "waits" => ~(heardOf /\ unread # <<>>) /\ ~(polled /\ clock = pollAt)
  /\ clock' = clock + 1
  /\ UNCHANGED <<wait, wstage, spare, until, pollAt, holds, since, replays, listening, unread, noise, lost, ended>>

WaitsNext ==
  \/ BeginsIdle \/ Enables \/ Enabled \/ Begins \/ Looked \/ Receives \/ Polls \/ RunsOut
  \/ PageChanges \/ OtherEvents \/ WaitsTick

WaitsSpec == WaitsInit /\ [][WaitsNext]_waitVars
-----------------------------------------------------------------------------
\* A wait that says its time ran out had nothing to see in that time: the page
\* was not already idle, loaded or matched, nor became so with a poll to come,
\* unless events or answers were lost or there was no time at all.
\* (wait_for_network_idle, wait_for_load)
NothingWasMissed ==
  (ended = "expired" /\ ~lost) =>
    ~holds \/ since + Every >= until \/ (heardOf /\ pollAt = until)
=============================================================================
