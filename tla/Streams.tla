------------------------------- MODULE Streams --------------------------------
(***************************************************************************)
(* What the collectors keep of WebSocket frames, server-sent events and    *)
(* the console (sdk/fetch/artifacts/collectors.rs): so many streams, so    *)
(* many events and bytes of each, over a channel that drops events when    *)
(* its reader is behind.  The console is closed first, then the frames are *)
(* taken to be written, then the server-sent events; the collector goes on *)
(* until the whole is closed.  Only sizes are modelled: an event is the    *)
(* length of its payload.                                                  *)
(***************************************************************************)
EXTENDS Integers, Sequences, FiniteSets

CONSTANTS StreamIds,
          KindOf,      \* of each stream: "ws" or "sse"
          StreamMax,   \* NETWORK_ENTRY_LIMIT, of either kind
          EventMax,    \* STREAM_EVENT_LIMIT_PER_REQUEST
          ByteMax,     \* STREAM_PAYLOAD_BYTES_PER_REQUEST
          ConsoleMax,  \* CONSOLE_EVENT_LIMIT
          FrameSizes,
          FramesMax    \* bound: the events of each stream

ASSUME StreamsAssumption ==
  /\ StreamMax \in Nat \ {0} /\ EventMax \in Nat \ {0} /\ ByteMax \in Nat \ {0}
  /\ ConsoleMax \in Nat \ {0} /\ FrameSizes \subseteq Nat
  /\ KindOf \in [StreamIds -> {"ws", "sse"}] /\ FramesMax \in [StreamIds -> Nat]

VARIABLES
  bucket,     \* each stream's [total, bytes, events, some], NoBucket before its first event
  came,       \* history: the sizes that came of it until its events were taken
  late,       \* history: how many came after
  jsonl,      \* what was written of it
  unwritten,  \* streams whose file could not be written, each warned of
  cut,        \* NetworkInner.truncated
  missed,     \* whether NetworkInner.events_dropped counts any
  console,    \* [kept, came, cut, missed]
  phase,      \* what was closed or taken last: nothing, console, ws, sse, all
  told        \* what the result says of it all: [cut, missed, late]

streamVars == <<bucket, came, late, jsonl, unwritten, cut, missed, console, phase, told>>

NoBucket == [total |-> 0, bytes |-> 0, events |-> <<>>, some |-> FALSE]
NothingTold == [cut |-> FALSE, missed |-> FALSE, late |-> FALSE]

StreamsInit ==
  /\ bucket = [s \in StreamIds |-> NoBucket] /\ came = [s \in StreamIds |-> <<>>]
  /\ late = [s \in StreamIds |-> 0]
  /\ jsonl = [s \in StreamIds |-> <<>>] /\ unwritten = {} /\ cut = FALSE /\ missed = FALSE
  /\ console = [kept |-> 0, came |-> 0, cut |-> FALSE, missed |-> FALSE]
  /\ phase = "nothing" /\ told = NothingTold

\* Whether a stream's events were taken.
isTaken(s) == phase \in IF KindOf[s] = "ws" THEN {"ws", "sse", "all"} ELSE {"sse", "all"}
sameKind(s) == {t \in StreamIds : KindOf[t] = KindOf[s]}

\* No room for another stream, or for another event of this one, or none left of
\* its bytes for an event that is not empty.
refuses(s, size) ==
  \/ ~bucket[s].some /\ Cardinality({t \in sameKind(s) : bucket[t].some}) >= StreamMax
  \/ bucket[s].total >= EventMax
  \/ size > 0 /\ bucket[s].bytes = ByteMax

\* The event that crosses the budget keeps a prefix and spends the rest of it.
budget(s) == ByteMax - bucket[s].bytes
keptOf(s, size) == IF size > budget(s) THEN budget(s) ELSE size
taken_in(s, size) ==
  [total |-> bucket[s].total + 1, bytes |-> bucket[s].bytes + keptOf(s, size),
   events |-> Append(bucket[s].events, keptOf(s, size)), some |-> TRUE]

\* (Variant: an event that was cut is not told of.)
cutsRefused(s, size) == refuses(s, size)
cuts(s, size) == refuses(s, size) \/ size > budget(s)

\* One more event came of a stream, before its events were taken or too late.
arrives(s, size) ==
  /\ phase # "all" /\ Len(came[s]) + late[s] < FramesMax[s]
  /\ IF isTaken(s) THEN late' = [late EXCEPT ![s] = @ + 1] /\ UNCHANGED came
                 ELSE came' = [came EXCEPT ![s] = Append(@, size)] /\ UNCHANGED late

push_stream_event(s, size) ==
  /\ arrives(s, size)
  /\ bucket' = IF refuses(s, size) THEN bucket
                                   ELSE [bucket EXCEPT ![s] = taken_in(s, size)]
  /\ cut' = (cut \/ cuts(s, size))
  /\ UNCHANGED <<jsonl, unwritten, missed, console, phase, told>>

\* The reader was too far behind: the event, of whatever size, is counted, not kept.
FrameMissed(s) ==
  /\ arrives(s, 0)
  /\ missed' = TRUE
  /\ UNCHANGED <<bucket, jsonl, unwritten, cut, console, phase, told>>

ConsoleEvent ==
  /\ phase = "nothing" /\ console.came <= ConsoleMax
  /\ \E lagged \in BOOLEAN :
       console' = IF lagged THEN [console EXCEPT !.missed = TRUE, !.came = @ + 1]
                  ELSE IF console.kept >= ConsoleMax
                  THEN [console EXCEPT !.cut = TRUE, !.came = @ + 1]
                  ELSE [console EXCEPT !.kept = @ + 1, !.came = @ + 1]
  /\ UNCHANGED <<bucket, came, late, jsonl, unwritten, cut, missed, phase, told>>

ConsoleFinishes ==
  /\ phase = "nothing" /\ phase' = "console"
  /\ UNCHANGED <<bucket, came, late, jsonl, unwritten, cut, missed, console, told>>

\* The events of a kind are taken to be written, a file for each stream that has any;
\* what was counted stays counted.
TakesStreams(kind) ==
  LET some == {s \in StreamIds : KindOf[s] = kind /\ bucket[s].events # <<>>} IN
  /\ phase = IF kind = "ws" THEN "console" ELSE "ws"
  /\ phase' = kind
  /\ \E failing \in SUBSET some :
       /\ unwritten' = unwritten \cup failing
       /\ jsonl' = [s \in StreamIds |-> IF s \in some \ failing THEN bucket[s].events ELSE jsonl[s]]
  /\ bucket' = [s \in StreamIds |->
                  IF KindOf[s] = kind THEN [bucket[s] EXCEPT !.events = <<>>] ELSE bucket[s]]
  /\ UNCHANGED <<came, late, cut, missed, console, told>>

\* The summary is taken with the log, or the stage's end is warned of.  What came since
\* the events were taken is dropped.
StreamsFinish ==
  /\ phase = "sse" /\ phase' = "all"
  /\ \/ told' = [cut |-> cut, missed |-> missed, late |-> FALSE]
     \/ told' = [NothingTold EXCEPT !.late = TRUE]
  /\ UNCHANGED <<bucket, came, late, jsonl, unwritten, cut, missed, console>>

StreamsNext == \/ \E s \in StreamIds : \/ \E size \in FrameSizes : push_stream_event(s, size)
                                       \/ FrameMissed(s)
               \/ ConsoleEvent \/ ConsoleFinishes
               \/ \E kind \in {"ws", "sse"} : TakesStreams(kind)
               \/ StreamsFinish

StreamsSpec == StreamsInit /\ [][StreamsNext]_streamVars

-----------------------------------------------------------------------------
bytesOf(q) == LET n[i \in 0..Len(q)] == IF i = 0 THEN 0 ELSE n[i - 1] + q[i] IN n[Len(q)]

\* What is written of a stream stays within its budget, and when that is not all that
\* came of it before its events were taken, the result says that something was cut,
\* missed, not written or not looked at in time.  What comes after is kept, counted
\* and dropped: nobody is told, unless it exceeds a limit or is missed.
FramesFitOrAreTold ==
  /\ \A s \in StreamIds : Len(jsonl[s]) <= EventMax /\ bytesOf(jsonl[s]) <= ByteMax
  /\ phase = "all" => \A s \in StreamIds :
       jsonl[s] # came[s] => told.cut \/ told.missed \/ told.late \/ s \in unwritten
  /\ console.kept < console.came => console.cut \/ console.missed
===============================================================================
