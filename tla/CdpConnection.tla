----------------------------- MODULE CdpConnection -----------------------------
(***************************************************************************)
(* One CDP websocket of a driver: sdk/cdp/ws_client.rs.  Callers number    *)
(* their request, then under one lock file a reply slot and queue the      *)
(* frame; a writer task empties the queue, a reader task hands each reply  *)
(* to the slot of its id and, when the socket ends, fails every slot left. *)
(* A call made by send_timeout takes its slot back; a call its owner drops *)
(* leaves it.  close() queues a Close frame like any other.                *)
(***************************************************************************)
EXTENDS Integers, Sequences, FiniteSets

CONSTANT Calls    \* each call is made once

CLOSE == "Close"  \* OutMsg::Close, in a queue of calls

VARIABLES
  place,       \* where a call is
  timed,    \* whether it is a send_timeout
  id,       \* the id it took
  next_id,  \* Connection.next_id
  replies,  \* PendingRequests.replies: id -> the call whose oneshot it is
  closed,   \* PendingRequests.closed
  inbox,    \* what a call's oneshot holds: nothing, an error or an answer
  queue,    \* the mpsc channel to the writer
  writer,   \* the writer task runs
  reader,   \* the reader task runs
  frames,   \* requests on the socket; the browser answers in any order
  stream,   \* replies on the socket
  served,   \* calls the browser has run
  hangup    \* the browser's end of the socket is closed

connectionVars == <<place, timed, id, next_id, replies, closed, inbox, queue, writer, reader,
          frames, stream, served, hangup>>
socket == <<frames, stream, served, hangup>>
tasks == <<writer, reader>>

Nothing == "nothing"
Lost == "lost"     \* Err(CDP connection closed)

ASSUME CallsAssumption == {CLOSE, Nothing, Lost} \cap Calls = {} /\ Nothing # Lost

Ended == {"answered", "failed", "timed out", "dropped", "refused"}

ConnectionInit ==
  /\ place = [c \in Calls |-> "new"]
  /\ timed \in [Calls -> BOOLEAN]
  /\ id = [c \in Calls |-> 0]
  /\ next_id = 1
  /\ replies = << >>
  /\ closed = FALSE
  /\ inbox = [c \in Calls |-> Nothing]
  /\ queue = << >>
  /\ writer = TRUE
  /\ reader = TRUE
  /\ frames = {}
  /\ stream = {}
  /\ served = {}
  /\ hangup = FALSE

Without(slots, i) == [j \in DOMAIN slots \ {i} |-> slots[j]]

\* The calls whose oneshot sender sits in the map.
Slots == {replies[i] : i \in DOMAIN replies}

-------------------------------------------------------------------------------
(* A call: send_inner.                                                     *)

\* (Variant: the counter is read and incremented in two steps, and two calls meet.)
NumberStale(c) ==
  /\ place[c] = "new"
  /\ LET met == \E d \in Calls : place[d] = "numbered" IN
       /\ id' = [id EXCEPT ![c] = IF met THEN next_id - 1 ELSE next_id]
       /\ next_id' = IF met THEN next_id ELSE next_id + 1
  /\ place' = [place EXCEPT ![c] = "numbered"]
  /\ UNCHANGED <<timed, replies, closed, inbox, queue, tasks, socket>>

Number(c) ==
  /\ place[c] = "new"
  /\ id' = [id EXCEPT ![c] = next_id]
  /\ next_id' = next_id + 1
  /\ place' = [place EXCEPT ![c] = "numbered"]
  /\ UNCHANGED <<timed, replies, closed, inbox, queue, tasks, socket>>

\* Under the lock: nothing is filed on a closed map, and a slot whose frame the
\* writer can no longer take is withdrawn at once.
\* (Variant: not looking at closed.)
acceptsWhileWriting == writer
accepts == ~closed /\ writer

File(c) ==
  /\ place[c] = "numbered" /\ accepts
  /\ replies' = [i \in DOMAIN replies \cup {id[c]} |-> IF i = id[c] THEN c ELSE replies[i]]
  /\ queue' = Append(queue, c)
  /\ place' = [place EXCEPT ![c] = "waiting"]
  /\ UNCHANGED <<timed, id, next_id, closed, inbox, tasks, socket>>

Refused(c) ==
  /\ place[c] = "numbered" /\ ~accepts
  /\ place' = [place EXCEPT ![c] = "refused"]
  /\ UNCHANGED <<timed, id, next_id, replies, closed, inbox, queue, tasks, socket>>

Receive(c) ==
  /\ place[c] = "waiting" /\ inbox[c] # Nothing
  /\ place' = [place EXCEPT ![c] = IF inbox[c] = Lost THEN "failed" ELSE "answered"]
  /\ UNCHANGED <<timed, id, next_id, replies, closed, inbox, queue, tasks, socket>>

\* The timer fires on an empty oneshot, which goes with it; the slot is taken
\* back only when the lock is had, and a reply may come first.
TimerFires(c) ==
  /\ place[c] = "waiting" /\ timed[c] /\ inbox[c] = Nothing
  /\ place' = [place EXCEPT ![c] = "expired"]
  /\ UNCHANGED <<timed, id, next_id, replies, closed, inbox, queue, tasks, socket>>

takesSlotBack(c) == Without(replies, id[c])

TimedOut(c) ==
  /\ place[c] = "expired"
  /\ replies' = takesSlotBack(c)
  /\ place' = [place EXCEPT ![c] = "timed out"]
  /\ UNCHANGED <<timed, id, next_id, closed, inbox, queue, tasks, socket>>

\* The caller's future is dropped: an outer deadline, a cancelled fetch.
Dropped(c) ==
  /\ place[c] \in {"waiting", "expired"}
  /\ place' = [place EXCEPT ![c] = "dropped"]
  /\ UNCHANGED <<timed, id, next_id, replies, closed, inbox, queue, tasks, socket>>

\* Connection::close; Client::close calls it with calls still open.  A second
\* Close behind the first is never read and left out.
Close ==
  /\ writer
  /\ \A i \in 1 .. Len(queue) : queue[i] # CLOSE
  /\ queue' = Append(queue, CLOSE)
  /\ UNCHANGED <<place, timed, id, next_id, replies, closed, inbox, tasks, socket>>

-------------------------------------------------------------------------------
(* The tasks.                                                              *)

\* After Close or a failed send the task ends, and what is still queued goes.
WriterStops ==
  /\ writer' = FALSE
  /\ queue' = << >>

Write ==
  /\ writer /\ queue # << >>
  /\ \/ /\ Head(queue) # CLOSE
        /\ frames' = frames \cup {Head(queue)}
        /\ queue' = Tail(queue)
        /\ UNCHANGED writer
     \/ /\ Head(queue) = CLOSE
        /\ frames' = frames \cup {CLOSE}
        /\ WriterStops
  /\ UNCHANGED <<place, timed, id, next_id, replies, closed, inbox, reader, stream, served, hangup>>

WriteFails ==
  /\ writer /\ queue # << >> /\ hangup
  /\ WriterStops
  /\ UNCHANGED <<place, timed, id, next_id, replies, closed, inbox, reader, socket>>

\* A oneshot whose receiver is gone drops the value.
Deliver(c, value) ==
  inbox' = [inbox EXCEPT ![c] = IF place[c] = "waiting" THEN value ELSE @]

\* dispatch: the reply goes to the slot of its id, or nowhere.
Read ==
  /\ reader
  /\ \E c \in stream :
        /\ stream' = stream \ {c}
        /\ IF id[c] \in DOMAIN replies
           THEN /\ Deliver(replies[id[c]], c)
                /\ replies' = Without(replies, id[c])
           ELSE UNCHANGED <<inbox, replies>>
  /\ UNCHANGED <<place, timed, id, next_id, closed, queue, tasks, frames, served, hangup>>

\* (Variant: the task ends without a word to those who wait.)
failedNone(c) == FALSE
failed(c) == c \in Slots /\ place[c] = "waiting"

\* The stream ended, or held what the library cannot read: under the lock, mark
\* the map closed and fail every slot.
ReaderEnds ==
  /\ reader
  /\ reader' = FALSE
  /\ closed' = TRUE
  /\ inbox' = [c \in Calls |-> IF failed(c) THEN Lost ELSE inbox[c]]
  /\ replies' = << >>
  /\ UNCHANGED <<place, timed, id, next_id, queue, writer, socket>>

-------------------------------------------------------------------------------
(* The browser, or the proxy before it.                                    *)

Serves ==
  /\ ~hangup
  /\ \E c \in frames \ {CLOSE} :
        /\ served' = served \cup {c}
        /\ stream' = stream \cup {c}
        /\ frames' = frames \ {c}
  /\ UNCHANGED <<place, timed, id, next_id, replies, closed, inbox, queue, tasks, hangup>>

PeerHangsUp ==
  /\ ~hangup
  /\ hangup' = TRUE
  /\ UNCHANGED <<place, timed, id, next_id, replies, closed, inbox, queue, tasks,
                 frames, stream, served>>

CallStep(c) ==
  \/ Number(c) \/ File(c) \/ Refused(c) \/ Receive(c)
  \/ TimerFires(c) \/ TimedOut(c) \/ Dropped(c)

ConnectionNext ==
  \/ \E c \in Calls : CallStep(c)
  \/ Close \/ Write \/ WriteFails \/ Read \/ ReaderEnds
  \/ Serves \/ PeerHangsUp

ConnectionSpec == ConnectionInit /\ [][ConnectionNext]_connectionVars

\* What the other end may fail to do: answer what it was sent, hang up when it
\* is told to.
PeerKeepsUp == WF_connectionVars(Serves) /\ WF_connectionVars(PeerHangsUp /\ CLOSE \in frames)

\* What the runtime keeps running: a caller with its timer, the writer task and
\* the reader task, whose read returns once the other end has hung up.
CallRuns(c) == Number(c) \/ File(c) \/ Refused(c) \/ Receive(c) \/ TimerFires(c) \/ TimedOut(c)
WriterRuns == Write \/ WriteFails
ReaderRuns == Read \/ (ReaderEnds /\ hangup)

-------------------------------------------------------------------------------
(* Properties.                                                             *)

CallsOK ==
  /\ place \in [Calls -> {"new", "numbered", "waiting", "expired"} \cup Ended]
  /\ timed \in [Calls -> BOOLEAN]
  /\ id \in [Calls -> Nat]
  /\ next_id \in Nat
  /\ inbox \in [Calls -> {Nothing, Lost} \cup Calls]

MapOK ==
  /\ DOMAIN replies \subseteq Nat
  /\ \A i \in DOMAIN replies : replies[i] \in Calls /\ id[replies[i]] = i
  /\ reader \in BOOLEAN
  /\ closed = ~reader

WireOK ==
  /\ queue \in Seq(Calls \cup {CLOSE})
  /\ frames \subseteq Calls \cup {CLOSE}
  /\ served \subseteq Calls
  /\ stream \subseteq served
  /\ writer \in BOOLEAN /\ hangup \in BOOLEAN
  /\ ~writer => queue = << >>

\* Every variable keeps its type; a slot is filed under its own call's id,
\* and nothing stays queued for a writer that has gone (ws_client.rs:227, 317).
ConnectionTypeOK == CallsOK /\ MapOK /\ WireOK

\* A caller gets the answer to its own request, whatever order ids were taken,
\* frames queued and replies sent in (ws_client.rs:288).
AnswersAreOwn == \A c \in Calls : inbox[c] \in {Nothing, Lost, c}

\* Whoever waits can still be woken: its slot is in the map, or its oneshot is
\* filled; on a closed connection nobody waits (ws_client.rs:215, "On close,
\* fail all pending requests so callers stop waiting").
NobodyIsStranded ==
  \A c \in Calls : place[c] = "waiting" /\ inbox[c] = Nothing
                     => ~closed /\ id[c] \in DOMAIN replies /\ replies[id[c]] = c

\* A slot outlives its call only if the call was dropped from outside; one that
\* timed out by itself took it back (ws_client.rs:269, "this removes the pending
\* reply slot on timeout").
OnlyDroppedCallsLeaveSlots ==
  \A c \in Slots : place[c] \in {"waiting", "expired", "dropped"}

\* Every call that took its number ends if the other end answers what it is sent
\* and hangs up when told to: also one queued behind a Close frame
\* (ws_client.rs:388).
EveryCallEnds == PeerKeepsUp => \A c \in Calls : place[c] = "numbered" ~> place[c] \in Ended

\* The connection implements RpcChannel: a call's fate is settled when its
\* oneshot is filled or its receiver goes, not when the caller runs again.
statusOf(c) ==
  CASE place[c] \in {"new", "numbered"} -> "new"
    [] place[c] = "refused" -> "refused"
    [] inbox[c] = c -> "answered"
    [] place[c] = "waiting" /\ inbox[c] = Nothing -> "open"
    [] OTHER -> "unanswered"

Channel == INSTANCE RpcChannel WITH status <- [c \in Calls |-> statusOf(c)],
                                    served <- served, up <- ~closed

\* Refused calls never run, open ones end once, going down ends them all
\* (ws_client.rs:311).
ImplementsChannel == Channel!Spec
===============================================================================
