------------------------------ MODULE DriverProofs ------------------------------
(***************************************************************************)
(* Proofs about the driver's side of CDP: CdpConnection, for any set of    *)
(* calls, and WindowAnchor, for any number of overlapping closes, any set  *)
(* of targets and any bound on the lapses.                                 *)
(*                                                                         *)
(* CdpConnection.  A reply finds its own call because calls that have      *)
(* numbered differ in their ids (IdsDiffer) and a slot is filed under its  *)
(* own call's id (part of ConnectionTypeOK).  NobodyIsStranded is          *)
(* inductive with them: a slot leaves the map only together with a filled  *)
(* oneshot or a call that no longer waits.  The refinement needs besides   *)
(* that each frame is in one place (EachFrameOnce) and belongs to a call   *)
(* that was filed (FramesOfFiledCalls), so that the browser serves it once *)
(* and never one that was refused.                                         *)
(*                                                                         *)
(* WindowAnchor.  LastPageSurvives follows from AnAnchorIsSpared: the page *)
(* a close removes is doomed, the spared anchor is not, so it is still     *)
(* there afterwards.  AnAnchorIsSpared is not inductive alone.  A close is *)
(* guarded by the anchor it saw, and that anchor must not be what another  *)
(* is about to remove: no page at the anchor's url is ever the target of a *)
(* close under way, because it begins on a page elsewhere and no page      *)
(* moves to that url after it was created (TargetsAreNotAnchors); and a    *)
(* fresh anchor cannot be a target either, because targets were handed out *)
(* before (TargetsAreUsed).                                                *)
(***************************************************************************)
EXTENDS CdpConnection, WindowAnchor, TLAPS

-------------------------------------------------------------------------------
(* The connection.                                                         *)

Filed == {"waiting", "expired", "answered", "failed", "timed out", "dropped"}

IdsDiffer ==
  \A c \in Calls : place[c] # "new" =>
    /\ id[c] < next_id
    /\ \A d \in Calls \ {c} : place[d] # "new" => id[d] # id[c]

FramesOfFiledCalls ==
  \A c \in Calls : (c \in frames \cup served \/ \E k \in DOMAIN queue : queue[k] = c)
                     => place[c] \in Filed

EachFrameOnce ==
  /\ frames \cap served = {}
  /\ \A k \in DOMAIN queue : queue[k] # CLOSE => queue[k] \notin frames \cup served
  /\ \A k, l \in DOMAIN queue : k # l /\ queue[k] = queue[l] => queue[k] = CLOSE

\* A call whose oneshot is filled is no longer in the map.
AnsweredOutOfMap == \A c \in Slots : inbox[c] = Nothing

AnswersWereServed ==
  \A c \in Calls : /\ inbox[c] = c => c \in served
                   /\ place[c] \notin Filed => inbox[c] = Nothing
                   /\ place[c] = "answered" => inbox[c] = c
                   /\ place[c] = "failed" => inbox[c] = Lost

ConnectionInv ==
  /\ ConnectionTypeOK /\ IdsDiffer /\ FramesOfFiledCalls /\ EachFrameOnce
  /\ AnswersAreOwn /\ NobodyIsStranded /\ OnlyDroppedCallsLeaveSlots
  /\ AnswersWereServed /\ AnsweredOutOfMap

\* fetch_add stays a natural number (ws_client.rs:288).
LEMMA NextNatural == \A n \in Nat : n + 1 \in Nat
OBVIOUS

\* What a call keeps for itself in send_inner (ws_client.rs:281) keeps its type.
LEMMA CallsStep == CallsOK /\ MapOK /\ WireOK /\ [ConnectionNext]_connectionVars => CallsOK'
<1> SUFFICES ASSUME CallsOK, MapOK, WireOK, [ConnectionNext]_connectionVars PROVE CallsOK' OBVIOUS
<1> USE DEF CallsOK, Ended, socket, tasks
<1>1. ASSUME NEW c \in Calls, CallStep(c) PROVE CallsOK'
  <2>1. CASE Number(c)
    <3>1. next_id' \in Nat
      <4>1. next_id \in Nat /\ next_id' = next_id + 1 BY <2>1 DEF Number
      <4> QED BY Zenon, <4>1, NextNatural
    <3>0. id' \in [Calls -> Nat] BY Zenon, <2>1 DEF Number
    <3>2. place' \in [Calls -> {"new", "numbered", "waiting", "expired"} \cup Ended]
      BY <2>1 DEF Number
    <3> QED BY <2>1, <3>0, <3>1, <3>2 DEF Number
  <2>2. CASE File(c) BY <2>2 DEF File
  <2>3. CASE Refused(c) BY <2>3 DEF Refused
  <2>4. CASE Receive(c) BY <2>4 DEF Receive
  <2>5. CASE TimerFires(c) BY <2>5 DEF TimerFires
  <2>6. CASE TimedOut(c) BY <2>6 DEF TimedOut
  <2>7. CASE Dropped(c) BY <2>7 DEF Dropped
  <2> QED BY <1>1, <2>1, <2>2, <2>3, <2>4, <2>5, <2>6, <2>7 DEF CallStep
<1>2. CASE Read
  <2>1. PICK c \in stream : IF id[c] \in DOMAIN replies
                            THEN Deliver(replies[id[c]], c)
                            ELSE UNCHANGED inbox
    BY <1>2 DEF Read
  <2>2. c \in Calls BY DEF WireOK
  <2>3. inbox' \in [Calls -> {Nothing, Lost} \cup Calls]
    <3>1. CASE id[c] \in DOMAIN replies
      <4> DEFINE d == replies[id[c]]
      <4>1. d \in Calls BY <3>1 DEF MapOK
      <4>2. inbox' = [inbox EXCEPT ![d] = IF place[d] = "waiting" THEN c ELSE inbox[d]]
        BY <2>1, <3>1 DEF Deliver
      <4> HIDE DEF d
      <4> QED BY <2>2, <4>1, <4>2
    <3>2. CASE id[c] \notin DOMAIN replies BY <2>1, <3>2
    <3> QED BY <3>1, <3>2
  <2> QED BY <1>2, <2>3 DEF Read
<1>3. CASE ReaderEnds BY <1>3 DEF ReaderEnds
<1>4. CASE Close \/ Write \/ WriteFails \/ Serves \/ PeerHangsUp \/ UNCHANGED connectionVars
  BY <1>4 DEF Close, Write, WriteFails, Serves, PeerHangsUp, connectionVars
<1> QED BY <1>1, <1>2, <1>3, <1>4 DEF ConnectionNext

\* The map under the lock (ws_client.rs:309-325) keeps its type, and every slot
\* in it is filed under its own call's id: who has a slot has numbered already.
LEMMA MapStep ==
  ASSUME CallsOK, MapOK, OnlyDroppedCallsLeaveSlots, [ConnectionNext]_connectionVars PROVE MapOK'
<1> USE DEF MapOK, socket, tasks
<1>1. ASSUME NEW c \in Calls, CallStep(c) PROVE MapOK'
  <2>1. CASE Number(c)
    <3>1. c \notin Slots BY <2>1 DEF Number, OnlyDroppedCallsLeaveSlots
    <3>2. \A i \in DOMAIN replies : replies[i] # c BY <3>1 DEF Slots
    <3> QED BY <2>1, <3>2 DEF Number, CallsOK
  <2>2. CASE File(c) BY <2>2 DEF File, CallsOK
  <2>3. CASE Refused(c) BY <2>3 DEF Refused
  <2>4. CASE Receive(c) BY <2>4 DEF Receive
  <2>5. CASE TimerFires(c) BY <2>5 DEF TimerFires
  <2>6. CASE TimedOut(c) BY <2>6 DEF TimedOut, takesSlotBack, Without
  <2>7. CASE Dropped(c) BY <2>7 DEF Dropped
  <2> QED BY <1>1, <2>1, <2>2, <2>3, <2>4, <2>5, <2>6, <2>7 DEF CallStep
<1>2. CASE Read BY <1>2 DEF Read, Without
<1>3. CASE ReaderEnds
  <2>1. DOMAIN replies' = {} BY <1>3 DEF ReaderEnds
  <2> QED BY <1>3, <2>1 DEF ReaderEnds
<1>4. CASE Close \/ Write \/ WriteFails \/ Serves \/ PeerHangsUp \/ UNCHANGED connectionVars
  BY <1>4 DEF Close, Write, WriteFails, Serves, PeerHangsUp, connectionVars
<1> QED BY <1>1, <1>2, <1>3, <1>4 DEF ConnectionNext

\* The frames between callers, writer, socket and browser keep their type; a
\* writer that has gone leaves nothing queued (ws_client.rs:227).
LEMMA WireStep == WireOK /\ [ConnectionNext]_connectionVars => WireOK'
<1> SUFFICES ASSUME WireOK, [ConnectionNext]_connectionVars PROVE WireOK' OBVIOUS
<1> USE DEF WireOK, socket, tasks
<1>0. << >> \in Seq(Calls \cup {CLOSE}) OBVIOUS
<1>1. ASSUME NEW c \in Calls, CallStep(c) PROVE WireOK'
  <2>1. CASE File(c) BY <2>1 DEF File, accepts
  <2>2. CASE ~File(c)
    BY <1>1, <2>2 DEF CallStep, Number, Refused, Receive, TimerFires, TimedOut, Dropped
  <2> QED BY <2>1, <2>2
<1>2. CASE Close BY <1>2 DEF Close
<1>3. CASE Write
  <2>1. CASE Head(queue) # CLOSE
    <3>1. queue' = Tail(queue) /\ frames' = frames \cup {Head(queue)} /\ writer' = writer
      BY <1>3, <2>1 DEF Write
    <3>2. Head(queue) \in Calls \cup {CLOSE} /\ Tail(queue) \in Seq(Calls \cup {CLOSE})
      BY <1>3 DEF Write
    <3> QED BY <1>3, <3>1, <3>2 DEF Write
  <2>2. CASE Head(queue) = CLOSE 
    <3>1. queue' = << >> /\ frames' = frames \cup {CLOSE} /\ writer' = FALSE
      BY <1>3, <2>2 DEF Write, WriterStops
    <3> QED BY <1>0, <1>3, <3>1 DEF Write
  <2> QED BY <2>1, <2>2
<1>4. CASE WriteFails BY <1>0, <1>4 DEF WriteFails, WriterStops
<1>5. CASE Read BY <1>5 DEF Read
<1>6. CASE ReaderEnds BY <1>6 DEF ReaderEnds
<1>7. CASE Serves BY <1>7 DEF Serves
<1>8. CASE PeerHangsUp BY <1>8 DEF PeerHangsUp
<1>9. CASE UNCHANGED connectionVars BY <1>9 DEF connectionVars
<1> QED BY <1>1, <1>2, <1>3, <1>4, <1>5, <1>6, <1>7, <1>8, <1>9 DEF ConnectionNext

\* The steps that take no id, file no call and touch neither map nor oneshots
\* (ws_client.rs:226-239 and the other end).
Elsewhere == Close \/ Write \/ WriteFails \/ Serves \/ PeerHangsUp \/ UNCHANGED connectionVars

LEMMA ElsewhereKeeps ==
  Elsewhere => UNCHANGED <<place, timed, id, next_id, replies, closed, inbox, reader>>
BY DEF Elsewhere, Close, Write, WriteFails, Serves, PeerHangsUp, connectionVars, tasks, socket

\* A slot is found under the id of the call it belongs to (ws_client.rs:317).
LEMMA SlotOf ==
  ASSUME MapOK, NEW c \in Slots
  PROVE  c \in Calls /\ id[c] \in DOMAIN replies /\ replies[id[c]] = c
BY DEF MapOK, Slots

\* No two calls that have numbered hold one id (ws_client.rs:288).
LEMMA IdsStep == CallsOK /\ IdsDiffer /\ [ConnectionNext]_connectionVars => IdsDiffer'
<1> SUFFICES ASSUME CallsOK, IdsDiffer, [ConnectionNext]_connectionVars PROVE IdsDiffer' OBVIOUS
<1>1. ASSUME NEW c \in Calls, CallStep(c) PROVE IdsDiffer'
  <2>1. CASE Number(c)
    <3>1. /\ id' = [id EXCEPT ![c] = next_id] /\ next_id' = next_id + 1
          /\ place' = [place EXCEPT ![c] = "numbered"]
      BY <2>1 DEF Number
    <3>2. id \in [Calls -> Nat] /\ next_id \in Nat /\ DOMAIN place = Calls BY DEF CallsOK
    <3> QED BY <3>1, <3>2 DEF IdsDiffer
  <2>2. CASE ~Number(c)
    <3>1. id' = id /\ next_id' = next_id
      BY <1>1, <2>2 DEF CallStep, File, Refused, Receive, TimerFires, TimedOut, Dropped
    <3>2. \A d \in Calls : place[d] = "new" => place'[d] = "new"
      BY <1>1, <2>2
      DEF CallStep, File, Refused, Receive, TimerFires, TimedOut, Dropped, CallsOK
    <3>3. \A d \in Calls : place'[d] # "new" => place[d] # "new" BY <3>2
    <3> QED BY <3>1, <3>3 DEF IdsDiffer
  <2> QED BY <2>1, <2>2
<1>2. CASE Read \/ ReaderEnds BY <1>2 DEF Read, ReaderEnds, IdsDiffer
<1>3. CASE Elsewhere BY <1>3, ElsewhereKeeps DEF IdsDiffer
<1> QED BY <1>1, <1>2, <1>3 DEF ConnectionNext, Elsewhere

\* What the map and the oneshots say of each other survives every step of a call
\* (ws_client.rs:281-344).
LEMMA MapCallStep ==
  ASSUME ConnectionInv, NEW c \in Calls, CallStep(c)
  PROVE  /\ AnswersAreOwn' /\ NobodyIsStranded' /\ OnlyDroppedCallsLeaveSlots'
         /\ AnsweredOutOfMap' /\ AnswersWereServed'
<1>a. /\ AnswersAreOwn /\ NobodyIsStranded /\ OnlyDroppedCallsLeaveSlots
      /\ AnsweredOutOfMap /\ AnswersWereServed
  BY DEF ConnectionInv
<1>0. /\ place \in [Calls -> {"new", "numbered", "waiting", "expired"} \cup Ended]
      /\ id \in [Calls -> Nat]
      /\ \A d \in Slots : d \in Calls /\ id[d] \in DOMAIN replies /\ replies[id[d]] = d
      /\ \A d \in Calls : place[d] # "new" /\ d # c /\ place[c] # "new" => id[d] # id[c]
  BY SlotOf DEF ConnectionInv, ConnectionTypeOK, CallsOK, IdsDiffer
<1>1. CASE Number(c) \/ Refused(c) \/ Receive(c) \/ TimerFires(c) \/ Dropped(c)
  <2>1. UNCHANGED <<replies, closed, inbox, served>> /\ Slots' = Slots
    BY <1>1 DEF Number, Refused, Receive, TimerFires, Dropped, Slots, socket
  <2>2. \A d \in Calls : d # c => place'[d] = place[d] /\ id'[d] = id[d]
    BY <1>0, <1>1 DEF Number, Refused, Receive, TimerFires, Dropped
  <2>3. CASE Number(c) \/ Refused(c)
    <3>1. place'[c] \in {"numbered", "refused"} /\ place[c] \in {"new", "numbered"}
      BY <1>0, <2>3 DEF Number, Refused
    <3>11. AnswersAreOwn' BY <1>a, <1>0, <2>1, <2>2, <3>1 DEF AnswersAreOwn
    <3>12. NobodyIsStranded' BY <1>a, <1>0, <2>1, <2>2, <3>1 DEF NobodyIsStranded
    <3>13. OnlyDroppedCallsLeaveSlots' BY <1>a, <1>0, <2>1, <2>2, <3>1 DEF OnlyDroppedCallsLeaveSlots
    <3>14. AnsweredOutOfMap' BY <1>a, <1>0, <2>1, <2>2, <3>1 DEF AnsweredOutOfMap
    <3>15. AnswersWereServed' BY <1>a, <2>1, <2>2, <3>1 DEF AnswersWereServed, Filed
    <3> QED BY <3>11, <3>12, <3>13, <3>14, <3>15
  <2>4. CASE Receive(c)
    <3>1. /\ id' = id /\ inbox[c] # Nothing /\ place[c] = "waiting"
          /\ place'[c] = IF inbox[c] = Lost THEN "failed" ELSE "answered"
      BY <1>0, <2>4 DEF Receive
    <3>2. c \notin Slots BY <1>a, <3>1 DEF AnsweredOutOfMap
    <3>3. inbox[c] # Lost => inbox[c] = c BY <1>a, <3>1 DEF AnswersAreOwn
    <3>11. AnswersAreOwn' BY <1>a, <1>0, <2>1, <2>2, <3>1, <3>2, <3>3 DEF AnswersAreOwn
    <3>12. NobodyIsStranded' BY <1>a, <1>0, <2>1, <2>2, <3>1, <3>2, <3>3 DEF NobodyIsStranded
    <3>13. OnlyDroppedCallsLeaveSlots' BY <1>a, <1>0, <2>1, <2>2, <3>1, <3>2, <3>3 DEF OnlyDroppedCallsLeaveSlots
    <3>14. AnsweredOutOfMap' BY <1>a, <1>0, <2>1, <2>2, <3>1, <3>2, <3>3 DEF AnsweredOutOfMap
    <3>4. \/ place'[c] = "failed" /\ inbox[c] = Lost
          \/ place'[c] = "answered" /\ inbox[c] = c
      BY <3>1, <3>3
    <3>15. AnswersWereServed' BY <1>a, <2>1, <2>2, <3>4 DEF AnswersWereServed, Filed
    <3> QED BY <3>11, <3>12, <3>13, <3>14, <3>15
  <2>5. CASE TimerFires(c) \/ Dropped(c)
    <3>1. id' = id /\ place[c] \in {"waiting", "expired"} /\ place'[c] \in {"expired", "dropped"}
      BY <1>0, <2>5 DEF TimerFires, Dropped
    <3>11. AnswersAreOwn' BY <1>a, <1>0, <2>1, <2>2, <3>1 DEF AnswersAreOwn
    <3>12. NobodyIsStranded' BY <1>a, <1>0, <2>1, <2>2, <3>1 DEF NobodyIsStranded
    <3>13. OnlyDroppedCallsLeaveSlots' BY <1>a, <1>0, <2>1, <2>2, <3>1 DEF OnlyDroppedCallsLeaveSlots
    <3>14. AnsweredOutOfMap' BY <1>a, <1>0, <2>1, <2>2, <3>1 DEF AnsweredOutOfMap
    <3>15. AnswersWereServed' BY <1>a, <2>1, <2>2, <3>1 DEF AnswersWereServed, Filed
    <3> QED BY <3>11, <3>12, <3>13, <3>14, <3>15
  <2> QED BY <1>1, <2>3, <2>4, <2>5
<1>2. CASE File(c)
  <2>1. /\ place[c] = "numbered" /\ ~closed
        /\ place' = [place EXCEPT ![c] = "waiting"]
        /\ DOMAIN replies' = DOMAIN replies \cup {id[c]}
        /\ replies'[id[c]] = c
        /\ \A i \in DOMAIN replies : i # id[c] => replies'[i] = replies[i]
        /\ UNCHANGED <<id, closed, inbox, served>>
    BY <1>2 DEF File, accepts, socket
  <2>2. Slots' \subseteq Slots \cup {c} BY <2>1 DEF Slots
  <2>3. \A d \in Calls : d # c => place'[d] = place[d] BY <1>0, <2>1
  <2>4. place'[c] = "waiting" BY <1>0, <2>1
  <2>5. inbox[c] = Nothing BY <1>a, <2>1 DEF AnswersWereServed, Filed
  <2>11. AnswersAreOwn' BY <1>a, <1>0, <2>1, <2>2, <2>3, <2>4, <2>5 DEF AnswersAreOwn
  <2>12. NobodyIsStranded' BY <1>a, <1>0, <2>1, <2>2, <2>3, <2>4, <2>5 DEF NobodyIsStranded
  <2>13. OnlyDroppedCallsLeaveSlots' BY <1>a, <1>0, <2>1, <2>2, <2>3, <2>4, <2>5 DEF OnlyDroppedCallsLeaveSlots
  <2>14. AnsweredOutOfMap' BY <1>a, <1>0, <2>1, <2>2, <2>3, <2>4, <2>5 DEF AnsweredOutOfMap
  <2>15. AnswersWereServed' BY <1>a, <1>0, <2>1, <2>2, <2>3, <2>4, <2>5 DEF AnswersWereServed, Filed
  <2> QED BY <2>11, <2>12, <2>13, <2>14, <2>15
<1>3. CASE TimedOut(c)
  <2>1. /\ place[c] = "expired"
        /\ place' = [place EXCEPT ![c] = "timed out"]
        /\ DOMAIN replies' = DOMAIN replies \ {id[c]}
        /\ \A i \in DOMAIN replies' : replies'[i] = replies[i]
        /\ UNCHANGED <<id, closed, inbox, served>>
    BY <1>3 DEF TimedOut, takesSlotBack, Without, socket
  <2>2. Slots' \subseteq Slots \ {c}
    <3>1. \A i \in DOMAIN replies : id[replies[i]] = i
      BY DEF ConnectionInv, ConnectionTypeOK, MapOK
    <3> QED BY <2>1, <3>1 DEF Slots
  <2>3. \A d \in Calls : d # c => place'[d] = place[d] BY <1>0, <2>1
  <2>4. place'[c] = "timed out" BY <1>0, <2>1
  <2>11. AnswersAreOwn' BY <1>a, <1>0, <2>1, <2>2, <2>3, <2>4 DEF AnswersAreOwn
  <2>12. NobodyIsStranded' BY <1>a, <1>0, <2>1, <2>2, <2>3, <2>4 DEF NobodyIsStranded
  <2>13. OnlyDroppedCallsLeaveSlots' BY <1>a, <1>0, <2>1, <2>2, <2>3, <2>4 DEF OnlyDroppedCallsLeaveSlots
  <2>14. AnsweredOutOfMap' BY <1>a, <1>0, <2>1, <2>2, <2>3, <2>4 DEF AnsweredOutOfMap
  <2>15. AnswersWereServed' BY <1>a, <1>0, <2>1, <2>2, <2>3, <2>4 DEF AnswersWereServed, Filed
  <2> QED BY <2>11, <2>12, <2>13, <2>14, <2>15
<1> QED BY <1>1, <1>2, <1>3 DEF CallStep

\* A reply wakes the call it belongs to and takes the slot with it
\* (ws_client.rs:409).
LEMMA MapReadStep ==
  ASSUME ConnectionInv, Read
  PROVE  /\ AnswersAreOwn' /\ NobodyIsStranded' /\ OnlyDroppedCallsLeaveSlots'
         /\ AnsweredOutOfMap' /\ AnswersWereServed'
<1>a. /\ AnswersAreOwn /\ NobodyIsStranded /\ OnlyDroppedCallsLeaveSlots
      /\ AnsweredOutOfMap /\ AnswersWereServed
  BY DEF ConnectionInv
<1>0. \A d \in Slots : d \in Calls /\ id[d] \in DOMAIN replies /\ replies[id[d]] = d
  BY SlotOf DEF ConnectionInv, ConnectionTypeOK
<1>1. PICK c \in stream :
        IF id[c] \in DOMAIN replies
        THEN Deliver(replies[id[c]], c) /\ replies' = Without(replies, id[c])
        ELSE UNCHANGED <<inbox, replies>>
  BY DEF Read
<1>2. UNCHANGED <<place, id, closed, served>> BY DEF Read
<1>3. c \in Calls /\ c \in served BY DEF ConnectionInv, ConnectionTypeOK, WireOK
<1>4. CASE id[c] \notin DOMAIN replies
  <2>1. UNCHANGED <<inbox, replies>> BY <1>1, <1>4
  <2> QED BY <1>a, <1>2, <2>1
          DEF AnswersAreOwn, NobodyIsStranded, OnlyDroppedCallsLeaveSlots, Slots,
              AnsweredOutOfMap, AnswersWereServed
<1>5. CASE id[c] \in DOMAIN replies
  <2>1. replies[id[c]] \in Slots /\ replies[id[c]] \in Calls /\ id[replies[id[c]]] = id[c]
    BY <1>5 DEF Slots, ConnectionInv, ConnectionTypeOK, MapOK
  <2>2. replies[id[c]] = c
    <3>1. place[replies[id[c]]] # "new" BY <1>a, <2>1 DEF OnlyDroppedCallsLeaveSlots
    <3>2. place[c] # "new" BY <1>3 DEF ConnectionInv, FramesOfFiledCalls, Filed
    <3> QED BY <1>3, <2>1, <3>1, <3>2 DEF ConnectionInv, IdsDiffer
  <2>3. inbox' = [inbox EXCEPT ![c] = IF place[c] = "waiting" THEN c ELSE inbox[c]]
    BY <1>1, <1>5, <2>2 DEF Deliver
  <2>4. \A d \in Calls : d # c => inbox'[d] = inbox[d] BY <2>3
  <2>5. inbox'[c] = IF place[c] = "waiting" THEN c ELSE inbox[c]
    BY <1>3, <2>3 DEF ConnectionInv, ConnectionTypeOK, CallsOK
  <2>6. /\ DOMAIN replies' = DOMAIN replies \ {id[c]}
        /\ \A i \in DOMAIN replies' : replies'[i] = replies[i]
    BY <1>1, <1>5 DEF Without
  <2>7. Slots' \subseteq Slots \ {c}
    <3>1. \A i \in DOMAIN replies : id[replies[i]] = i
      BY DEF ConnectionInv, ConnectionTypeOK, MapOK
    <3> QED BY <2>6, <3>1 DEF Slots
  <2>8. c # Nothing /\ c # Lost /\ Nothing # Lost BY <1>3, CallsAssumption
  <2>11. AnswersAreOwn' BY <1>a, <2>4, <2>5 DEF AnswersAreOwn
  <2>12. NobodyIsStranded'
    BY <1>a, <1>0, <1>2, <2>2, <2>4, <2>5, <2>6, <2>8 DEF NobodyIsStranded
  <2>13. OnlyDroppedCallsLeaveSlots' BY <1>a, <1>2, <2>7 DEF OnlyDroppedCallsLeaveSlots
  <2>14. AnsweredOutOfMap' BY <1>a, <1>0, <2>4, <2>7 DEF AnsweredOutOfMap
  <2>15. AnswersWereServed'
    BY <1>a, <1>2, <1>3, <2>4, <2>5 DEF AnswersWereServed, Filed
  <2> QED BY <2>11, <2>12, <2>13, <2>14, <2>15
<1> QED BY <1>4, <1>5

\* When the socket ends, every slot left is failed and nobody waits
\* (ws_client.rs:215).
LEMMA MapEndStep ==
  ASSUME ConnectionInv, ReaderEnds
  PROVE  /\ AnswersAreOwn' /\ NobodyIsStranded' /\ OnlyDroppedCallsLeaveSlots'
         /\ AnsweredOutOfMap' /\ AnswersWereServed'
<1>a. /\ AnswersAreOwn /\ NobodyIsStranded /\ AnswersWereServed BY DEF ConnectionInv
<1>1. Slots' = {} BY DEF ReaderEnds, Slots
<1>2. /\ UNCHANGED <<place, id, served>>
      /\ \A c \in Calls : inbox'[c] = IF c \in Slots /\ place[c] = "waiting" THEN Lost ELSE inbox[c]
  BY DEF ReaderEnds, failed, socket
<1>3. \A c \in Calls : place[c] = "waiting" /\ inbox[c] = Nothing => c \in Slots
  BY <1>a DEF NobodyIsStranded, Slots
<1>4. \A c \in Calls : c # Lost /\ Nothing # Lost BY CallsAssumption
<1>5. \A c \in Slots : inbox[c] = Nothing BY DEF ConnectionInv, AnsweredOutOfMap
<1>11. AnswersAreOwn' BY <1>a, <1>2 DEF AnswersAreOwn
<1>12. NobodyIsStranded' BY <1>2, <1>3, <1>4 DEF NobodyIsStranded
<1>13. OnlyDroppedCallsLeaveSlots' BY <1>1 DEF OnlyDroppedCallsLeaveSlots
<1>14. AnsweredOutOfMap' BY <1>1 DEF AnsweredOutOfMap
<1>15. AnswersWereServed' BY <1>a, <1>2, <1>4, <1>5 DEF AnswersWereServed, Filed
<1> QED BY <1>11, <1>12, <1>13, <1>14, <1>15

\* What is queued behind a frame stays, in order (ws_client.rs:318).
LEMMA AppendElements ==
  ASSUME NEW S, NEW q \in Seq(S), NEW x \in S
  PROVE  \A k \in DOMAIN Append(q, x) :
           Append(q, x)[k] = x \/ (k \in DOMAIN q /\ Append(q, x)[k] = q[k])
<1> DEFINE a == Append(q, x)
<1>1. /\ Len(a) = Len(q) + 1 /\ DOMAIN a = 1 .. Len(a)
      /\ \A i \in 1 .. Len(q) : a[i] = q[i]
      /\ a[Len(q) + 1] = x
  OBVIOUS
<1>2. Len(q) \in Nat /\ DOMAIN q = 1 .. Len(q) OBVIOUS
<1> HIDE DEF a
<1>3. \A k \in DOMAIN a : a[k] = x \/ (k \in DOMAIN q /\ a[k] = q[k])
  <2> TAKE k \in DOMAIN a
  <2>1. CASE k = Len(q) + 1 BY <1>1, <2>1
  <2>2. CASE k # Len(q) + 1
    <3>1. k \in 1 .. Len(q) BY <1>1, <1>2, <2>2
    <3> QED BY <1>1, <1>2, <3>1
  <2> QED BY <2>1, <2>2
<1> QED BY <1>3 DEF a

LEMMA TailElements ==
  ASSUME NEW S, NEW q \in Seq(S), q # << >>
  PROVE  /\ Head(q) = q[1] /\ 1 \in DOMAIN q
         /\ \A k \in DOMAIN Tail(q) :
              k + 1 \in DOMAIN q /\ k + 1 # 1 /\ Tail(q)[k] = q[k + 1]
OBVIOUS

\* A frame is of a call that was filed: refused calls have none (ws_client.rs:317).
LEMMA FramesStep ==
  ASSUME ConnectionTypeOK, FramesOfFiledCalls, [ConnectionNext]_connectionVars PROVE FramesOfFiledCalls'
<1>0. CallsOK /\ WireOK BY DEF ConnectionTypeOK
<1>1. ASSUME NEW c \in Calls, CallStep(c) PROVE FramesOfFiledCalls'
  <2>1. UNCHANGED <<frames, served>>
    BY <1>1 DEF CallStep, Number, File, Refused, Receive, TimerFires, TimedOut, Dropped, socket
  <2>2. \A d \in Calls : place[d] \in Filed => place'[d] \in Filed
    BY <1>0, <1>1 DEF CallStep, Number, File, Refused, Receive, TimerFires, TimedOut, Dropped,
                      CallsOK, Filed
  <2>3. CASE File(c)
    <3>1. queue' = Append(queue, c) /\ place'[c] \in Filed
      BY <1>0, <2>3 DEF File, CallsOK, Filed
    <3>2. \A k \in DOMAIN queue' : queue'[k] = c \/ (k \in DOMAIN queue /\ queue'[k] = queue[k])
      <4>1. queue \in Seq(Calls \cup {CLOSE}) /\ c \in Calls \cup {CLOSE}
        BY <1>0 DEF WireOK
      <4> QED BY <3>1, <4>1, AppendElements
    <3> QED BY <2>1, <2>2, <3>1, <3>2 DEF FramesOfFiledCalls
  <2>4. CASE ~File(c)
    <3>1. queue' = queue
      BY <1>1, <2>4 DEF CallStep, Number, Refused, Receive, TimerFires, TimedOut, Dropped
    <3> QED BY <2>1, <2>2, <3>1 DEF FramesOfFiledCalls
  <2> QED BY <2>3, <2>4
<1>2. CASE Close
  <2>1. queue' = Append(queue, CLOSE) /\ UNCHANGED <<place, frames, served>>
    BY <1>2 DEF Close, socket
  <2>2. \A k \in DOMAIN queue' : queue'[k] = CLOSE \/ (k \in DOMAIN queue /\ queue'[k] = queue[k])
    <3>1. queue \in Seq(Calls \cup {CLOSE}) /\ CLOSE \in Calls \cup {CLOSE}
      BY <1>0 DEF WireOK
    <3> QED BY <2>1, <3>1, AppendElements
  <2>3. CLOSE \notin Calls BY CallsAssumption
  <2> QED BY <2>1, <2>2, <2>3 DEF FramesOfFiledCalls
<1>3. CASE Write
  <2>1. /\ queue # << >> /\ UNCHANGED <<place, served>>
        /\ frames' = frames \cup {Head(queue)}
        /\ queue' = Tail(queue) \/ queue' = << >>
    BY <1>3 DEF Write, WriterStops
  <2>2. /\ Head(queue) = queue[1] /\ 1 \in DOMAIN queue
        /\ \A k \in DOMAIN Tail(queue) :
             k + 1 \in DOMAIN queue /\ k + 1 # 1 /\ Tail(queue)[k] = queue[k + 1]
    <3>1. queue \in Seq(Calls \cup {CLOSE}) BY <1>0 DEF WireOK
    <3> QED BY <2>1, <3>1, TailElements
  <2>3. \A k \in DOMAIN queue' : k + 1 \in DOMAIN queue /\ queue'[k] = queue[k + 1]
    BY <2>1, <2>2
  <2> QED BY <2>1, <2>2, <2>3 DEF FramesOfFiledCalls
<1>4. CASE WriteFails BY <1>4 DEF WriteFails, WriterStops, FramesOfFiledCalls, socket
<1>5. CASE Read BY <1>5 DEF Read, FramesOfFiledCalls
<1>6. CASE ReaderEnds BY <1>6 DEF ReaderEnds, FramesOfFiledCalls, socket
<1>7. CASE Serves BY <1>7 DEF Serves, FramesOfFiledCalls
<1>8. CASE PeerHangsUp BY <1>8 DEF PeerHangsUp, FramesOfFiledCalls
<1>9. CASE UNCHANGED connectionVars BY <1>9 DEF connectionVars, FramesOfFiledCalls
<1> QED BY <1>1, <1>2, <1>3, <1>4, <1>5, <1>6, <1>7, <1>8, <1>9 DEF ConnectionNext

\* A frame is queued, on the socket or served, and in one of them once
\* (ws_client.rs:226).
LEMMA OnceStep ==
  ASSUME ConnectionTypeOK, FramesOfFiledCalls, EachFrameOnce, [ConnectionNext]_connectionVars
  PROVE  EachFrameOnce'
<1>0. WireOK BY DEF ConnectionTypeOK
<1>1. ASSUME NEW c \in Calls, CallStep(c) PROVE EachFrameOnce'
  <2>1. UNCHANGED <<frames, served>>
    BY <1>1 DEF CallStep, Number, File, Refused, Receive, TimerFires, TimedOut, Dropped, socket
  <2>2. CASE File(c)
    <3>1. queue' = Append(queue, c) /\ place[c] \notin Filed BY <2>2 DEF File, Filed
    <3>2. /\ DOMAIN queue' = DOMAIN queue \cup {Len(queue) + 1}
          /\ \A k \in DOMAIN queue : queue'[k] = queue[k]
          /\ queue'[Len(queue) + 1] = c
          /\ Len(queue) + 1 \notin DOMAIN queue
      BY <1>0, <3>1 DEF WireOK
    <3>3. /\ c \notin frames \cup served
          /\ \A k \in DOMAIN queue : queue[k] # c
      BY <3>1 DEF FramesOfFiledCalls
    <3> QED BY <2>1, <3>2, <3>3 DEF EachFrameOnce
  <2>3. CASE ~File(c)
    <3>1. queue' = queue
      BY <1>1, <2>3 DEF CallStep, Number, Refused, Receive, TimerFires, TimedOut, Dropped
    <3> QED BY <2>1, <3>1 DEF EachFrameOnce
  <2> QED BY <2>2, <2>3
<1>2. CASE Close
  <2>1. queue' = Append(queue, CLOSE) /\ UNCHANGED <<frames, served>>
    BY <1>2 DEF Close, socket
  <2>2. /\ DOMAIN queue' = DOMAIN queue \cup {Len(queue) + 1}
        /\ \A k \in DOMAIN queue : queue'[k] = queue[k]
        /\ queue'[Len(queue) + 1] = CLOSE
    BY <1>0, <2>1 DEF WireOK
  <2> QED BY <2>1, <2>2 DEF EachFrameOnce
<1>3. CASE Write
  <2>1. /\ queue # << >> /\ UNCHANGED served
        /\ frames' = frames \cup {Head(queue)}
        /\ queue' = Tail(queue) \/ queue' = << >>
    BY <1>3 DEF Write, WriterStops
  <2>2. /\ Head(queue) = queue[1] /\ 1 \in DOMAIN queue
        /\ \A k \in DOMAIN Tail(queue) :
             k + 1 \in DOMAIN queue /\ k + 1 # 1 /\ Tail(queue)[k] = queue[k + 1]
    <3>1. queue \in Seq(Calls \cup {CLOSE}) BY <1>0 DEF WireOK
    <3> QED BY <2>1, <3>1, TailElements
  <2>3. /\ DOMAIN queue' \subseteq Nat
        /\ \A k \in DOMAIN queue' :
             k + 1 \in DOMAIN queue /\ k + 1 # 1 /\ queue'[k] = queue[k + 1]
    BY <1>0, <2>1, <2>2 DEF WireOK
  <2>4. \A k, l \in DOMAIN queue' : k # l => k + 1 # l + 1 BY <2>3
  <2>5. CLOSE \notin served BY <1>0, CallsAssumption DEF WireOK
  <2>6. queue[1] = CLOSE \/ queue[1] \notin frames \cup served BY <2>2 DEF EachFrameOnce
  <2>7. frames' \cap served' = {} BY <2>1, <2>2, <2>5, <2>6 DEF EachFrameOnce
  <2>8. \A k \in DOMAIN queue' : queue'[k] # CLOSE => queue'[k] \notin frames' \cup served'
    <3> SUFFICES ASSUME NEW k \in DOMAIN queue', queue'[k] # CLOSE
                 PROVE  queue'[k] \notin frames' \cup served'
      OBVIOUS
    <3>1. k + 1 \in DOMAIN queue /\ k + 1 # 1 /\ queue'[k] = queue[k + 1] BY <2>3
    <3>2. queue[k + 1] # queue[1] BY <2>2, <3>1 DEF EachFrameOnce
    <3> QED BY <2>1, <2>2, <3>1, <3>2 DEF EachFrameOnce
  <2>9. \A k, l \in DOMAIN queue' : k # l /\ queue'[k] = queue'[l] => queue'[k] = CLOSE
    BY <2>3, <2>4 DEF EachFrameOnce
  <2> QED BY <2>7, <2>8, <2>9 DEF EachFrameOnce
<1>4. CASE WriteFails BY <1>4 DEF WriteFails, WriterStops, EachFrameOnce, socket
<1>5. CASE Read BY <1>5 DEF Read, EachFrameOnce
<1>6. CASE ReaderEnds BY <1>6 DEF ReaderEnds, EachFrameOnce, socket
<1>7. CASE Serves BY <1>7 DEF Serves, EachFrameOnce
<1>8. CASE PeerHangsUp BY <1>8 DEF PeerHangsUp, EachFrameOnce
<1>9. CASE UNCHANGED connectionVars BY <1>9 DEF connectionVars, EachFrameOnce
<1> QED BY <1>1, <1>2, <1>3, <1>4, <1>5, <1>6, <1>7, <1>8, <1>9 DEF ConnectionNext

\* The inductive invariant holds in every reachable state (ws_client.rs:189).
THEOREM ConnectionInvariant == ConnectionSpec => []ConnectionInv
<1>1. ConnectionInit => ConnectionInv
  <2> SUFFICES ASSUME ConnectionInit PROVE ConnectionInv OBVIOUS
  <2>1. /\ place = [c \in Calls |-> "new"] /\ inbox = [c \in Calls |-> Nothing]
        /\ id = [c \in Calls |-> 0] /\ timed \in [Calls -> BOOLEAN] /\ next_id = 1
        /\ closed = FALSE /\ reader = TRUE /\ writer = TRUE /\ hangup = FALSE
        /\ frames = {} /\ served = {} /\ stream = {}
    BY DEF ConnectionInit
  <2>2. DOMAIN replies = {} /\ DOMAIN queue = {} /\ queue \in Seq(Calls \cup {CLOSE})
    BY DEF ConnectionInit
  <2>3. Slots = {} BY <2>2 DEF Slots
  <2>4. CallsOK /\ MapOK /\ WireOK
    <3>1. CallsOK BY <2>1 DEF CallsOK
    <3>2. MapOK BY <2>1, <2>2 DEF MapOK
    <3>3. WireOK BY <2>1, <2>2 DEF WireOK
    <3> QED BY <3>1, <3>2, <3>3
  <2>5. \A c \in Calls : c # Nothing /\ c # CLOSE BY CallsAssumption
  <2>6. IdsDiffer BY <2>1 DEF IdsDiffer
  <2>7. FramesOfFiledCalls /\ EachFrameOnce
    BY <2>1, <2>2 DEF FramesOfFiledCalls, EachFrameOnce
  <2>8. AnswersAreOwn /\ NobodyIsStranded /\ OnlyDroppedCallsLeaveSlots /\ AnsweredOutOfMap
    BY <2>1, <2>3 DEF AnswersAreOwn, NobodyIsStranded, OnlyDroppedCallsLeaveSlots, AnsweredOutOfMap
  <2>9. AnswersWereServed BY <2>1, <2>5 DEF AnswersWereServed
  <2> QED BY <2>4, <2>6, <2>7, <2>8, <2>9 DEF ConnectionInv, ConnectionTypeOK
<1>2. ConnectionInv /\ [ConnectionNext]_connectionVars => ConnectionInv'
  <2> SUFFICES ASSUME ConnectionInv, [ConnectionNext]_connectionVars PROVE ConnectionInv' OBVIOUS
  <2>1. /\ CallsOK /\ MapOK /\ WireOK /\ IdsDiffer /\ FramesOfFiledCalls /\ EachFrameOnce
        /\ OnlyDroppedCallsLeaveSlots /\ ConnectionTypeOK
    BY DEF ConnectionInv, ConnectionTypeOK
  <2>2. ConnectionTypeOK' BY <2>1, CallsStep, MapStep, WireStep DEF ConnectionTypeOK
  <2>3. IdsDiffer' /\ FramesOfFiledCalls' /\ EachFrameOnce'
    BY <2>1, IdsStep, FramesStep, OnceStep
  <2>4. /\ AnswersAreOwn' /\ NobodyIsStranded' /\ OnlyDroppedCallsLeaveSlots'
        /\ AnsweredOutOfMap' /\ AnswersWereServed'
    <3>1. ASSUME NEW c \in Calls, CallStep(c)
          PROVE  /\ AnswersAreOwn' /\ NobodyIsStranded' /\ OnlyDroppedCallsLeaveSlots'
                 /\ AnsweredOutOfMap' /\ AnswersWereServed'
      BY <3>1, MapCallStep
    <3>2. CASE Read BY <3>2, MapReadStep
    <3>3. CASE ReaderEnds BY <3>3, MapEndStep
    <3>4. CASE Elsewhere
      <4>1. UNCHANGED <<place, id, replies, closed, inbox>> BY <3>4, ElsewhereKeeps
      <4>2. served \subseteq served'
        BY <3>4 DEF Elsewhere, Close, Write, WriteFails, Serves, PeerHangsUp, connectionVars, socket
      <4>3. Slots' = Slots BY <4>1 DEF Slots
      <4>4. AnswersAreOwn' /\ NobodyIsStranded'
        BY <4>1 DEF ConnectionInv, AnswersAreOwn, NobodyIsStranded
      <4>5. OnlyDroppedCallsLeaveSlots' /\ AnsweredOutOfMap'
        BY <4>1, <4>3 DEF ConnectionInv, OnlyDroppedCallsLeaveSlots, AnsweredOutOfMap
      <4>6. AnswersWereServed' BY <4>1, <4>2 DEF ConnectionInv, AnswersWereServed
      <4> QED BY <4>4, <4>5, <4>6
    <3> QED BY <3>1, <3>2, <3>3, <3>4 DEF ConnectionNext, Elsewhere
  <2> QED BY <2>2, <2>3, <2>4 DEF ConnectionInv
<1> QED BY <1>1, <1>2, PTL DEF ConnectionSpec

\* Every variable keeps its type and every slot its own call's id
\* (ws_client.rs:317).
THEOREM ConnectionTypeCorrect == ConnectionSpec => []ConnectionTypeOK
BY ConnectionInvariant, PTL DEF ConnectionInv

\* A caller gets the answer to its own request (ws_client.rs:288).
THEOREM AnswersFindTheirCall == ConnectionSpec => []AnswersAreOwn
BY ConnectionInvariant, PTL DEF ConnectionInv

\* Whoever waits can be woken; nobody waits on a closed connection
\* (ws_client.rs:215).
THEOREM NobodyWaitsInVain == ConnectionSpec => []NobodyIsStranded
BY ConnectionInvariant, PTL DEF ConnectionInv

\* A call that timed out leaves no slot behind (ws_client.rs:269).
THEOREM TimeoutsTakeTheirSlot == ConnectionSpec => []OnlyDroppedCallsLeaveSlots
BY ConnectionInvariant, PTL DEF ConnectionInv

-------------------------------------------------------------------------------
(* The refinement.                                                         *)

Status == [c \in Calls |-> statusOf(c)]

\* One call's fate is decided, the others' stand (ws_client.rs:281).
LEMMA OneFateChanges ==
  ASSUME NEW c \in Calls, NEW fate, statusOf(c)' = fate,
         \A d \in Calls : d # c => statusOf(d)' = statusOf(d)
  PROVE  Status' = [Status EXCEPT ![c] = fate]
BY DEF Status

LEMMA NoFateChanges ==
  ASSUME \A d \in Calls : statusOf(d)' = statusOf(d)
  PROVE  Status' = Status
BY DEF Status

\* What a call's step does to its fate: filing opens it or it is refused, the timer
\* and the caller's end give it up, and nothing else tells (ws_client.rs:281-344).
LEMMA CallStepRefines ==
  ASSUME ConnectionInv, NEW c \in Calls, CallStep(c)
  PROVE  [Channel!Next]_(Channel!abstract)
<1>0. /\ place \in [Calls -> {"new", "numbered", "waiting", "expired"} \cup Ended]
      /\ \A d \in Calls : place[d] \notin Filed => inbox[d] = Nothing
      /\ inbox[c] \in {Nothing, Lost, c}
      /\ c # Nothing /\ c # Lost /\ Nothing # Lost
  BY CallsAssumption DEF ConnectionInv, ConnectionTypeOK, CallsOK, AnswersWereServed, AnswersAreOwn
<1>1. UNCHANGED <<inbox, served, closed>>
  BY DEF CallStep, Number, File, Refused, Receive, TimerFires, TimedOut, Dropped, socket
<1>2. \A d \in Calls : d # c => place'[d] = place[d]
  BY <1>0 DEF CallStep, Number, File, Refused, Receive, TimerFires, TimedOut, Dropped
<1>3. \A d \in Calls : d # c => statusOf(d)' = statusOf(d)
  BY <1>1, <1>2 DEF statusOf
<1>4. ASSUME statusOf(c)' = statusOf(c) PROVE [Channel!Next]_(Channel!abstract)
  <2>1. Status' = Status BY <1>3, <1>4, NoFateChanges
  <2> QED BY <1>1, <2>1 DEF Channel!abstract, Status
<1>5. ASSUME statusOf(c) = "open", statusOf(c)' = "unanswered"
      PROVE  Channel!GiveUp(c)
  <2>1. Status' = [Status EXCEPT ![c] = "unanswered"] BY <1>3, <1>5, OneFateChanges
  <2> QED BY <1>1, <1>5, <2>1 DEF Channel!GiveUp, Status
<1>6. CASE Number(c)
  <2>1. place[c] = "new" /\ place'[c] = "numbered" BY <1>0, <1>6 DEF Number
  <2>2. inbox[c] # c /\ place[c] # "numbered" BY <1>0, <2>1 DEF Filed
  <2>3. statusOf(c)' = statusOf(c) BY <1>1, <2>1, <2>2 DEF statusOf
  <2> QED BY <1>4, <2>3
<1>7. CASE File(c)
  <2>1. place[c] = "numbered" /\ place'[c] = "waiting" /\ ~closed BY <1>0, <1>7 DEF File, accepts
  <2>2. inbox[c] = Nothing /\ inbox[c] # c BY <1>0, <2>1 DEF Filed
  <2>3. statusOf(c) = "new" /\ statusOf(c)' = "open" BY <1>1, <2>1, <2>2 DEF statusOf
  <2>4. Status' = [Status EXCEPT ![c] = "open"] BY <1>3, <2>3, OneFateChanges
  <2>5. Channel!Open(c) BY <1>1, <2>1, <2>3, <2>4 DEF Channel!Open, Status
  <2> QED BY <2>5 DEF Channel!Next
<1>8. CASE Refused(c)
  <2>1. place[c] = "numbered" /\ place'[c] = "refused" BY <1>0, <1>8 DEF Refused
  <2>0. inbox[c] # c BY <1>0, <2>1 DEF Filed
  <2>2. statusOf(c) = "new" /\ statusOf(c)' = "refused" BY <1>1, <2>0, <2>1 DEF statusOf
  <2>3. Status' = [Status EXCEPT ![c] = "refused"] BY <1>3, <2>2, OneFateChanges
  <2>4. Channel!Refuse(c) BY <1>1, <2>2, <2>3 DEF Channel!Refuse, Status
  <2> QED BY <2>4 DEF Channel!Next
<1>9. CASE Receive(c)
  <2>1. place[c] = "waiting" /\ inbox[c] # Nothing /\ place'[c] \in {"failed", "answered"}
    BY <1>0, <1>9 DEF Receive
  <2>2. statusOf(c)' = statusOf(c) BY <1>0, <1>1, <2>1 DEF statusOf
  <2> QED BY <1>4, <2>2
<1>10. CASE TimerFires(c)
  <2>1. place[c] = "waiting" /\ inbox[c] = Nothing /\ place'[c] = "expired"
    BY <1>0, <1>10 DEF TimerFires
  <2>2. statusOf(c) = "open" /\ statusOf(c)' = "unanswered" BY <1>0, <1>1, <2>1 DEF statusOf
  <2> QED BY <1>5, <2>2 DEF Channel!Next
<1>11. CASE TimedOut(c)
  <2>1. place[c] = "expired" /\ place'[c] = "timed out" BY <1>0, <1>11 DEF TimedOut
  <2>2. statusOf(c)' = statusOf(c) BY <1>1, <2>1 DEF statusOf
  <2> QED BY <1>4, <2>2
<1>12. CASE Dropped(c)
  <2>1. place[c] \in {"waiting", "expired"} /\ place'[c] = "dropped" BY <1>0, <1>12 DEF Dropped
  <2>2. CASE inbox[c] = Nothing /\ place[c] = "waiting"
    <3>1. statusOf(c) = "open" /\ statusOf(c)' = "unanswered"
      BY <1>0, <1>1, <2>1, <2>2 DEF statusOf
    <3> QED BY <1>5, <3>1 DEF Channel!Next
  <2>3. CASE ~(inbox[c] = Nothing /\ place[c] = "waiting")
    <3>1. statusOf(c)' = statusOf(c) BY <1>0, <1>1, <2>1, <2>3 DEF statusOf
    <3> QED BY <1>4, <3>1
  <2> QED BY <2>2, <2>3
<1> QED BY <1>6, <1>7, <1>8, <1>9, <1>10, <1>11, <1>12 DEF CallStep

\* A reply answers an open call, which the browser ran, or finds nobody
\* (ws_client.rs:409).
LEMMA ReadRefines ==
  ASSUME ConnectionInv, Read PROVE [Channel!Next]_(Channel!abstract)
<1>1. PICK c \in stream :
        IF id[c] \in DOMAIN replies
        THEN Deliver(replies[id[c]], c)
        ELSE UNCHANGED inbox
  BY DEF Read
<1>2. UNCHANGED <<place, closed, served>> BY DEF Read
<1>3. c \in Calls /\ c \in served BY DEF ConnectionInv, ConnectionTypeOK, WireOK
<1>4. ASSUME inbox' = inbox PROVE [Channel!Next]_(Channel!abstract)
  <2>1. \A d \in Calls : statusOf(d)' = statusOf(d) BY <1>2, <1>4 DEF statusOf
  <2>2. Status' = Status BY <2>1, NoFateChanges
  <2> QED BY <1>2, <2>2 DEF Channel!abstract, Status
<1>5. CASE id[c] \in DOMAIN replies
  <2>1. /\ replies[id[c]] \in Slots /\ replies[id[c]] \in Calls
        /\ id[replies[id[c]]] = id[c]
    BY <1>5 DEF Slots, ConnectionInv, ConnectionTypeOK, MapOK
  <2>2. replies[id[c]] = c
    <3>1. place[replies[id[c]]] # "new"
      BY <2>1 DEF ConnectionInv, OnlyDroppedCallsLeaveSlots
    <3>2. place[c] # "new" BY <1>3 DEF ConnectionInv, FramesOfFiledCalls, Filed
    <3> QED BY <1>3, <2>1, <3>1, <3>2 DEF ConnectionInv, IdsDiffer
  <2>3. inbox[c] = Nothing BY <2>1, <2>2 DEF ConnectionInv, AnsweredOutOfMap
  <2>4. inbox' = [inbox EXCEPT ![c] = IF place[c] = "waiting" THEN c ELSE inbox[c]]
    BY <1>1, <1>5, <2>2 DEF Deliver
  <2>5. inbox \in [Calls -> {Nothing, Lost} \cup Calls]
    BY DEF ConnectionInv, ConnectionTypeOK, CallsOK
  <2>6. CASE place[c] = "waiting"
    <3>1. inbox'[c] = c /\ \A d \in Calls : d # c => inbox'[d] = inbox[d]
      BY <1>3, <2>4, <2>5, <2>6
    <3>2. c # Nothing BY <1>3, CallsAssumption
    <3>3. statusOf(c) = "open" /\ statusOf(c)' = "answered"
      BY <1>2, <2>3, <2>6, <3>1, <3>2 DEF statusOf
    <3>4. \A d \in Calls : d # c => statusOf(d)' = statusOf(d)
      BY <1>2, <3>1 DEF statusOf
    <3>5. Status' = [Status EXCEPT ![c] = "answered"] BY <1>3, <3>3, <3>4, OneFateChanges
    <3>6. Channel!Answer(c) BY <1>2, <1>3, <3>3, <3>5 DEF Channel!Answer, Status
    <3> QED BY <1>3, <3>6 DEF Channel!Next
  <2>7. CASE place[c] # "waiting"
    <3>1. inbox' = inbox BY <1>3, <2>4, <2>5, <2>7
    <3> QED BY <1>4, <3>1
  <2> QED BY <2>6, <2>7
<1>6. CASE id[c] \notin DOMAIN replies BY <1>1, <1>4, <1>6
<1> QED BY <1>5, <1>6

\* The end of the reader ends every open call at once (ws_client.rs:215).
LEMMA EndRefines == ASSUME ConnectionInv, ReaderEnds PROVE Channel!GoDown
<1>1. /\ UNCHANGED <<place, served>> /\ closed' = TRUE /\ reader
      /\ \A c \in Calls : inbox'[c] = IF c \in Slots /\ place[c] = "waiting" THEN Lost ELSE inbox[c]
  BY DEF ReaderEnds, failed, socket
<1>2. closed = FALSE BY <1>1 DEF ConnectionInv, ConnectionTypeOK, MapOK
<1>3. ASSUME NEW c \in Calls
      PROVE  statusOf(c)' = IF statusOf(c) = "open" THEN "unanswered" ELSE statusOf(c)
  <2>1. c # Nothing /\ c # Lost /\ Nothing # Lost BY CallsAssumption
  <2>2. place[c] = "waiting" /\ inbox[c] = Nothing => c \in Slots
    BY DEF ConnectionInv, NobodyIsStranded, Slots
  <2>3. c \in Slots => inbox[c] = Nothing BY DEF ConnectionInv, AnsweredOutOfMap
  <2>4. place[c] \notin Filed => inbox[c] = Nothing BY DEF ConnectionInv, AnswersWereServed
  <2>5. CASE c \in Slots /\ place[c] = "waiting"
    <3>1. statusOf(c) = "open" /\ statusOf(c)' = "unanswered"
      BY <1>1, <2>1, <2>3, <2>5 DEF statusOf
    <3> QED BY <3>1
  <2>6. CASE ~(c \in Slots /\ place[c] = "waiting")
    <3>1. inbox'[c] = inbox[c] /\ place'[c] = place[c] BY <1>1, <2>6
    <3>2. statusOf(c)' = statusOf(c) BY <3>1 DEF statusOf
    <3>3. statusOf(c) # "open" BY <2>1, <2>2, <2>6 DEF statusOf
    <3> QED BY <3>2, <3>3
  <2> QED BY <2>5, <2>6
<1>4. Status' = [c \in Calls |-> IF Status[c] = "open" THEN "unanswered" ELSE Status[c]]
  BY <1>3 DEF Status
<1> QED BY <1>1, <1>2, <1>4 DEF Channel!GoDown, Status

\* The browser runs only what was filed, and once (ws_client.rs:226).
LEMMA ServesRefines == ASSUME ConnectionInv, Serves PROVE Channel!Next
<1>1. PICK c \in frames \ {CLOSE} : served' = served \cup {c} BY DEF Serves
<1>2. UNCHANGED <<place, inbox, closed>> BY DEF Serves
<1>3. c \in Calls /\ c \notin served
  BY DEF ConnectionInv, ConnectionTypeOK, WireOK, EachFrameOnce
<1>4. place[c] \in Filed /\ inbox[c] # c
  BY <1>3 DEF ConnectionInv, FramesOfFiledCalls, AnswersWereServed
<1>5. statusOf(c) \in {"open", "unanswered"} BY <1>4 DEF statusOf, Filed
<1>6. \A d \in Calls : statusOf(d)' = statusOf(d) BY <1>2 DEF statusOf
<1>7. Status' = Status BY <1>6, NoFateChanges
<1>8. Channel!Serve(c) BY <1>1, <1>2, <1>3, <1>5, <1>7 DEF Channel!Serve, Status
<1> QED BY <1>3, <1>8 DEF Channel!Next

\* The connection implements RpcChannel (ws_client.rs:311): refused calls never
\* run, an open call ends once, and going down ends them all.
THEOREM ConnectionImplementsChannel == ConnectionSpec => ImplementsChannel
<1>1. ConnectionInit => Channel!Init
  <2> SUFFICES ASSUME ConnectionInit PROVE Channel!Init OBVIOUS
  <2>1. ASSUME NEW c \in Calls PROVE statusOf(c) = "new"
    <3>1. place[c] = "new" /\ inbox[c] # c BY CallsAssumption DEF ConnectionInit
    <3> QED BY <3>1 DEF statusOf
  <2> QED BY <2>1 DEF ConnectionInit, Channel!Init
<1>2. ConnectionInv /\ [ConnectionNext]_connectionVars => [Channel!Next]_(Channel!abstract)
  <2> SUFFICES ASSUME ConnectionInv, [ConnectionNext]_connectionVars PROVE [Channel!Next]_(Channel!abstract)
    OBVIOUS
  <2>1. CASE \E c \in Calls : CallStep(c) BY <2>1, CallStepRefines
  <2>2. CASE Read BY <2>2, ReadRefines
  <2>3. CASE ReaderEnds BY <2>3, EndRefines DEF Channel!Next
  <2>4. CASE Serves BY <2>4, ServesRefines
  <2>5. CASE Elsewhere /\ ~Serves
    <3>1. UNCHANGED <<place, inbox, closed, served>>
      BY <2>5 DEF Elsewhere, Close, Write, WriteFails, PeerHangsUp, connectionVars, socket
    <3>2. \A c \in Calls : statusOf(c)' = statusOf(c) BY <3>1 DEF statusOf
    <3>3. Status' = Status BY <3>2, NoFateChanges
    <3> QED BY <3>1, <3>3 DEF Channel!abstract, Status
  <2> QED BY <2>1, <2>2, <2>3, <2>4, <2>5 DEF ConnectionNext, Elsewhere
<1> QED BY <1>1, <1>2, ConnectionInvariant, PTL DEF ConnectionSpec, ImplementsChannel, Channel!Spec

-------------------------------------------------------------------------------
(* Closing a tab.                                                          *)

Engaged == {c \in Closings : stage[c] # "idle"} \cup creates \cup closes

TargetsAreUsed == \A c \in Engaged : target_id[c] \in used

TargetsAreNotAnchors == \A c \in Engaged : target_id[c] \notin anchors

AnchorInv ==
  AnchorTypeOK /\ TargetsAreUsed /\ TargetsAreNotAnchors /\ AnAnchorIsSpared

\* The sets and records of session.rs:58 keep their types in every step.
LEMMA AnchorTypeStep == AnchorTypeOK /\ [AnchorNext]_anchorVars => AnchorTypeOK'
<1> SUFFICES ASSUME AnchorTypeOK, [AnchorNext]_anchorVars PROVE AnchorTypeOK'
  OBVIOUS
<1> USE LapsesAssumption DEF AnchorTypeOK, Waiting, targets, requests
<1>1. ASSUME NEW c \in Closings, CloseStep(c) PROVE AnchorTypeOK'
  <2>1. CASE Begin(c) BY <2>1 DEF Begin
  <2>2. CASE Listed(c) BY <2>2 DEF Listed
  <2>3. CASE AskAnchor(c) BY <2>3 DEF AskAnchor
  <2>4. CASE SendClose(c) BY <2>4 DEF SendClose
  <2>5. CASE Lapse(c) BY <2>5 DEF Lapse
  <2> QED BY <1>1, <2>1, <2>2, <2>3, <2>4, <2>5 DEF CloseStep
<1>2. ASSUME NEW c \in Closings, BrowserStep(c) PROVE AnchorTypeOK'
  <2>1. CASE AnchorOpens(c) BY <2>1 DEF AnchorOpens, Fresh
  <2>2. CASE AnchorRefused(c) BY <2>2 DEF AnchorRefused
  <2>3. CASE PageCloses(c) BY <2>3 DEF PageCloses
  <2>4. CASE CloseDeclined(c) BY <2>4 DEF CloseDeclined
  <2> QED BY <1>2, <2>1, <2>2, <2>3, <2>4 DEF BrowserStep
<1>3. CASE PageOpens BY <1>3 DEF PageOpens, Fresh
<1>4. CASE AnchorNavigates BY <1>4 DEF AnchorNavigates
<1>5. CASE OutsiderCloses BY <1>5 DEF OutsiderCloses
<1>6. CASE UNCHANGED anchorVars BY <1>6 DEF anchorVars
<1> QED BY <1>1, <1>2, <1>3, <1>4, <1>5, <1>6 DEF AnchorNext

\* A page at the anchor's url is never the target of a call under way
\* (session.rs:75): begun on a page elsewhere, and pages do not move there.
LEMMA AnchorTargetsStep ==
  ASSUME AnchorTypeOK, TargetsAreUsed, TargetsAreNotAnchors, [AnchorNext]_anchorVars
  PROVE  TargetsAreUsed' /\ TargetsAreNotAnchors'
<1> USE DEF AnchorTypeOK, Engaged, TargetsAreUsed, TargetsAreNotAnchors, targets, requests
<1>1. ASSUME NEW c \in Closings, CloseStep(c)
      PROVE  TargetsAreUsed' /\ TargetsAreNotAnchors'
  <2>1. CASE Begin(c) BY <2>1 DEF Begin
  <2>2. CASE Listed(c) BY <2>2 DEF Listed
  <2>3. CASE AskAnchor(c) BY <2>3 DEF AskAnchor
  <2>4. CASE SendClose(c) BY <2>4 DEF SendClose
  <2>5. CASE Lapse(c) BY <2>5 DEF Lapse, Waiting
  <2> QED BY <1>1, <2>1, <2>2, <2>3, <2>4, <2>5 DEF CloseStep
<1>2. ASSUME NEW c \in Closings, BrowserStep(c)
      PROVE  TargetsAreUsed' /\ TargetsAreNotAnchors'
  <2>1. CASE AnchorOpens(c) BY <2>1 DEF AnchorOpens, Fresh
  <2>2. CASE AnchorRefused(c) BY <2>2 DEF AnchorRefused
  <2>3. CASE PageCloses(c) BY <2>3 DEF PageCloses
  <2>4. CASE CloseDeclined(c) BY <2>4 DEF CloseDeclined
  <2> QED BY <1>2, <2>1, <2>2, <2>3, <2>4 DEF BrowserStep
<1>3. CASE PageOpens BY <1>3 DEF PageOpens
<1>4. CASE AnchorNavigates BY <1>4 DEF AnchorNavigates
<1>5. CASE OutsiderCloses BY <1>5 DEF OutsiderCloses
<1>6. CASE UNCHANGED anchorVars BY <1>6 DEF anchorVars
<1> QED BY <1>1, <1>2, <1>3, <1>4, <1>5, <1>6 DEF AnchorNext

\* Every step but a call's own leaves what is doomed doomed, or less: the anchor
\* spared so far is spared still unless an outsider closes it (session.rs:74).
LEMMA AnchorSparedStep ==
  ASSUME AnchorInv, [AnchorNext]_anchorVars
  PROVE  AnAnchorIsSpared'
<1> USE DEF AnchorInv, AnchorTypeOK, AnAnchorIsSpared, Doomed, targets, requests
<1>1. ASSUME NEW c \in Closings, CloseStep(c) PROVE AnAnchorIsSpared'
  <2>1. CASE Begin(c)
    <3>1. Doomed' = Doomed BY <2>1 DEF Begin
    <3> QED BY <2>1, <3>1 DEF Begin
  <2>2. CASE Listed(c)
    <3>1. CASE anchor_exists(c)
      <4>1. PICK a \in anchors : a # target_id[c] BY <3>1 DEF anchor_exists
      <4>2. a \notin Doomed' BY <2>2, <4>1 DEF Listed, TargetsAreNotAnchors, Engaged
      <4> QED BY <2>2, <4>1, <4>2 DEF Listed
    <3>2. CASE ~anchor_exists(c)
      <4>1. Doomed' = Doomed BY <2>2, <3>2 DEF Listed
      <4> QED BY <2>2, <4>1 DEF Listed
    <3> QED BY <3>1, <3>2
  <2>3. CASE AskAnchor(c)
    <3>1. Doomed' = Doomed BY <2>3 DEF AskAnchor
    <3> QED BY <2>3, <3>1 DEF AskAnchor
  <2>4. CASE SendClose(c)
    <3>1. Doomed' = Doomed BY <2>4 DEF SendClose
    <3> QED BY <2>4, <3>1 DEF SendClose
  <2>5. CASE Lapse(c)
    <3>1. Doomed' \subseteq Doomed BY <2>5 DEF Lapse
    <3> QED BY <2>5, <3>1 DEF Lapse
  <2> QED BY <1>1, <2>1, <2>2, <2>3, <2>4, <2>5 DEF CloseStep
<1>2. ASSUME NEW c \in Closings, BrowserStep(c) PROVE AnAnchorIsSpared'
  <2>1. CASE AnchorOpens(c)
    <3>1. PICK a \in Targets : /\ a \notin used
                              /\ pages' = pages \cup {a}
                              /\ everAnchor' = everAnchor \cup {a}
      BY <2>1 DEF AnchorOpens, Fresh
    <3>2. a \notin Doomed'
      BY <2>1, <3>1 DEF AnchorOpens, TargetsAreUsed, Engaged
    <3> QED BY <3>1, <3>2
  <2>2. CASE AnchorRefused(c)
    <3>1. CASE single BY <2>2, <3>1 DEF AnchorRefused
    <3>2. CASE ~single
      <4>1. Doomed' \subseteq Doomed
        BY <2>2, <3>2 DEF AnchorRefused, refuses_second_target
      <4> QED BY <2>2, <4>1 DEF AnchorRefused
    <3> QED BY <3>1, <3>2
  <2>3. CASE PageCloses(c)
    <3>1. Doomed' \subseteq Doomed /\ target_id[c] \in Doomed BY <2>3 DEF PageCloses
    <3> QED BY <2>3, <3>1 DEF PageCloses
  <2>4. CASE CloseDeclined(c)
    <3>1. Doomed' \subseteq Doomed BY <2>4 DEF CloseDeclined
    <3> QED BY <2>4, <3>1 DEF CloseDeclined
  <2> QED BY <1>2, <2>1, <2>2, <2>3, <2>4 DEF BrowserStep
<1>3. CASE PageOpens BY <1>3 DEF PageOpens
<1>4. CASE AnchorNavigates BY <1>4 DEF AnchorNavigates
<1>5. CASE OutsiderCloses
  <2>1. PICK p \in pages : /\ pages' = pages \ {p}
                          /\ tampered' = (tampered \/ p \in everAnchor)
    BY <1>5 DEF OutsiderCloses
  <2>2. Doomed' = Doomed /\ everAnchor' = everAnchor /\ single' = single
    BY <1>5 DEF OutsiderCloses
  <2>3. SUFFICES ASSUME ~single, ~tampered, p \notin everAnchor, Doomed # {}
                 PROVE  \E a \in everAnchor \cap pages' : a \notin Doomed
    <3>1. ~tampered' => ~tampered /\ p \notin everAnchor BY <2>1
    <3> QED BY <2>2, <2>3, <3>1
  <2> QED BY <2>1, <2>3
<1>6. CASE UNCHANGED anchorVars BY <1>6 DEF anchorVars
<1> QED BY <1>1, <1>2, <1>3, <1>4, <1>5, <1>6 DEF AnchorNext

\* The inductive invariant holds in every reachable state (session.rs:58).
THEOREM AnchorInvariant == AnchorSpec => []AnchorInv
<1>1. AnchorInit => AnchorInv
  <2> SUFFICES ASSUME AnchorInit PROVE AnchorInv OBVIOUS
  <2>1. Engaged = {} /\ Doomed = {} BY DEF AnchorInit, Engaged, Doomed
  <2>2. AnchorTypeOK
    <3>1. lapses \in 0 .. MaxLapses BY LapsesAssumption DEF AnchorInit
    <3>2. stage \in [Closings -> Waiting \cup {"idle"}] BY DEF AnchorInit
    <3>3. \A c \in Closings : stage[c] = "idle" BY DEF AnchorInit
    <3> QED BY <3>1, <3>2, <3>3 DEF AnchorInit, AnchorTypeOK
  <2> QED BY <2>1, <2>2
          DEF AnchorInv, TargetsAreUsed, TargetsAreNotAnchors, AnAnchorIsSpared
<1>2. AnchorInv /\ [AnchorNext]_anchorVars => AnchorInv'
  BY AnchorTypeStep, AnchorTargetsStep, AnchorSparedStep DEF AnchorInv
<1> QED BY <1>1, <1>2, PTL DEF AnchorSpec

\* Every variable keeps its type, and a call waits only for an answer to a
\* request that is on its way (session.rs:63).
THEOREM AnchorTypeCorrect == AnchorSpec => []AnchorTypeOK
BY AnchorInvariant, PTL DEF AnchorInv

\* While a page is about to be closed by afhttp, an anchor is not
\* (session.rs:74).
THEOREM AnchorAlwaysSpared == AnchorSpec => []AnAnchorIsSpared
BY AnchorInvariant, PTL DEF AnchorInv

\* No close afhttp makes takes the last page of a browser that can hold two
\* (session.rs:55, "Keep a headful browser alive when reclaiming its final
\* page"), for any number of calls however they overlap.
THEOREM BrowserKeepsAPage == AnchorSpec => LastPageSurvives
<1>1. ASSUME AnchorInv, NEW c \in Closings, PageCloses(c), target_id[c] \in pages
      PROVE  single \/ tampered \/ pages' # {}
  <2>1. target_id[c] \in Doomed BY <1>1 DEF PageCloses, Doomed
  <2>2. SUFFICES ASSUME ~single, ~tampered PROVE pages' # {} OBVIOUS
  <2>3. PICK a \in everAnchor \cap pages : a \notin Doomed
    BY <1>1, <2>1, <2>2 DEF AnchorInv, AnAnchorIsSpared
  <2> QED BY <1>1, <2>1, <2>3 DEF PageCloses
<1>2. AnchorInv => [\A c \in Closings : PageCloses(c) /\ target_id[c] \in pages
                      => single \/ tampered \/ pages' # {}]_anchorVars
  BY <1>1
<1> QED BY AnchorInvariant, <1>2, PTL DEF LastPageSurvives
===============================================================================
