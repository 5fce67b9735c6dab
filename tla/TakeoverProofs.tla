---------------------------- MODULE TakeoverProofs ----------------------------
(***************************************************************************)
(* Theorems about Takeover, for any panel commands, any number of          *)
(* credentials and losses and any lifetimes its assumption allows; and     *)
(* about FetchCommand, which a takeover begins with, for any command lines *)
(* that name a host of their own, a port of the container or neither, and  *)
(* any moves of the container.                                             *)
(***************************************************************************)
EXTENDS Takeover, FetchCommand, TLAPS

Kinds == {"none", "handoff", "lease", "revoked"}
Cred == [kind : Kinds, left : 0 .. Ttl + Idle, of : 0 .. MaxCreds]
Whats == {"none", "handoff", "exchange", "mint", "renew", "revoke"}
Phases == {"none", "sent", "admitted", "refused", "done", "lost"}
Request == [what : Whats, phase : Phases, auth : 0 .. MaxCreds, waited : 0 .. Patience]
Known(i) == i \in 0 .. MaxCreds /\ (i # 0 => creds[i].kind # "none")

\* What a credential is worth, and what it was minted from.
CredsOK ==
  /\ creds \in [Ids -> Cred]
  /\ \A i \in Ids : creds[i].kind \in {"none", "revoked"} => creds[i].left = 0
  /\ \A i \in Ids : creds[i].kind = "lease" => creds[i].left <= Idle
  /\ \A i \in Ids : creds[i].of # 0 => creds[creds[i].of].kind = "revoked"

\* They are minted one after the other.
InOrder == \E n \in 0 .. MaxCreds : \A i \in Ids : creds[i].kind # "none" <=> i <= n

\* Who holds one holds one that was minted.
RefsOK ==
  /\ Known(url)
  /\ \A o \in Owners : Known(lease[o])
  /\ \A c \in Clients : Known(req[c].auth)

ControlOK ==
  /\ token \in BOOLEAN
  /\ host \in {"up", "draining", "down"} /\ backend \in {"up", "quiet", "gone"}
  /\ way \in [Owners -> {"open", "mint"}]
  /\ pc \in [Clients -> {"idle", "asking", "opening", "watching", "revoking", "ended", "crashed"}]
  /\ lease \in [Owners -> 0 .. MaxCreds]
  /\ slept \in [Owners -> 0 .. Every]
  /\ req \in [Clients -> Request]

\* What is in flight for a command is what its spot asks for.
Asked(c) ==
  /\ pc[c] \in {"idle", "opening", "ended", "crashed"} => req[c] = NoReq
  /\ pc[c] = "asking" =>
       req[c].phase # "none" /\ req[c].what \in (IF c = Agent THEN {"handoff"} ELSE {"exchange", "mint"})
  /\ pc[c] = "revoking" => req[c].phase # "none" /\ req[c].what = "revoke"
  /\ pc[c] = "watching" => req[c] = NoReq \/ (req[c].phase # "none" /\ req[c].what = "renew")
AskedOK ==
  /\ \A c \in Clients : Asked(c)
  /\ pc[Agent] \in {"idle", "asking", "ended"}

\* A host that is down answers nobody and honours nothing.
DownOK ==
  host = "down" => (\A i \in Ids : creds[i].left = 0) /\ (\A c \in Clients : req[c].phase # "admitted")

\* A lease revoked, or one that has lost no more than so much.
Lasts(i, lost) ==
  i \in Ids /\ (creds[i].kind = "revoked" \/ (creds[i].kind = "lease" /\ creds[i].left + lost >= Idle))

\* A lease is new when its command gets it; from then on what it has lost is
\* what the command slept, what its request waited, and what the renewal before
\* that one waited, or the panel took to open.
LeaseOf(o) ==
  way[o] = "open" =>
    /\ (pc[o] = "asking" /\ req[o].phase = "done") => Lasts(req[o].auth, 0)
    /\ pc[o] = "opening" => slept[o] <= Delivery /\ Lasts(lease[o], slept[o])
    /\ pc[o] = "watching" => Lasts(lease[o], Patience + Delivery + slept[o] + req[o].waited)
    /\ (pc[o] = "watching" /\ req[o].phase \in {"admitted", "done"}) => Lasts(lease[o], req[o].waited)
LeasesOK == \A o \in Owners : LeaseOf(o)

TakeoverInv == CredsOK /\ InOrder /\ RefsOK /\ ControlOK /\ AskedOK /\ DownOK /\ LeasesOK

-----------------------------------------------------------------------------
(***************************************************************************)
(* What the steps do to the credentials.                                   *)
(***************************************************************************)

\* But for the clock, no step lowers what a credential is worth unless it
\* revokes it, and none changes what it was minted from.
Kept(i) ==
  /\ creds'[i].of = creds[i].of
  /\ \/ creds'[i].kind = "revoked"
     \/ creds'[i].kind = creds[i].kind /\ creds'[i].left >= creds[i].left
AllKept == \A i \in Ids : creds[i].kind # "none" => Kept(i)

\* The ways in which they change.
Authorizes == \E i \in Ids : is_live(i) /\ creds' = authorized(i)
Revokes == \E S \in SUBSET Ids :
  /\ \A i \in S : creds[i].kind # "none"
  /\ creds' = [i \in Ids |-> IF i \in S THEN [creds[i] EXCEPT !.left = 0, !.kind = "revoked"] ELSE creds[i]]
Issues == \E kind \in {"handoff", "lease"}, from \in 0 .. MaxCreds :
  /\ CanIssue /\ Known(from)
  /\ creds' = spends(issued(creds, kind, IF kind = "lease" THEN Idle ELSE Ttl, from), from)

LEMMA Arithmetic ==
  /\ Idle \in Nat /\ Ttl \in Nat /\ Every \in Nat /\ Patience \in Nat /\ MaxCreds \in Nat
  /\ Delivery \in Nat /\ Delivery <= Every
  /\ Idle > Every + Delivery + 2 * Patience /\ Idle > 0
BY TakeoverAssumption

\* The next credential is the first one that was not minted yet, and the newest.
IsNext(n, kind, life, from) ==
  /\ \A i \in Ids : creds[i].kind # "none" <=> i < n
  /\ issued(creds, kind, life, from) = [creds EXCEPT ![n] = [kind |-> kind, left |-> life, of |-> from]]
  /\ newest(issued(creds, kind, life, from)) = n

LEMMA NextOne ==
  ASSUME CredsOK, InOrder, CanIssue,
         NEW kind \in {"handoff", "lease"}, NEW life \in 0 .. Ttl + Idle, NEW from \in 0 .. MaxCreds
  PROVE  \E n \in Ids : IsNext(n, kind, life, from)
<1>1. PICK m \in 0 .. MaxCreds : \A i \in Ids : creds[i].kind # "none" <=> i <= m
  BY DEF InOrder
<1> DEFINE n == m + 1
<1>2. n \in Ids /\ \A i \in Ids : creds[i].kind # "none" <=> i < n
  <2>1. PICK i \in Ids : creds[i].kind = "none"
    BY DEF CanIssue
  <2>2. ~(i <= m)
    BY <1>1, <2>1
  <2> QED
    BY <1>1, <2>2, Arithmetic DEF Ids
<1> HIDE DEF n
<1>3. n = CHOOSE i \in Ids : creds[i].kind = "none" /\ \A k \in 1 .. i - 1 : creds[k].kind # "none"
  <2>1. creds[n].kind = "none" /\ \A k \in 1 .. n - 1 : creds[k].kind # "none"
    BY <1>2, Arithmetic DEF Ids
  <2>2. ASSUME NEW i \in Ids, creds[i].kind = "none",
     \A k \in 1 .. i - 1 : creds[k].kind # "none"
        PROVE  i = n
    BY <1>2, <2>1, <2>2, Arithmetic DEF Ids
  <2> QED
    BY <1>2, <2>1, <2>2
<1> DEFINE cs == [creds EXCEPT ![n] = [kind |-> kind, left |-> life, of |-> from]]
<1>4. issued(creds, kind, life, from) = cs
  BY <1>3 DEF issued
<1>5. \A i \in Ids : cs[i].kind # "none" <=> i <= n
  BY <1>2, Arithmetic DEF CredsOK, Ids
<1> HIDE DEF cs
<1>6. newest(cs) = n
  <2>1. \A k \in Ids : cs[k].kind # "none" => k <= n
    BY <1>5
  <2>2. cs[n].kind # "none"
    BY <1>2, <1>5, Arithmetic DEF Ids
  <2>3. ASSUME NEW i \in Ids, cs[i].kind # "none",
     \A k \in Ids : cs[k].kind # "none" => k <= i
        PROVE  i = n
    BY <1>2, <2>1, <2>2, <2>3, Arithmetic DEF Ids
  <2> QED
    BY <1>2, <2>1, <2>2, <2>3 DEF newest
<1> QED
  BY <1>2, <1>4, <1>6 DEF cs, IsNext

LEMMA AuthorizesKeeps ==
  ASSUME CredsOK, InOrder, Authorizes
  PROVE  CredsOK' /\ InOrder' /\ AllKept
<1>1. PICK i \in Ids : is_live(i) /\ creds' = authorized(i)
  BY DEF Authorizes
<1>2. creds[i] \in Cred
  BY DEF CredsOK
<1>3. creds[i].kind \notin {"none", "revoked"}
  BY <1>1, <1>2 DEF CredsOK, is_live
<1> DEFINE v == IF creds[i].kind = "lease" THEN Idle ELSE creds[i].left
<1>4. v \in 0 .. Ttl + Idle
  BY <1>2, Arithmetic DEF Cred
<1>5. creds' = [creds EXCEPT ![i] = [creds[i] EXCEPT !.left = v]]
  BY <1>1 DEF authorized, CredsOK
<1> HIDE DEF v
<1>6. creds' \in [Ids -> Cred]
  BY <1>2, <1>4, <1>5 DEF CredsOK, Cred
<1>7. \A k \in Ids : creds'[k].kind = creds[k].kind /\ creds'[k].of = creds[k].of
                     /\ (k # i => creds'[k].left = creds[k].left)
  BY <1>2, <1>5 DEF CredsOK, Cred
<1>8. creds'[i].left = v
  BY <1>2, <1>5 DEF CredsOK, Cred
<1>9. CredsOK'
  <2>1. \A k \in Ids : creds[k].of # 0 => creds[k].of \in Ids
    BY Arithmetic DEF CredsOK, Cred, Ids
  <2> QED
    BY <1>3, <1>6, <1>7, <1>8, <2>1, Arithmetic DEF CredsOK, v
<1>10. InOrder'
  BY <1>7 DEF InOrder
<1>11. AllKept
  BY <1>2, <1>7, <1>8, <1>6, Arithmetic DEF AllKept, Kept, CredsOK, Cred, v
<1> QED
  BY <1>9, <1>10, <1>11

LEMMA RevokesKeeps ==
  ASSUME CredsOK, InOrder, Revokes
  PROVE  CredsOK' /\ InOrder' /\ AllKept
<1>1. PICK S \in SUBSET Ids :
        /\ \A i \in S : creds[i].kind # "none"
        /\ creds' = [i \in Ids |-> IF i \in S THEN [creds[i] EXCEPT !.left = 0, !.kind = "revoked"] ELSE creds[i]]
  BY DEF Revokes
<1>2. \A i \in Ids : creds[i] \in Cred
  BY DEF CredsOK
<1>3. \A i \in Ids : [creds[i] EXCEPT !.left = 0, !.kind = "revoked"] \in Cred
  <2> TAKE i \in Ids
  <2>1. creds[i] \in Cred /\ 0 \in 0 .. Ttl + Idle
    BY <1>2, Arithmetic
  <2> QED
    BY <2>1 DEF Cred, Kinds
<1>4. creds' \in [Ids -> Cred]
  BY <1>1, <1>2, <1>3
<1>5. \A i \in Ids : i \in S => creds'[i].kind = "revoked" /\ creds'[i].left = 0 /\ creds'[i].of = creds[i].of
  BY <1>1, <1>2 DEF Cred
<1>6. \A i \in Ids : i \notin S => creds'[i] = creds[i]
  BY <1>1
<1> HIDE <1>1
<1>7. \A i \in S : creds[i].kind # "none"
  BY <1>1
<1>8. CredsOK'
  <2>1. \A k \in Ids : creds[k].of # 0 => creds[k].of \in Ids
    BY <1>2, Arithmetic DEF Cred, Ids
  <2> QED
    BY <1>4, <1>5, <1>6, <2>1, Arithmetic DEF CredsOK
<1>9. InOrder'
  BY <1>5, <1>6, <1>7 DEF InOrder
<1>10. AllKept
  BY <1>2, <1>5, <1>6, Arithmetic DEF AllKept, Kept, Cred
<1> QED
  BY <1>8, <1>9, <1>10

LEMMA IssuesKeeps ==
  ASSUME CredsOK, InOrder, Issues
  PROVE  CredsOK' /\ InOrder' /\ AllKept
<1>1. PICK kind \in {"handoff", "lease"}, from \in 0 .. MaxCreds :
        /\ CanIssue /\ Known(from)
        /\ creds' = spends(issued(creds, kind, IF kind = "lease" THEN Idle ELSE Ttl, from), from)
  BY DEF Issues
<1> DEFINE life == IF kind = "lease" THEN Idle ELSE Ttl
           new == [kind |-> kind, left |-> life, of |-> from]
<1>2. life \in 0 .. Ttl + Idle
  BY Arithmetic
<1>3. new \in Cred
  BY <1>2 DEF Cred, Kinds
<1>4. PICK n \in Ids : IsNext(n, kind, life, from)
  BY <1>1, <1>2, NextOne
<1> DEFINE spent == [creds[from] EXCEPT !.left = 0, !.kind = "revoked"]
<1>5. /\ \A i \in Ids : creds[i].kind # "none" <=> i < n
      /\ issued(creds, kind, life, from) = [creds EXCEPT ![n] = new]
  BY <1>4 DEF IsNext
<1>6. from # 0 => from \in Ids /\ from < n
  BY <1>1, <1>5, Arithmetic DEF Known, Ids
<1>7. from # 0 => spent \in Cred /\ spent.left = 0 /\ spent.kind = "revoked" /\ spent.of = creds[from].of
  <2> SUFFICES ASSUME from # 0
               PROVE  spent \in Cred /\ spent.left = 0 /\ spent.kind = "revoked" /\ spent.of = creds[from].of
    OBVIOUS
  <2>1. creds[from] \in Cred /\ 0 \in 0 .. Ttl + Idle
    BY <1>6, Arithmetic DEF CredsOK
  <2> QED
    BY <2>1 DEF Cred, Kinds
<1>8. /\ creds' \in [Ids -> Cred]
      /\ creds'[n] = new
      /\ from # 0 => creds'[from] = spent
      /\ \A i \in Ids : i # n /\ i # from => creds'[i] = creds[i]
  <2>1. CASE from = 0
    <3>1. creds' = [creds EXCEPT ![n] = new]
      BY <1>1, <1>5, <2>1 DEF spends
    <3> QED
      BY <1>3, <2>1, <3>1 DEF CredsOK, Ids
  <2>2. CASE from # 0
    <3>1. creds' = revoked([creds EXCEPT ![n] = new], from)
      BY <1>1, <1>5, <2>2 DEF spends
    <3> DEFINE cs == [creds EXCEPT ![n] = new]
    <3>2. cs \in [Ids -> Cred] /\ cs[from] = creds[from] /\ cs[n] = new
          /\ \A i \in Ids : i # n => cs[i] = creds[i]
      BY <1>3, <1>6, <2>2, Arithmetic DEF CredsOK, Ids
    <3> HIDE DEF cs, new
    <3>3. creds' = [cs EXCEPT ![from] = spent]
      BY <3>1, <3>2, <1>6, <2>2 DEF revoked, cs
    <3> HIDE DEF spent
    <3> QED
      BY <3>2, <3>3, <1>6, <1>7, <2>2, Arithmetic DEF Ids
  <2> QED
    BY <2>1, <2>2
<1>9. creds'[n].kind = kind /\ creds'[n].left = life /\ creds'[n].of = from
  BY <1>8
<1>10. from # 0 => creds'[from].kind = "revoked" /\ creds'[from].left = 0 /\ creds'[from].of = creds[from].of
  BY <1>7, <1>8
<1>11. \A i \in Ids : creds[i].of # 0 => creds[i].of \in Ids /\ creds[i].of # n
  BY <1>5, Arithmetic DEF CredsOK, Cred, Ids
<1>12. \A i \in Ids : i # 0
  BY Arithmetic DEF Ids
<1>13. kind = "lease" => life <= Idle
  BY Arithmetic
<1> HIDE DEF life, new, spent
<1>14. CredsOK'
  <2>1. ASSUME NEW i \in Ids
        PROVE  creds'[i].kind \in {"none", "revoked"} => creds'[i].left = 0
    BY <1>12, <1>2, <1>6, <1>8, <1>9, <1>10 DEF CredsOK
  <2>2. ASSUME NEW i \in Ids
        PROVE  creds'[i].kind = "lease" => creds'[i].left <= Idle
    BY <1>12, <1>6, <1>8, <1>9, <1>10, <1>13 DEF CredsOK
  <2>3. ASSUME NEW i \in Ids, creds'[i].of # 0
        PROVE  creds'[creds'[i].of].kind = "revoked"
    <3>1. CASE i = n
      BY <1>9, <1>10, <2>3, <3>1
    <3>2. CASE i # n
      <4>1. creds'[i].of = creds[i].of
        BY <1>12, <1>6, <1>8, <1>10, <3>2
      <4>2. creds[creds[i].of].kind = "revoked"
        BY <2>3, <4>1 DEF CredsOK
      <4> QED
        BY <1>8, <1>10, <1>11, <2>3, <4>1, <4>2
    <3> QED
      BY <3>1, <3>2
  <2> QED
    BY <1>8, <2>1, <2>2, <2>3 DEF CredsOK
<1>15. InOrder'
  <2>1. \A i \in Ids : creds'[i].kind # "none" <=> i <= n
    BY <1>5, <1>6, <1>8, <1>9, <1>10, Arithmetic DEF Ids
  <2>2. n \in 0 .. MaxCreds
    BY Arithmetic DEF Ids
  <2> QED
    BY <2>1, <2>2 DEF InOrder
<1>16. AllKept
  <2>1. \A i \in Ids : creds[i].kind # "none" => i # n
    BY <1>5, Arithmetic DEF Ids
  <2>2. \A i \in Ids : creds[i].left \in Nat
    BY Arithmetic DEF CredsOK, Cred
  <2> QED
    BY <1>12, <1>6, <1>8, <1>10, <2>1, <2>2 DEF AllKept, Kept
<1> QED
  BY <1>14, <1>15, <1>16

-----------------------------------------------------------------------------
(***************************************************************************)
(* What a step of one client leaves of the others.                         *)
(***************************************************************************)
CredsMove == UNCHANGED creds \/ Authorizes \/ Revokes \/ Issues

LEMMA CredsMoveKeeps ==
  ASSUME CredsOK, InOrder, CredsMove
  PROVE  CredsOK' /\ InOrder' /\ AllKept
<1>1. CASE UNCHANGED creds
  <2>1. CredsOK' /\ InOrder'
    BY <1>1 DEF CredsOK, InOrder
  <2>2. AllKept
    BY <1>1, Arithmetic DEF AllKept, Kept, CredsOK, Cred
  <2> QED
    BY <2>1, <2>2
<1> QED
  BY <1>1, AuthorizesKeeps, RevokesKeeps, IssuesKeeps DEF CredsMove

LEMMA KnownStays ==
  ASSUME AllKept, NEW i, Known(i)
  PROVE  i \in 0 .. MaxCreds /\ (i # 0 => creds'[i].kind # "none")
BY Arithmetic DEF AllKept, Kept, Known, Ids

LEMMA LastsStays ==
  ASSUME CredsOK, CredsOK', AllKept, NEW i, NEW lost \in Nat, Lasts(i, lost)
  PROVE  i \in Ids /\ (creds'[i].kind = "revoked" \/ (creds'[i].kind = "lease" /\ creds'[i].left + lost >= Idle))
<1>1. i \in Ids /\ creds[i] \in Cred /\ creds'[i] \in Cred /\ Kept(i)
  BY DEF CredsOK, AllKept, Lasts
<1> QED
  BY <1>1, Arithmetic DEF Kept, Lasts, Cred, CredsOK

\* An owner that a step does not move has all it had.
LEMMA Bystanders ==
  ASSUME TakeoverInv, CredsOK', AllKept, ControlOK', NEW o \in Owners,
         way'[o] = way[o], pc'[o] = pc[o], req'[o] = req[o], lease'[o] = lease[o], slept'[o] = slept[o]
  PROVE  LeaseOf(o)'
<1>1. slept[o] \in Nat /\ req[o].waited \in Nat /\ o \in Clients
  BY Arithmetic DEF TakeoverInv, ControlOK, Request, Clients
<1>2. LeaseOf(o) /\ CredsOK
  BY DEF TakeoverInv, LeasesOK
<1>3. (way[o] = "open" /\ pc[o] = "asking" /\ req[o].phase = "done") => Lasts(req[o].auth, 0)'
  BY <1>2, LastsStays DEF LeaseOf, Lasts
<1>4. (way[o] = "open" /\ pc[o] = "watching") => Lasts(lease[o],
   Patience + Delivery + slept[o] + req[o].waited)'
  <2>1. Patience + Delivery + slept[o] + req[o].waited \in Nat
    BY <1>1, Arithmetic
  <2> QED
    BY <1>2, <2>1, LastsStays DEF LeaseOf, Lasts
<1>5. (way[o] = "open" /\ pc[o] = "watching" /\ req[o].phase \in {"admitted",
   "done"}) => Lasts(lease[o], req[o].waited)'
  BY <1>1, <1>2, LastsStays DEF LeaseOf, Lasts
<1>6. (way[o] = "open" /\ pc[o] = "opening") => slept'[o] <= Delivery /\ Lasts(lease[o], slept[o])'
  BY <1>1, <1>2, LastsStays DEF LeaseOf, Lasts
<1> QED
  BY <1>3, <1>4, <1>5, <1>6 DEF LeaseOf

\* A step of one client keeps the invariant if it keeps that client's part of it.
LEMMA Turn ==
  ASSUME TakeoverInv, NEW c \in Clients, CredsMove, ControlOK', DownOK', UNCHANGED way,
         \A d \in Clients : d # c => pc'[d] = pc[d] /\ req'[d] = req[d],
         \A o \in Owners : o # c => lease'[o] = lease[o] /\ slept'[o] = slept[o],
         Known(url)', c \in Owners => Known(lease[c])', Known(req[c].auth)',
         Asked(c)', c = Agent => pc'[Agent] \in {"idle", "asking", "ended"},
         c \in Owners => LeaseOf(c)'
  PROVE  TakeoverInv'
<1>1. CredsOK' /\ InOrder' /\ AllKept
  BY CredsMoveKeeps DEF TakeoverInv
<1>2. Owners \subseteq Clients /\ Agent \in Clients
  BY DEF Clients
<1>3. RefsOK'
  <2>1. ASSUME NEW o \in Owners, o # c PROVE Known(lease[o])'
    BY <1>1, <2>1, KnownStays DEF TakeoverInv, RefsOK, Known
  <2>2. ASSUME NEW d \in Clients, d # c PROVE Known(req[d].auth)'
    BY <1>1, <2>2, KnownStays DEF TakeoverInv, RefsOK, Known
  <2> QED
    BY <2>1, <2>2 DEF RefsOK
<1>4. AskedOK'
  <2>1. ASSUME NEW d \in Clients, d # c PROVE Asked(d)'
    BY <2>1 DEF TakeoverInv, AskedOK, Asked
  <2>2. pc'[Agent] \in {"idle", "asking", "ended"}
    BY <1>2 DEF TakeoverInv, AskedOK
  <2> QED
    BY <2>1, <2>2 DEF AskedOK
<1>5. LeasesOK'
  <2>1. ASSUME NEW o \in Owners, o # c PROVE LeaseOf(o)'
    BY <1>1, <1>2, <2>1, Bystanders
  <2> QED
    BY <2>1 DEF LeasesOK
<1> QED
  BY <1>1, <1>3, <1>4, <1>5 DEF TakeoverInv

-----------------------------------------------------------------------------
(***************************************************************************)
(* The helpers of the actions.                                             *)
(***************************************************************************)

LEMMA RequestTypes ==
  ASSUME ControlOK, NEW c \in Clients
  PROVE  /\ req[c] \in Request /\ NoReq \in Request
         /\ \A spot \in Phases : [req[c] EXCEPT !.phase = spot] \in Request
         /\ \A what \in Whats : [NoReq EXCEPT !.what = what, !.phase = "sent"] \in Request
<1>1. 0 \in 0 .. MaxCreds /\ 0 \in 0 .. Patience
  BY Arithmetic
<1> QED
  BY <1>1 DEF ControlOK, Request, NoReq, Phases, Whats

LEMMA PhaseIs ==
  ASSUME ControlOK, NEW c \in Clients, NEW spot \in Phases, Phase(c, spot)
  PROVE  /\ req' \in [Clients -> Request]
         /\ req'[c].phase = spot /\ req'[c].what = req[c].what
         /\ req'[c].auth = req[c].auth /\ req'[c].waited = req[c].waited
         /\ \A d \in Clients : d # c => req'[d] = req[d]
<1>1. req' = [req EXCEPT ![c] = [req[c] EXCEPT !.phase = spot]]
  BY DEF Phase, ControlOK
<1> QED
  BY <1>1, RequestTypes DEF ControlOK, Request

LEMMA SendsIs ==
  ASSUME ControlOK, NEW c \in Clients, NEW what \in Whats, Sends(c, what)
  PROVE  /\ req' \in [Clients -> Request]
         /\ req'[c].phase = "sent" /\ req'[c].what = what
         /\ req'[c].auth = 0 /\ req'[c].waited = 0
         /\ \A d \in Clients : d # c => req'[d] = req[d]
<1>1. req' = [req EXCEPT ![c] = [NoReq EXCEPT !.what = what, !.phase = "sent"]]
  BY DEF Sends, ControlOK
<1> QED
  BY <1>1, RequestTypes DEF ControlOK, NoReq

LEMMA ClearsIs ==
  ASSUME ControlOK, NEW c \in Clients, Clears(c)
  PROVE  /\ req' \in [Clients -> Request]
         /\ req'[c] = NoReq
         /\ \A d \in Clients : d # c => req'[d] = req[d]
BY RequestTypes DEF Clears, ControlOK

LEMMA GotoIs ==
  ASSUME ControlOK, NEW c \in Clients,
         NEW spot \in {"idle", "asking", "opening", "watching", "revoking", "ended", "crashed"}, Goto(c, spot)
  PROVE  /\ pc' \in [Clients -> {"idle", "asking", "opening", "watching", "revoking", "ended", "crashed"}]
         /\ pc'[c] = spot
         /\ \A d \in Clients : d # c => pc'[d] = pc[d]
BY DEF Goto, ControlOK

\* A request tells where its client is, and who it is.
LEMMA Places ==
  ASSUME TakeoverInv, NEW c \in Clients, req[c].phase # "none"
  PROVE  /\ pc[c] \in {"asking", "watching", "revoking"}
         /\ pc[c] = "asking" => req[c].what \in (IF c = Agent THEN {"handoff"} ELSE {"exchange", "mint"})
         /\ pc[c] = "watching" => req[c].what = "renew"
         /\ pc[c] = "revoking" => req[c].what = "revoke"
         /\ req[c].what # "handoff" => c \in Owners
         /\ c = Agent => req[c].what = "handoff"
<1>1. Asked(c) /\ pc[c] \in {"idle", "asking", "opening", "watching", "revoking", "ended", "crashed"}
  BY DEF TakeoverInv, AskedOK, ControlOK
<1>2. req[c] # NoReq
  BY DEF NoReq
<1>3. c = Agent => pc[c] \in {"idle", "asking", "ended"}
  BY DEF TakeoverInv, AskedOK
<1>4. c = Agent \/ c \in Owners
  BY DEF Clients
<1> QED
  BY <1>1, <1>2, <1>3, <1>4 DEF Asked

LEMMA LiveIsKnown ==
  ASSUME CredsOK, NEW i, is_live(i)
  PROVE  i \in Ids /\ Known(i) /\ creds[i].kind \in {"handoff", "lease"}
<1>1. i \in Ids /\ creds[i] \in Cred /\ creds[i].left > 0
  BY DEF CredsOK, is_live
<1>2. creds[i].kind \notin {"none", "revoked"}
  BY <1>1 DEF CredsOK
<1> QED
  BY <1>1, <1>2, Arithmetic DEF Known, Ids, Cred, Kinds

\* A lease that has not lost everything, and was not revoked, authorises.
LEMMA LastingIsLive ==
  ASSUME CredsOK, NEW i, NEW lost \in Nat, lost < Idle, Lasts(i, lost)
  PROVE  is_live(i) \/ creds[i].kind = "revoked"
<1>1. i \in Ids /\ creds[i].left \in Nat
  BY Arithmetic DEF CredsOK, Cred, Lasts
<1> QED
  BY <1>1, Arithmetic DEF Lasts, is_live

-----------------------------------------------------------------------------
(***************************************************************************)
(* The steps of the host.                                                  *)
(***************************************************************************)

\* Handlers move the phase of their request, and maybe a credential.
LEMMA ArrivesStep ==
  ASSUME TakeoverInv, NEW c \in Clients, Arrives(c)
  PROVE  TakeoverInv'
<1> DEFINE i == secret(c)
<1>1. /\ req[c].phase = "sent" /\ req[c].phase # "none"
      /\ UNCHANGED <<token, host, backend, way, pc, url, lease, slept>>
  BY DEF Arrives, hostVars
<1>2. ControlOK /\ CredsOK /\ InOrder
  BY DEF TakeoverInv
<1>3. \/ /\ host # "up" /\ Phase(c, "lost") /\ UNCHANGED creds
      \/ /\ host = "up" /\ is_live(i) /\ creds' = authorized(i)
         /\ req' = [req EXCEPT ![c].phase = "admitted", ![c].auth = i]
      \/ /\ host = "up" /\ ~is_live(i) /\ UNCHANGED creds
         /\ Phase(c, IF token /\ req[c].what \in {"exchange", "renew", "revoke"} THEN "refused" ELSE "admitted")
  BY DEF Arrives
<1>4. /\ req' \in [Clients -> Request]
      /\ req'[c].phase \in {"lost", "admitted", "refused"}
      /\ host # "up" => req'[c].phase = "lost"
      /\ req'[c].what = req[c].what /\ req'[c].waited = req[c].waited
      /\ req'[c].auth = req[c].auth \/ (is_live(i) /\ req'[c].auth = i)
      /\ \A d \in Clients : d # c => req'[d] = req[d]
  <2>1. CASE is_live(i) /\ req' = [req EXCEPT ![c].phase = "admitted",
     ![c].auth = i] /\ host = "up"
    <3>1. i \in 0 .. MaxCreds
      BY <1>2, <2>1, LiveIsKnown DEF Known
    <3>2. req[c] \in Request
      BY <1>2 DEF ControlOK
    <3>3. [req[c] EXCEPT !.phase = "admitted", !.auth = i] \in Request
      BY <3>1, <3>2 DEF Request, Phases
    <3>4. req' = [req EXCEPT ![c] = [req[c] EXCEPT !.phase = "admitted", !.auth = i]]
      BY <1>2, <2>1 DEF ControlOK
    <3> HIDE DEF i
    <3>5. req' \in [Clients -> Request] /\ req'[c] = [req[c] EXCEPT !.phase = "admitted",
       !.auth = i]
          /\ \A d \in Clients : d # c => req'[d] = req[d]
      BY <1>2, <3>3, <3>4 DEF ControlOK
    <3>6. /\ req'[c].phase = "admitted" /\ req'[c].auth = i
          /\ req'[c].what = req[c].what /\ req'[c].waited = req[c].waited
      BY <3>2, <3>5 DEF Request
    <3> QED
      BY <2>1, <3>5, <3>6
  <2>2. ASSUME NEW spot \in {"lost", "refused", "admitted"}, Phase(c, spot),
     host # "up" => spot = "lost"
        PROVE  <1>4
    <3>1. spot \in Phases
      BY <2>2 DEF Phases
    <3> QED
      BY <1>2, <2>2, <3>1, PhaseIs
  <2> QED
    BY <1>3, <2>1, <2>2
<1>5. CredsMove
  <2>1. is_live(i) => i \in Ids
    BY DEF is_live
  <2> QED
    BY <1>3, <2>1 DEF CredsMove, Authorizes
<1>6. CredsOK' /\ InOrder' /\ AllKept
  BY <1>2, <1>5, CredsMoveKeeps
<1>7. ControlOK'
  BY <1>1, <1>2, <1>4 DEF ControlOK
<1>8. DownOK'
  BY <1>1, <1>3, <1>4 DEF TakeoverInv, DownOK, Phase
<1>9. Known(req[c].auth)'
  <2>1. Known(req'[c].auth)
    BY <1>2, <1>4, LiveIsKnown DEF TakeoverInv, RefsOK
  <2> QED
    BY <1>6, <2>1, KnownStays DEF Known
<1>10. Known(url)' /\ (c \in Owners => Known(lease[c])')
  BY <1>1, <1>6, KnownStays DEF TakeoverInv, RefsOK, Known
<1>11. Asked(c)'
  BY <1>1, <1>4, Places DEF Asked
<1>12. ASSUME c \in Owners PROVE LeaseOf(c)'
  <2> SUFFICES ASSUME way[c] = "open", pc[c] = "watching"
               PROVE  /\ Lasts(lease[c], Patience + Delivery + slept[c] + req[c].waited)'
                      /\ req'[c].phase = "admitted" => Lasts(lease[c], req[c].waited)'
    BY <1>1, <1>4, Places DEF LeaseOf
  <2> DEFINE lost == Patience + Delivery + slept[c] + req[c].waited
  <2>1. /\ req[c].waited \in 0 .. Patience /\ slept[c] \in 0 .. Every
        /\ lost \in Nat /\ lost < Idle
    BY <1>2, <1>12, Arithmetic DEF ControlOK, Request
  <2>2. Lasts(lease[c], lost)
    BY <1>12 DEF TakeoverInv, LeasesOK, LeaseOf
  <2>3. i = lease[c]
    BY <1>1, Places DEF secret
  <2>4. Lasts(lease[c], lost)'
    BY <1>1, <1>4, <1>6, <1>2, <2>1, <2>2, LastsStays DEF Lasts
  <2>5. ASSUME req'[c].phase = "admitted" PROVE Lasts(lease[c], req[c].waited)'
    <3>1. CASE ~is_live(i)
      <4>1. creds[lease[c]].kind = "revoked"
        BY <1>2, <2>1, <2>2, <2>3, <3>1, LastingIsLive
      <4>2. UNCHANGED creds
        BY <1>3, <3>1
      <4> QED
        BY <1>1, <2>2, <4>1, <4>2 DEF Lasts
    <3>2. CASE is_live(i)
      <4>1. creds' = authorized(i) /\ i \in Ids
        BY <1>3, <1>4, <2>5, <3>2, LiveIsKnown, <1>2
      <4>2. creds[i].kind = "lease"
        BY <1>2, <2>2, <2>3, <3>2, LiveIsKnown DEF Lasts
      <4>3. creds'[i].left = Idle /\ creds'[i].kind = "lease"
        BY <1>2, <4>1, <4>2 DEF authorized, CredsOK, Cred
      <4>4. creds'[i].left + req[c].waited >= Idle
        BY <2>1, <4>3, Arithmetic
      <4>5. lease'[c] = i /\ req'[c].waited = req[c].waited
        BY <1>1, <1>4, <2>3
      <4> HIDE DEF i
      <4> QED
        BY <4>1, <4>3, <4>4, <4>5 DEF Lasts
    <3> QED
      BY <3>1, <3>2
  <2> QED
    BY <2>4, <2>5
<1>13. c = Agent => pc'[Agent] \in {"idle", "asking", "ended"}
  BY <1>1 DEF TakeoverInv, AskedOK
<1> QED
  BY <1>1, <1>4, <1>5, <1>7, <1>8, <1>9, <1>10, <1>11, <1>12, <1>13, Turn

\* A request that moves on and keeps its authorisation: it fails, is lost, or
\* is done by a client that holds its lease already.
LEMMA PhaseStep ==
  ASSUME TakeoverInv, NEW c \in Clients, NEW spot \in {"refused", "done", "lost"}, Phase(c, spot),
         req[c].phase # "none", CredsMove, host = "down" => creds' = creds,
         UNCHANGED <<token, host, backend, way, pc, url, lease, slept>>,
         spot = "done" => pc[c] # "asking" /\ req[c].phase = "admitted"
  PROVE  TakeoverInv'
<1>1. ControlOK /\ CredsOK /\ InOrder /\ spot \in Phases
  BY DEF TakeoverInv, Phases
<1>2. /\ req' \in [Clients -> Request]
      /\ req'[c].phase = spot /\ req'[c].what = req[c].what
      /\ req'[c].auth = req[c].auth /\ req'[c].waited = req[c].waited
      /\ \A d \in Clients : d # c => req'[d] = req[d]
  BY <1>1, PhaseIs
<1>3. CredsOK' /\ InOrder' /\ AllKept
  BY <1>1, CredsMoveKeeps
<1>4. ControlOK'
  BY <1>1, <1>2 DEF ControlOK
<1>5. DownOK'
  BY <1>2 DEF TakeoverInv, DownOK, Phase
<1>6. Known(url)' /\ (c \in Owners => Known(lease[c])') /\ Known(req[c].auth)'
  BY <1>2, <1>3, KnownStays DEF TakeoverInv, RefsOK, Known
<1>7. Asked(c)'
  BY <1>2, Places DEF Asked
<1>8. ASSUME c \in Owners PROVE LeaseOf(c)'
  <2> SUFFICES ASSUME way[c] = "open", pc[c] = "watching"
               PROVE  /\ Lasts(lease[c], Patience + Delivery + slept[c] + req[c].waited)'
                      /\ spot = "done" => Lasts(lease[c], req[c].waited)'
    BY <1>2, Places DEF LeaseOf
  <2>1. /\ req[c].waited \in Nat /\ slept[c] \in Nat
        /\ Patience + Delivery + slept[c] + req[c].waited \in Nat
    BY <1>1, <1>8, Arithmetic DEF ControlOK, Request
  <2>2. LeaseOf(c)
    BY <1>8 DEF TakeoverInv, LeasesOK
  <2>3. Lasts(lease[c], Patience + Delivery + slept[c] + req[c].waited)'
    BY <1>1, <1>2, <1>3, <2>1, <2>2, LastsStays DEF Lasts, LeaseOf
  <2>4. spot = "done" => Lasts(lease[c], req[c].waited)'
    BY <1>1, <1>2, <1>3, <2>1, <2>2, LastsStays DEF Lasts, LeaseOf
  <2> QED
    BY <2>3, <2>4
<1>9. c = Agent => pc'[Agent] \in {"idle", "asking", "ended"}
  BY DEF TakeoverInv, AskedOK
<1> QED
  BY <1>2, <1>4, <1>5, <1>6, <1>7, <1>8, <1>9, Turn

LEMMA HandledStep ==
  ASSUME TakeoverInv, NEW c \in Clients,
         NotReady(c) \/ takeover_ui_session_keep_alive(c) \/ takeover_ui_session_revoke(c) \/ Loses(c)
  PROVE  TakeoverInv'
<1>1. CASE NotReady(c)
  <2>1. CredsMove
    BY <1>1 DEF NotReady, CredsMove
  <2> QED
    BY <1>1, <2>1, PhaseStep DEF NotReady, hostVars
<1>2. CASE takeover_ui_session_keep_alive(c)
  <2>1. CredsMove
    BY <1>2 DEF takeover_ui_session_keep_alive, CredsMove
  <2>2. req[c].phase = "admitted" /\ req[c].what = "renew"
    BY <1>2 DEF takeover_ui_session_keep_alive
  <2>3. pc[c] # "asking"
    BY <2>2, Places
  <2> QED
    BY <1>2, <2>1, <2>2, <2>3, PhaseStep DEF takeover_ui_session_keep_alive, hostVars
<1>3. CASE takeover_ui_session_revoke(c)
  <2>1. req[c].phase = "admitted" /\ req[c].what = "revoke"
    BY <1>3 DEF takeover_ui_session_revoke
  <2>2. pc[c] # "asking"
    BY <2>1, Places
  <2>3. host # "down"
    BY <2>1 DEF TakeoverInv, DownOK
  <2>4. CredsMove
    <3>1. CASE is_live(lease[c])
      <4>1. lease[c] \in Ids /\ creds[lease[c]].kind # "none"
        BY <3>1, LiveIsKnown DEF TakeoverInv
      <4>2. creds' = [creds EXCEPT ![lease[c]] = [creds[lease[c]] EXCEPT !.left = 0,
         !.kind = "revoked"]]
        BY <1>3, <3>1, <4>1 DEF takeover_ui_session_revoke, revoked, TakeoverInv, CredsOK
      <4>3. creds' = [i \in Ids |-> IF i \in {lease[c]} THEN [creds[i] EXCEPT !.left = 0,
         !.kind = "revoked"]
                                    ELSE creds[i]]
        BY <4>1, <4>2 DEF TakeoverInv, CredsOK
      <4> QED
        BY <4>1, <4>3 DEF CredsMove, Revokes
    <3>2. CASE ~is_live(lease[c])
      BY <1>3, <3>2 DEF takeover_ui_session_revoke, CredsMove
    <3> QED
      BY <3>1, <3>2
  <2> QED
    BY <1>3, <2>1, <2>2, <2>3, <2>4, PhaseStep DEF takeover_ui_session_revoke, hostVars
<1>4. CASE Loses(c)
  <2>1. CredsMove
    BY <1>4 DEF Loses, CredsMove
  <2> QED
    BY <1>4, <2>1, PhaseStep DEF Loses, hostVars
<1> QED
  BY <1>1, <1>2, <1>3, <1>4

\* What a handler mints is its client's to know.
MintsFor(c, kind, life, from) ==
  /\ req[c].phase = "admitted" /\ req[c].what \in {"handoff", "exchange", "mint"}
  /\ CanIssue /\ Known(from)
  /\ creds' = spends(issued(creds, kind, life, from), from)
  /\ req' = [req EXCEPT ![c].phase = "done", ![c].auth = newest(issued(creds, kind, life, from))]
  /\ UNCHANGED <<token, host, backend, way, pc, url, lease, slept>>

LEMMA MintStep ==
  ASSUME TakeoverInv, NEW c \in Clients, NEW kind \in {"handoff", "lease"}, NEW from \in 0 .. MaxCreds,
         NEW life, life = IF kind = "lease" THEN Idle ELSE Ttl,
         kind = "lease" <=> req[c].what # "handoff", MintsFor(c, kind, life, from)
  PROVE  TakeoverInv'
<1> DEFINE new == [kind |-> kind, left |-> life, of |-> from]
<1>1. ControlOK /\ CredsOK /\ InOrder
  BY DEF TakeoverInv
<1>2. CanIssue /\ Known(from)
  BY DEF MintsFor
<1>3. life \in 0 .. Ttl + Idle
  BY Arithmetic
<1>4. \E n \in Ids : IsNext(n, kind, life, from)
  BY <1>1, <1>2, <1>3, NextOne
<1>5. PICK n \in Ids :
        /\ \A i \in Ids : creds[i].kind # "none" <=> i < n
        /\ issued(creds, kind, life, from) = [creds EXCEPT ![n] = new]
        /\ newest(issued(creds, kind, life, from)) = n
  BY <1>4 DEF IsNext
<1>6. CredsMove
  BY <1>1 DEF CredsMove, Issues, MintsFor
<1>7. CredsOK' /\ InOrder' /\ AllKept
  BY <1>1, <1>6, CredsMoveKeeps
<1>8. creds'[n] = new
  <2>1. from # n
    BY <1>5, <1>2, Arithmetic DEF Known, Ids
  <2>2. [creds EXCEPT ![n] = new][n] = new
    BY <1>1 DEF CredsOK
  <2> QED
    <3>1. CASE from = 0
      BY <1>5, <2>2, <3>1 DEF spends, MintsFor
    <3>2. CASE from # 0
      <4> DEFINE cs == [creds EXCEPT ![n] = new]
      <4>1. creds' = revoked(cs, from)
        BY <1>5, <3>2 DEF spends, MintsFor
      <4>2. cs \in [Ids -> Cred]
        BY <1>1, <1>3 DEF CredsOK, Cred, Kinds
      <4> HIDE DEF cs, new
      <4>3. creds' = [cs EXCEPT ![from] = [cs[from] EXCEPT !.left = 0, !.kind = "revoked"]]
        BY <4>1, <4>2 DEF revoked
      <4>4. creds'[n] = cs[n]
        BY <2>1, <4>2, <4>3
      <4> QED
        BY <2>2, <4>4 DEF cs
    <3> QED
      BY <3>1, <3>2
<1>9. /\ req' \in [Clients -> Request]
      /\ req'[c].phase = "done" /\ req'[c].what = req[c].what /\ req'[c].auth = n
      /\ \A d \in Clients : d # c => req'[d] = req[d]
  <2>1. n \in 0 .. MaxCreds
    BY Arithmetic DEF Ids
  <2>2. req[c] \in Request
    BY <1>1 DEF ControlOK
  <2>3. [req[c] EXCEPT !.phase = "done", !.auth = n] \in Request
    BY <2>1, <2>2 DEF Request, Phases
  <2>4. req' = [req EXCEPT ![c] = [req[c] EXCEPT !.phase = "done", !.auth = n]]
    BY <1>1, <1>5 DEF ControlOK, MintsFor
  <2>5. req' \in [Clients -> Request] /\ req'[c] = [req[c] EXCEPT !.phase = "done",
     !.auth = n]
        /\ \A d \in Clients : d # c => req'[d] = req[d]
    BY <1>1, <2>3, <2>4 DEF ControlOK
  <2>6. /\ req'[c].phase = "done" /\ req'[c].auth = n /\ req'[c].what = req[c].what
    BY <2>2, <2>5 DEF Request
  <2> QED
    BY <2>5, <2>6
<1>10. ControlOK'
  BY <1>1, <1>9 DEF ControlOK, MintsFor
<1>11. DownOK'
  BY DEF TakeoverInv, DownOK, MintsFor
<1>12. Known(url)' /\ (c \in Owners => Known(lease[c])')
  BY <1>7, KnownStays DEF TakeoverInv, RefsOK, Known, MintsFor
<1>13. Known(req[c].auth)'
  BY <1>8, <1>9, Arithmetic DEF Known, Ids
<1>14. /\ pc[c] = "asking" /\ pc' = pc
       /\ req[c].what \in (IF c = Agent THEN {"handoff"} ELSE {"exchange", "mint"})
  BY Places DEF MintsFor
<1>15. Asked(c)'
  BY <1>9, <1>14 DEF Asked
<1>16. ASSUME c \in Owners PROVE LeaseOf(c)'
  <2>1. c # Agent
    BY <1>16, AgentAssumption
  <2>2. kind = "lease"
    BY <1>14, <2>1
  <2>3. Lasts(req[c].auth, 0)'
    BY <1>8, <1>9, <2>2, Arithmetic DEF Lasts
  <2> QED
    BY <1>14, <2>3 DEF LeaseOf
<1>17. c = Agent => pc'[Agent] \in {"idle", "asking", "ended"}
  BY <1>14 DEF TakeoverInv, AskedOK
<1>18. UNCHANGED <<way, lease, slept>>
  BY DEF MintsFor
<1> QED
  BY <1>6, <1>14, <1>18, <1>9, <1>10, <1>11, <1>12, <1>13, <1>15, <1>16, <1>17, Turn

LEMMA MintsHandoffStep ==
  ASSUME TakeoverInv, NEW c \in Clients, MintsHandoff(c)
  PROVE  TakeoverInv'
<1>1. Known(0) /\ 0 \in 0 .. MaxCreds
  BY Arithmetic DEF Known
<1>2. /\ req[c].phase = "admitted" /\ req[c].what = "handoff" /\ CanIssue
      /\ creds' = issued(creds, "handoff", Ttl, 0)
      /\ req' = [req EXCEPT ![c].phase = "done", ![c].auth = newest(creds')]
      /\ UNCHANGED <<token, host, backend, way, pc, url, lease, slept>>
  BY DEF MintsHandoff, hostVars
<1>3. /\ creds' = spends(issued(creds, "handoff", Ttl, 0), 0)
      /\ req' = [req EXCEPT ![c].phase = "done",
                  ![c].auth = newest(issued(creds, "handoff", Ttl, 0))]
  BY <1>2 DEF spends
<1> QED
  BY <1>1, <1>2, <1>3, MintStep DEF MintsFor

LEMMA SessionCreateStep ==
  ASSUME TakeoverInv, NEW c \in Clients, takeover_ui_session_create(c)
  PROVE  TakeoverInv'
<1> DEFINE from == req[c].auth
<1>1. Known(from) /\ from \in 0 .. MaxCreds
  BY DEF TakeoverInv, RefsOK, Known
<1>2. /\ req[c].phase = "admitted" /\ req[c].what \in {"exchange", "mint"} /\ CanIssue
      /\ creds' = spends(issued(creds, "lease", Idle, from), from)
      /\ req' = [req EXCEPT ![c].phase = "done", ![c].auth = newest(issued(creds, "lease", Idle, from))]
      /\ UNCHANGED <<token, host, backend, way, pc, url, lease, slept>>
  BY DEF takeover_ui_session_create, hostVars
<1>3. /\ creds' = spends(issued(creds, "lease", Idle, from), from)
      /\ req' = [req EXCEPT ![c].phase = "done",
                  ![c].auth = newest(issued(creds, "lease", Idle, from))]
  BY <1>2
<1> HIDE DEF from
<1> QED
  BY <1>1, <1>2, <1>3, MintStep DEF MintsFor

\* The host and its browser change, and a window stays or goes.
LEMMA QuietStep ==
  ASSUME TakeoverInv, CredsMove, DownOK',
         host' \in {"up", "draining", "down"}, backend' \in {"up", "quiet", "gone"},
         UNCHANGED <<token, way, pc, url, lease, slept, req>>
  PROVE  TakeoverInv'
<1>1. ControlOK /\ CredsOK /\ InOrder /\ Agent \in Clients
  BY DEF TakeoverInv, Clients
<1>2. ControlOK'
  BY <1>1 DEF ControlOK
<1>3. CredsOK' /\ InOrder' /\ AllKept
  BY <1>1, CredsMoveKeeps
<1>4. Known(url)' /\ Known(req[Agent].auth)'
  BY <1>1, <1>3, KnownStays DEF TakeoverInv, RefsOK, Known
<1>5. Asked(Agent)' /\ pc'[Agent] \in {"idle", "asking", "ended"}
  BY <1>1 DEF TakeoverInv, AskedOK, Asked
<1>6. Agent \notin Owners
  BY AgentAssumption
<1> QED
  BY <1>1, <1>2, <1>4, <1>5, <1>6, Turn

LEMMA HostStep ==
  ASSUME TakeoverInv,
         \/ Switches \/ ShutdownBegins \/ ShutdownEnds
         \/ \E how \in {"quiet", "gone"} : BackendFails(how)
         \/ \E o \in Owners : PanelLoads(o) \/ WindowCloses(o)
  PROVE  TakeoverInv'
<1>1. CredsOK /\ host \in {"up", "draining", "down"} /\ backend \in {"up", "quiet", "gone"}
  BY DEF TakeoverInv, ControlOK
<1>2. ASSUME revoke_takeover_handoffs
      PROVE  Revokes /\ \A i \in Ids : creds'[i].left = 0
  <2> DEFINE S == {i \in Ids : is_live(i)}
  <2>1. \A i \in S : creds[i].kind # "none"
    BY <1>1, LiveIsKnown
  <2>2. creds' = [i \in Ids |-> IF i \in S THEN [creds[i] EXCEPT !.left = 0,
     !.kind = "revoked"] ELSE creds[i]]
    BY <1>2 DEF revoke_takeover_handoffs
  <2>3. Revokes
    BY <2>1, <2>2 DEF Revokes
  <2>4. \A i \in Ids : creds[i] \in Cred
    BY <1>1 DEF CredsOK
  <2>5. \A i \in Ids : i \notin S => creds[i].left = 0
    BY <2>4, Arithmetic DEF Cred, is_live
  <2> QED
    BY <2>2, <2>3, <2>4, <2>5 DEF Cred
<1>3. CASE Switches
  <2>1. CredsMove
    BY <1>2, <1>3 DEF Switches, CredsMove
  <2>2. DownOK'
    BY <1>3 DEF Switches, DownOK
  <2> QED
    BY <1>1, <1>3, <2>1, <2>2, QuietStep DEF Switches
<1>4. CASE ShutdownBegins
  <2>1. CredsMove /\ DownOK'
    BY <1>4 DEF ShutdownBegins, CredsMove, DownOK
  <2> QED
    BY <1>1, <1>4, <2>1, QuietStep DEF ShutdownBegins
<1>5. CASE ShutdownEnds
  <2>1. CredsMove
    BY <1>2, <1>5 DEF ShutdownEnds, CredsMove
  <2>2. DownOK'
    BY <1>2, <1>5 DEF ShutdownEnds, DownOK, served, InFlight
  <2> QED
    BY <1>1, <1>5, <2>1, <2>2, QuietStep DEF ShutdownEnds
<1>6. ASSUME NEW how \in {"quiet", "gone"}, BackendFails(how) PROVE TakeoverInv'
  <2>1. CredsMove /\ DownOK'
    BY <1>6 DEF BackendFails, CredsMove, DownOK, TakeoverInv
  <2> QED
    BY <1>1, <1>6, <2>1, QuietStep DEF BackendFails
<1>7. ASSUME NEW o \in Owners, PanelLoads(o) PROVE TakeoverInv'
  <2>1. Authorizes
    BY <1>7 DEF PanelLoads, Authorizes, is_live
  <2>2. CredsMove /\ DownOK'
    BY <1>7, <2>1 DEF PanelLoads, CredsMove, DownOK, hostVars
  <2> QED
    BY <1>1, <1>7, <2>2, QuietStep DEF PanelLoads, hostVars
<1>8. ASSUME NEW o \in Owners, WindowCloses(o) PROVE TakeoverInv'
  <2>1. CredsMove /\ DownOK'
    BY <1>8 DEF WindowCloses, CredsMove, DownOK, TakeoverInv, hostVars
  <2> QED
    BY <1>1, <1>8, <2>1, QuietStep DEF WindowCloses, hostVars
<1> QED
  BY <1>3, <1>4, <1>5, <1>6, <1>7, <1>8

-----------------------------------------------------------------------------
(***************************************************************************)
(* The steps of the agent and the panel commands.                          *)
(***************************************************************************)

\* A command moves, and asks for nothing the host has admitted.
LEMMA CommandStep ==
  ASSUME TakeoverInv, NEW c \in Clients, UNCHANGED <<token, host, backend, way, creds>>,
         pc' \in [Clients -> {"idle", "asking", "opening", "watching", "revoking", "ended", "crashed"}],
         req' \in [Clients -> Request],
         \A d \in Clients : d # c => pc'[d] = pc[d] /\ req'[d] = req[d],
         lease' \in [Owners -> 0 .. MaxCreds], slept' \in [Owners -> 0 .. Every],
         \A o \in Owners : o # c => lease'[o] = lease[o] /\ slept'[o] = slept[o],
         Known(url'), c \in Owners => Known(lease'[c]), Known(req'[c].auth),
         req'[c].phase # "admitted", Asked(c)', c = Agent => pc'[Agent] \in {"idle", "asking", "ended"},
         c \in Owners => LeaseOf(c)'
  PROVE  TakeoverInv'
<1>1. CredsMove
  BY DEF CredsMove
<1>2. ControlOK'
  BY DEF TakeoverInv, ControlOK
<1>3. DownOK'
  BY DEF TakeoverInv, DownOK
<1>4. Known(url)' /\ (c \in Owners => Known(lease[c])') /\ Known(req[c].auth)'
  BY DEF Known
<1> QED
  BY <1>1, <1>2, <1>3, <1>4, Turn

LEMMA AgentStep ==
  ASSUME TakeoverInv, AgentAsks \/ AgentGetsUrl \/ AgentFails
  PROVE  TakeoverInv'
<1>1. /\ ControlOK /\ Agent \in Clients /\ Agent \notin Owners /\ Known(0) /\ "handoff" \in Whats
      /\ lease \in [Owners -> 0 .. MaxCreds] /\ slept \in [Owners -> 0 .. Every]
      /\ Known(url) /\ Known(req[Agent].auth)
  BY AgentAssumption, Arithmetic DEF TakeoverInv, ControlOK, RefsOK, Clients, Known, Whats
<1>2. CASE AgentAsks
  <2>1. /\ Goto(Agent, "asking") /\ Sends(Agent, "handoff")
        /\ UNCHANGED <<token, host, backend, way, creds, url, lease, slept>>
    BY <1>2 DEF AgentAsks, hostVars
  <2>2. /\ req' \in [Clients -> Request]
        /\ req'[Agent].phase = "sent" /\ req'[Agent].what = "handoff" /\ req'[Agent].auth = 0
        /\ \A d \in Clients : d # Agent => req'[d] = req[d]
    BY <1>1, <2>1, SendsIs
  <2>3. /\ pc' \in [Clients -> {"idle", "asking", "opening", "watching", "revoking", "ended", "crashed"}]
        /\ pc'[Agent] = "asking" /\ \A d \in Clients : d # Agent => pc'[d] = pc[d]
    BY <1>1, <2>1, GotoIs
  <2>4. Asked(Agent)'
    BY <2>2, <2>3 DEF Asked
  <2> QED
    BY <1>1, <2>1, <2>2, <2>3, <2>4, CommandStep
<1>3. CASE AgentGetsUrl \/ AgentFails
  <2>1. /\ Goto(Agent, "ended") /\ Clears(Agent) /\ url' \in {url, req[Agent].auth}
        /\ UNCHANGED <<token, host, backend, way, creds, lease, slept>>
    BY <1>3 DEF AgentGetsUrl, AgentFails, hostVars
  <2>2. /\ req' \in [Clients -> Request] /\ req'[Agent] = NoReq
        /\ \A d \in Clients : d # Agent => req'[d] = req[d]
    BY <1>1, <2>1, ClearsIs
  <2>3. /\ pc' \in [Clients -> {"idle", "asking", "opening", "watching", "revoking", "ended", "crashed"}]
        /\ pc'[Agent] = "ended" /\ \A d \in Clients : d # Agent => pc'[d] = pc[d]
    BY <1>1, <2>1, GotoIs
  <2>4. Asked(Agent)'
    BY <2>2, <2>3 DEF Asked
  <2>5. req'[Agent].phase # "admitted" /\ req'[Agent].auth = 0
    BY <2>2 DEF NoReq
  <2> QED
    BY <1>1, <2>1, <2>2, <2>3, <2>4, <2>5, CommandStep
<1> QED
  BY <1>2, <1>3

\* A command that is over, crashed, or on its way out holds no lease any more.
LEMMA OutStep ==
  ASSUME TakeoverInv, NEW o \in Owners, UNCHANGED <<token, host, backend, way, creds, url>>,
         NEW spot \in {"asking", "revoking", "ended", "crashed"}, Goto(o, spot),
         lease' \in [Owners -> 0 .. MaxCreds], slept' \in [Owners -> 0 .. Every],
         \A p \in Owners : p # o => lease'[p] = lease[p] /\ slept'[p] = slept[p],
         Known(lease'[o]),
         NEW what \in {"none", "exchange", "mint", "revoke"}, IF what = "none" THEN Clears(o) ELSE Sends(o, what),
         what = "none" <=> spot \in {"ended", "crashed"}, what = "revoke" <=> spot = "revoking"
  PROVE  TakeoverInv'
<1>1. ControlOK /\ o \in Clients /\ o # Agent /\ Known(0) /\ what \in Whats /\ Known(url)
  BY AgentAssumption, Arithmetic DEF TakeoverInv, RefsOK, Clients, Known, Whats
<1>2. /\ req' \in [Clients -> Request]
      /\ what = "none" => req'[o] = NoReq
      /\ what # "none" => req'[o].phase = "sent" /\ req'[o].what = what
      /\ req'[o].auth = 0 /\ req'[o].phase \in {"none", "sent"}
      /\ \A d \in Clients : d # o => req'[d] = req[d]
  <2>1. CASE what = "none"
    <3>1. req' \in [Clients -> Request] /\ req'[o] = NoReq /\ \A d \in Clients : d # o => req'[d] = req[d]
      BY <1>1, <2>1, ClearsIs
    <3> QED
      BY <2>1, <3>1 DEF NoReq
  <2>2. CASE what # "none"
    BY <1>1, <2>2, SendsIs
  <2> QED
    BY <2>1, <2>2
<1>3. /\ pc' \in [Clients -> {"idle", "asking", "opening", "watching", "revoking", "ended", "crashed"}]
      /\ pc'[o] = spot /\ \A d \in Clients : d # o => pc'[d] = pc[d]
  BY <1>1, GotoIs
<1>4. Asked(o)'
  BY <1>1, <1>2, <1>3 DEF Asked
<1>5. LeaseOf(o)'
  BY <1>2, <1>3 DEF LeaseOf
<1> QED
  BY <1>1, <1>2, <1>3, <1>4, <1>5, CommandStep

LEMMA AsksStep ==
  ASSUME TakeoverInv, NEW o \in Owners, Asks(o)
  PROVE  TakeoverInv'
<1>1. /\ lease \in [Owners -> 0 .. MaxCreds] /\ slept \in [Owners -> 0 .. Every] /\ Known(lease[o])
  BY DEF TakeoverInv, ControlOK, RefsOK
<1>2. /\ Goto(o, "asking") /\ (Sends(o, "exchange") \/ Sends(o, "mint"))
      /\ UNCHANGED <<token, host, backend, way, creds, url, lease, slept>>
  BY DEF Asks, hostVars
<1> QED
  BY <1>1, <1>2, OutStep

LEMMA LeavesStep ==
  ASSUME TakeoverInv, NEW o \in Owners, EndsPanel(o) \/ Ends(o) \/ Crashes(o)
  PROVE  TakeoverInv'
<1>1. /\ lease \in [Owners -> 0 .. MaxCreds] /\ slept \in [Owners -> 0 .. Every] /\ Known(lease[o])
  BY DEF TakeoverInv, ControlOK, RefsOK
<1>2. /\ \/ Goto(o, "revoking") /\ Sends(o, "revoke")
         \/ Goto(o, "ended") /\ Clears(o)
         \/ Goto(o, "crashed") /\ Clears(o)
      /\ UNCHANGED <<token, host, backend, way, creds, url, lease, slept>>
  BY DEF EndsPanel, Ends, Crashes, hostVars
<1> QED
  BY <1>1, <1>2, OutStep

LEMMA GetsLeaseStep ==
  ASSUME TakeoverInv, NEW o \in Owners, GetsLease(o)
  PROVE  TakeoverInv'
<1>1. /\ ControlOK /\ o \in Clients /\ o # Agent
      /\ Known(req[o].auth) /\ req[o].auth \in 0 .. MaxCreds /\ Known(url) /\ Known(0) /\ 0 \in 0 .. Every
  BY AgentAssumption, Arithmetic DEF TakeoverInv, RefsOK, Clients, Known
<1>2. /\ pc[o] = "asking" /\ req[o].phase = "done"
      /\ lease' = [lease EXCEPT ![o] = req[o].auth] /\ slept' = [slept EXCEPT ![o] = 0]
      /\ UNCHANGED <<token, host, backend, way, creds, url>>
  BY DEF GetsLease, hostVars
<1>3. /\ lease' \in [Owners -> 0 .. MaxCreds] /\ slept' \in [Owners -> 0 .. Every]
      /\ lease'[o] = req[o].auth /\ slept'[o] = 0
      /\ \A p \in Owners : p # o => lease'[p] = lease[p] /\ slept'[p] = slept[p]
  BY <1>1, <1>2 DEF ControlOK
<1>4. CASE Goto(o, "opening") /\ Clears(o)
  <2>1. /\ req' \in [Clients -> Request] /\ req'[o] = NoReq
        /\ \A d \in Clients : d # o => req'[d] = req[d]
    BY <1>1, <1>4, ClearsIs
  <2>2. /\ pc' \in [Clients -> {"idle", "asking", "opening", "watching", "revoking", "ended", "crashed"}]
        /\ pc'[o] = "opening" /\ \A d \in Clients : d # o => pc'[d] = pc[d]
    BY <1>1, <1>4, GotoIs
  <2>3. Asked(o)'
    BY <2>1, <2>2 DEF Asked
  <2>4. req'[o].phase = "none" /\ req'[o].auth = 0
    BY <2>1 DEF NoReq
  <2>5. way[o] = "open" => slept'[o] <= Delivery /\ Lasts(lease[o], slept[o])'
    <3>1. way[o] = "open" => Lasts(req[o].auth, 0)
      BY <1>2 DEF TakeoverInv, LeasesOK, LeaseOf
    <3> QED
      BY <1>2, <1>3, <3>1, Arithmetic DEF Lasts
  <2>6. LeaseOf(o)'
    BY <1>2, <2>2, <2>4, <2>5 DEF LeaseOf
  <2> QED
    BY <1>1, <1>2, <1>3, <2>1, <2>2, <2>3, <2>4, <2>6, CommandStep
<1>5. CASE (Goto(o, "revoking") /\ Sends(o, "revoke")) \/ (Goto(o, "ended") /\ Clears(o))
  BY <1>1, <1>2, <1>3, <1>5, OutStep
<1> QED
  BY <1>4, <1>5 DEF GetsLease

\* A panel is there, or the command is over.
LEMMA OpensStep ==
  ASSUME TakeoverInv, NEW o \in Owners, start_upstream(o)
  PROVE  TakeoverInv'
<1>1. /\ ControlOK /\ o \in Clients /\ o # Agent /\ Known(url) /\ Known(lease[o]) /\ Known(0)
      /\ lease \in [Owners -> 0 .. MaxCreds] /\ slept \in [Owners -> 0 .. Every] /\ 0 \in 0 .. Every
      /\ req \in [Clients -> Request]
  BY AgentAssumption, Arithmetic DEF TakeoverInv, RefsOK, ControlOK, Clients, Known
<1>2. pc[o] = "opening" /\ UNCHANGED <<token, host, backend, way, creds, url, lease, req>>
  BY DEF start_upstream, hostVars
<1>3. req[o] = NoReq
  BY <1>1, <1>2 DEF TakeoverInv, AskedOK, Asked
<1>4. req'[o] = NoReq /\ req'[o].phase = "none" /\ req'[o].auth = 0 /\ req'[o].waited = 0
  BY <1>2, <1>3 DEF NoReq
<1>5. way[o] = "open" => slept[o] <= Delivery /\ Lasts(lease[o], slept[o])
  BY <1>2 DEF TakeoverInv, LeasesOK, LeaseOf
<1>6. slept[o] \in Nat /\ \A i \in Ids : creds[i].left \in Nat
  BY <1>1, Arithmetic DEF TakeoverInv, CredsOK, Cred
<1>7. ASSUME NEW spot \in {"watching", "ended"}, Goto(o, spot),
             slept' \in [Owners -> 0 .. Every], spot = "watching" => slept'[o] = 0,
             \A p \in Owners : p # o => slept'[p] = slept[p]
      PROVE  TakeoverInv'
  <2>1. /\ pc' \in [Clients -> {"idle", "asking", "opening", "watching", "revoking", "ended", "crashed"}]
        /\ pc'[o] = spot /\ \A d \in Clients : d # o => pc'[d] = pc[d]
    BY <1>1, <1>7, GotoIs
  <2>2. Asked(o)'
    BY <1>4, <2>1 DEF Asked
  <2>3. (way[o] = "open" /\ spot = "watching") => Lasts(lease[o], Patience + Delivery + slept[o] + req[o].waited)'
    BY <1>2, <1>4, <1>5, <1>6, <1>7, Arithmetic DEF Lasts
  <2>4. LeaseOf(o)'
    BY <1>2, <1>4, <2>1, <2>3 DEF LeaseOf
  <2> QED
    BY <1>1, <1>2, <1>4, <1>7, <2>1, <2>2, <2>4, CommandStep
<1>8. CASE Goto(o, "watching") /\ slept' = [slept EXCEPT ![o] = 0]
  BY <1>1, <1>7, <1>8
<1>9. CASE Goto(o, "ended") /\ slept' = slept
  BY <1>1, <1>7, <1>9
<1> QED
  BY <1>8, <1>9 DEF start_upstream

LEMMA RenewalStep ==
  ASSUME TakeoverInv, NEW o \in Owners, Renews(o) \/ Renewed(o)
  PROVE  TakeoverInv'
<1>1. /\ ControlOK /\ o \in Clients /\ o # Agent /\ Known(url) /\ Known(lease[o]) /\ Known(0) /\ "renew" \in Whats
      /\ lease \in [Owners -> 0 .. MaxCreds] /\ slept \in [Owners -> 0 .. Every] /\ pc[o] = "watching"
      /\ pc \in [Clients -> {"idle", "asking", "opening", "watching", "revoking", "ended", "crashed"}]
  BY AgentAssumption, Arithmetic
     DEF TakeoverInv, RefsOK, ControlOK, Clients, Known, Whats, Renews, Renewed
<1>2. \A i \in Ids : creds[i].left \in Nat
  BY Arithmetic DEF TakeoverInv, CredsOK, Cred
<1>3. slept[o] \in Nat /\ req[o].waited \in 0 .. Patience
  BY <1>1, Arithmetic DEF ControlOK, Request
<1>4. LeaseOf(o)
  BY DEF TakeoverInv, LeasesOK
<1>5. CASE Renews(o)
  <2>1. /\ req[o] = NoReq /\ Sends(o, "renew")
        /\ UNCHANGED <<token, host, backend, way, creds, url, pc, lease, slept>>
    BY <1>5 DEF Renews, hostVars
  <2>2. /\ req' \in [Clients -> Request]
        /\ req'[o].phase = "sent" /\ req'[o].what = "renew" /\ req'[o].auth = 0 /\ req'[o].waited = 0
        /\ \A d \in Clients : d # o => req'[d] = req[d]
    BY <1>1, <2>1, SendsIs
  <2>3. Asked(o)'
    BY <1>1, <2>1, <2>2 DEF Asked
  <2>4. req[o].waited = 0
    BY <2>1 DEF NoReq
  <2>5. LeaseOf(o)'
    BY <1>1, <1>4, <2>1, <2>2, <2>4 DEF LeaseOf, Lasts
  <2> QED
    BY <1>1, <2>1, <2>2, <2>3, <2>5, CommandStep
<1>6. CASE Renewed(o)
  <2>1. /\ req[o].phase = "done" /\ Clears(o) /\ slept' = [slept EXCEPT ![o] = 0]
        /\ UNCHANGED <<token, host, backend, way, creds, url, pc, lease>>
    BY <1>6 DEF Renewed, hostVars
  <2>2. /\ req' \in [Clients -> Request] /\ req'[o] = NoReq
        /\ \A d \in Clients : d # o => req'[d] = req[d]
    BY <1>1, <2>1, ClearsIs
  <2>3. Asked(o)'
    BY <1>1, <2>1, <2>2 DEF Asked
  <2>4. req'[o].phase = "none" /\ req'[o].auth = 0 /\ req'[o].waited = 0
    BY <2>2 DEF NoReq
  <2>5. /\ slept' \in [Owners -> 0 .. Every] /\ slept'[o] = 0
        /\ \A p \in Owners : p # o => slept'[p] = slept[p]
    BY <1>1, <2>1, Arithmetic
  <2>6. way[o] = "open" => Lasts(lease[o], Patience + Delivery + slept[o] + req[o].waited)'
    <3>1. way[o] = "open" => Lasts(lease[o], req[o].waited)
      BY <1>1, <1>4, <2>1 DEF LeaseOf
    <3> QED
      BY <1>2, <1>3, <2>1, <2>4, <2>5, <3>1, Arithmetic DEF Lasts
  <2>7. LeaseOf(o)'
    BY <1>1, <2>1, <2>4, <2>6 DEF LeaseOf
  <2> QED
    BY <1>1, <2>1, <2>2, <2>3, <2>4, <2>5, <2>7, CommandStep
<1> QED
  BY <1>5, <1>6

-----------------------------------------------------------------------------
(***************************************************************************)
(* Time.                                                                   *)
(***************************************************************************)

\* The clock waits for a command that must act; then each credential, each
\* sleep and each request is a unit older.
LEMMA TickStep ==
  ASSUME TakeoverInv, Tick
  PROVE  TakeoverInv'
<1>1. /\ ControlOK /\ CredsOK /\ ~Due /\ Owners \subseteq Clients
      /\ creds' = [i \in Ids |-> [creds[i] EXCEPT !.left = IF @ = 0 THEN 0 ELSE @ - 1]]
      /\ slept' = [o \in Owners |-> IF pc[o] \in {"opening", "watching"} /\ req[o] = NoReq THEN slept[o] + 1 ELSE slept[o]]
      /\ req' = [c \in Clients |-> IF req[c].phase = "none" THEN req[c]
                                   ELSE [req[c] EXCEPT !.waited = IF @ < Patience THEN @ + 1 ELSE @]]
      /\ UNCHANGED <<token, host, backend, way, pc, url, lease>>
  BY DEF TakeoverInv, Tick, hostVars, Clients
<1>2. \A i \in Ids : creds[i] \in Cred
  BY <1>1 DEF CredsOK
<1>3. ASSUME NEW i \in Ids
      PROVE  /\ creds'[i] \in Cred
             /\ creds'[i].kind = creds[i].kind /\ creds'[i].of = creds[i].of
             /\ creds'[i].left = IF creds[i].left = 0 THEN 0 ELSE creds[i].left - 1
  <2> DEFINE v == IF creds[i].left = 0 THEN 0 ELSE creds[i].left - 1
  <2>1. creds'[i] = [creds[i] EXCEPT !.left = v]
    BY <1>1
  <2>2. v \in 0 .. Ttl + Idle
    BY <1>2, Arithmetic DEF Cred
  <2> HIDE DEF v
  <2>3. creds'[i] \in Cred /\ creds'[i].kind = creds[i].kind /\ creds'[i].of = creds[i].of /\ creds'[i].left = v
    BY <1>2, <2>1, <2>2 DEF Cred
  <2> QED
    BY <2>3 DEF v
<1>4. CredsOK'
  <2>1. creds' \in [Ids -> Cred]
    BY <1>1, <1>3
  <2>2. \A i \in Ids : creds[i].left \in Nat /\ (creds[i].of # 0 => creds[i].of \in Ids)
    BY <1>2, Arithmetic DEF Cred, Ids
  <2>3. \A i \in Ids : creds'[i].kind \in {"none", "revoked"} => creds'[i].left = 0
    BY <1>1, <1>3 DEF CredsOK
  <2>4. \A i \in Ids : creds'[i].kind = "lease" => creds'[i].left <= Idle
    <3>1. ASSUME NEW i \in Ids, creds'[i].kind = "lease"
          PROVE  creds'[i].left <= Idle
      <4>1. creds[i].left <= Idle /\ creds[i].left \in Nat
        BY <1>1, <1>3, <2>2, <3>1 DEF CredsOK
      <4> QED
        BY <1>3, <4>1, Arithmetic
    <3> QED
      BY <3>1
  <2>5. ASSUME NEW i \in Ids, creds'[i].of # 0
        PROVE  creds'[creds'[i].of].kind = "revoked"
    <3>1. creds'[i].of = creds[i].of /\ creds[i].of \in Ids
      BY <1>3, <2>2, <2>5
    <3>2. creds[creds[i].of].kind = "revoked"
      BY <1>1, <2>5, <3>1 DEF CredsOK
    <3> QED
      BY <1>3, <3>1, <3>2
  <2> QED
    BY <2>1, <2>3, <2>4, <2>5 DEF CredsOK
<1>5. InOrder'
  BY <1>3 DEF TakeoverInv, InOrder
<1>6. \A c \in Clients : req[c] \in Request
  BY <1>1 DEF ControlOK
<1>7. ASSUME NEW c \in Clients
      PROVE  /\ req'[c] \in Request
             /\ req'[c].what = req[c].what /\ req'[c].phase = req[c].phase /\ req'[c].auth = req[c].auth
             /\ req[c].phase = "none" => req'[c] = req[c]
             /\ req[c].phase # "none" /\ req[c].waited < Patience => req'[c].waited = req[c].waited + 1
  <2>1. CASE req[c].phase = "none"
    BY <1>1, <1>6, <2>1
  <2>2. CASE req[c].phase # "none"
    <3> DEFINE v == IF req[c].waited < Patience THEN req[c].waited + 1 ELSE req[c].waited
    <3>1. req'[c] = [req[c] EXCEPT !.waited = v]
      BY <1>1, <2>2
    <3>2. v \in 0 .. Patience
      BY <1>6, Arithmetic DEF Request
    <3> HIDE DEF v
    <3>3. /\ req'[c] \in Request /\ req'[c].what = req[c].what /\ req'[c].phase = req[c].phase
          /\ req'[c].auth = req[c].auth /\ req'[c].waited = v
      BY <1>6, <3>1, <3>2 DEF Request
    <3> QED
      BY <2>2, <3>3 DEF v
  <2> QED
    BY <2>1, <2>2
<1>8. ASSUME NEW o \in Owners
      PROVE  /\ slept'[o] \in 0 .. Every
             /\ slept'[o] = IF pc[o] \in {"opening", "watching"} /\ req[o] = NoReq THEN slept[o] + 1 ELSE slept[o]
  <2>1. slept[o] \in 0 .. Every
    BY <1>1 DEF ControlOK
  <2>2. pc[o] = "watching" /\ req[o] = NoReq => ~(slept[o] >= Every)
    BY <1>1 DEF Due, mustRenew
  <2>3. pc[o] = "opening" => slept[o] < Delivery
    BY <1>1, <2>1, Arithmetic DEF Due
  <2> QED
    BY <1>1, <2>1, <2>2, <2>3, Arithmetic
<1>9. ControlOK'
  <2>1. slept' \in [Owners -> 0 .. Every] /\ req' \in [Clients -> Request]
    BY <1>1, <1>7, <1>8
  <2> QED
    BY <1>1, <2>1 DEF ControlOK
<1>10. RefsOK'
  BY <1>1, <1>3, <1>7, Arithmetic DEF TakeoverInv, RefsOK, Known, Ids
<1>11. AskedOK'
  <2>1. ASSUME NEW c \in Clients PROVE Asked(c)'
    <3>1. req[c] = NoReq => req'[c] = NoReq
      BY <1>7 DEF NoReq
    <3> QED
      BY <1>1, <1>7, <3>1 DEF TakeoverInv, AskedOK, Asked
  <2> QED
    BY <1>1, <2>1 DEF TakeoverInv, AskedOK
<1>12. DownOK'
  BY <1>1, <1>3, <1>7 DEF TakeoverInv, DownOK
<1>13. ASSUME NEW o \in Owners, way[o] = "open"
       PROVE  LeaseOf(o)'
  <2>1. /\ o \in Clients /\ slept[o] \in Nat /\ req[o].waited \in 0 .. Patience /\ LeaseOf(o) /\ Asked(o)
        /\ \A i \in Ids : creds[i].left \in Nat
    BY <1>1, <1>2, <1>6, <1>13, Arithmetic
       DEF TakeoverInv, ControlOK, LeasesOK, AskedOK, Request, Cred
  <2>2. req[o].phase # "done" /\ ~timedOut(o)
    BY <1>1 DEF Due
  <2>3. req[o].phase # "none" => req[o].waited < Patience /\ req'[o].waited = req[o].waited + 1
    BY <1>7, <1>13, <2>1, <2>2, Arithmetic DEF timedOut
  <2>4. ASSUME pc[o] = "watching"
        PROVE  Lasts(lease[o], Patience + Delivery + slept[o] + req[o].waited)'
    <3>1. Lasts(lease[o], Patience + Delivery + slept[o] + req[o].waited)
      BY <1>13, <2>1, <2>4 DEF LeaseOf
    <3>2. slept'[o] + req'[o].waited = slept[o] + req[o].waited + 1
      <4>1. CASE req[o] = NoReq
        BY <1>7, <1>8, <2>1, <2>4, <4>1, Arithmetic DEF NoReq
      <4>2. CASE req[o] # NoReq
        BY <1>8, <2>1, <2>3, <2>4, <4>2, Arithmetic DEF Asked
      <4> QED
        BY <4>1, <4>2
    <3>3. lease'[o] = lease[o] /\ slept'[o] \in Nat /\ req'[o].waited \in Nat
      BY <1>1, <1>7, <1>8, <2>1, Arithmetic DEF Request
    <3> QED
      BY <1>3, <2>1, <3>1, <3>2, <3>3, Arithmetic DEF Lasts
  <2>5. ASSUME pc[o] = "watching", req'[o].phase \in {"admitted", "done"}
        PROVE  Lasts(lease[o], req[o].waited)'
    <3>1. req[o].phase = "admitted" /\ Lasts(lease[o], req[o].waited)
      BY <1>7, <1>13, <2>1, <2>2, <2>5 DEF LeaseOf
    <3> QED
      BY <1>1, <1>3, <2>1, <2>3, <3>1, Arithmetic DEF Lasts
  <2>6. ASSUME pc[o] = "opening"
        PROVE  slept'[o] <= Delivery /\ Lasts(lease[o], slept[o])'
    <3>1. Lasts(lease[o], slept[o]) /\ req[o] = NoReq
      BY <1>13, <2>1, <2>6 DEF LeaseOf, Asked
    <3>2. slept'[o] = slept[o] + 1 /\ slept[o] < Delivery
      BY <1>1, <1>8, <2>1, <2>6, <3>1, Arithmetic DEF Due
    <3> QED
      BY <1>1, <1>3, <2>1, <3>1, <3>2, Arithmetic DEF Lasts
  <2> QED
    BY <1>1, <1>7, <2>1, <2>2, <2>4, <2>5, <2>6 DEF LeaseOf
<1>14. LeasesOK'
  BY <1>1, <1>13 DEF LeasesOK, LeaseOf
<1> QED
  BY <1>4, <1>5, <1>9, <1>10, <1>11, <1>12, <1>14 DEF TakeoverInv

-----------------------------------------------------------------------------
(***************************************************************************)
(* The theorems.                                                           *)
(***************************************************************************)

LEMMA TakeoverInvInit == Init => TakeoverInv
<1> SUFFICES ASSUME Init
             PROVE  TakeoverInv
  OBVIOUS
<1>1. 0 \in 0 .. MaxCreds /\ 0 \in 0 .. Patience /\ 0 \in 0 .. Every /\ 0 \in 0 .. Ttl + Idle
  BY Arithmetic
<1>2. NoReq \in Request /\ NoCred \in Cred /\ Known(0)
  BY <1>1 DEF NoReq, NoCred, Request, Cred, Kinds, Whats, Phases, Known
<1>3. CredsOK
  BY <1>2 DEF Init, CredsOK, NoCred
<1>4. InOrder
  <2>1. \A i \in Ids : creds[i].kind # "none" <=> i <= 0
    BY Arithmetic DEF Init, NoCred, Ids
  <2> QED
    BY <1>1, <2>1 DEF InOrder
<1>5. RefsOK
  BY <1>2 DEF Init, RefsOK, NoReq
<1>6. ControlOK
  BY <1>1, <1>2 DEF Init, ControlOK
<1>7. AskedOK
  <2>1. \A c \in Clients : pc[c] = "idle" /\ req[c] = NoReq
    BY DEF Init
  <2> QED
    BY <2>1 DEF AskedOK, Asked, Clients
<1>8. DownOK /\ LeasesOK
  BY DEF Init, DownOK, LeasesOK, LeaseOf, Clients
<1> QED
  BY <1>3, <1>4, <1>5, <1>6, <1>7, <1>8 DEF TakeoverInv

LEMMA TakeoverInvStep == TakeoverInv /\ [Next]_vars => TakeoverInv'
<1> SUFFICES ASSUME TakeoverInv, [Next]_vars
             PROVE  TakeoverInv'
  OBVIOUS
<1>1. CASE UNCHANGED vars
  BY <1>1
     DEF vars, TakeoverInv, CredsOK, InOrder, RefsOK, Known, ControlOK, AskedOK, Asked,
         DownOK,
       LeasesOK, LeaseOf, Lasts
<1>2. ASSUME NEW c \in Clients, Handles(c) \/ Loses(c) PROVE TakeoverInv'
  BY <1>2, ArrivesStep, HandledStep, MintsHandoffStep, SessionCreateStep DEF Handles
<1>3. ASSUME NEW o \in Owners, OwnerStep(o) \/ EndsPanel(o) \/ Crashes(o) PROVE TakeoverInv'
  BY <1>3, AsksStep, GetsLeaseStep, OpensStep, RenewalStep, LeavesStep DEF OwnerStep
<1> QED
  BY <1>1, <1>2, <1>3, AgentStep, HostStep, TickStep DEF Next

\* Every state the host and its panels can be in is of this kind.
THEOREM TakeoverInvariant == Spec => []TakeoverInv
<1> QED
  BY TakeoverInvInit, TakeoverInvStep, PTL DEF Spec

\* A command whose client has a timeout holds its lease as long as nobody revokes
\* it: what the panel takes to open, two lifetimes of a request and a sleep are
\* together less than the idle timeout.
THEOREM LeasesAreHeld == Spec => []HeldLeaseIsLive
<1>1. TakeoverInv => HeldLeaseIsLive
  <2> SUFFICES ASSUME TakeoverInv, NEW o \in Owners, pc[o] \in {"opening", "watching"}, way[o] = "open"
               PROVE  is_live(lease[o]) \/ creds[lease[o]].kind = "revoked"
    BY DEF HeldLeaseIsLive
  <2>1. slept[o] \in 0 .. Every /\ req[o].waited \in 0 .. Patience
    BY DEF TakeoverInv, ControlOK, Request, Clients
  <2>2. CredsOK /\ \E lost \in Nat : lost < Idle /\ Lasts(lease[o], lost)
    <3>1. CASE pc[o] = "opening"
      <4>1. slept[o] \in Nat /\ slept[o] < Idle /\ Lasts(lease[o], slept[o])
        BY <2>1, <3>1, Arithmetic DEF TakeoverInv, LeasesOK, LeaseOf
      <4> QED
        BY <4>1 DEF TakeoverInv
    <3>2. CASE pc[o] = "watching"
      <4> DEFINE lost == Patience + Delivery + slept[o] + req[o].waited
      <4>1. CredsOK /\ Lasts(lease[o], lost)
        BY <3>2 DEF TakeoverInv, LeasesOK, LeaseOf
      <4>2. lost \in Nat /\ lost < Idle
        BY <2>1, Arithmetic
      <4> HIDE DEF lost
      <4> QED
        BY <4>1, <4>2
    <3> QED
      BY <3>1, <3>2
  <2> QED
    BY <2>2, LastingIsLive
<1> QED
  BY <1>1, TakeoverInvariant, PTL

\* A handoff that minted a lease, and whatever a host that is down gave out,
\* authorises nothing.
THEOREM SpentIsDead == Spec => []SpentCredentialsAreDead
<1>1. TakeoverInv => SpentCredentialsAreDead
  <2> SUFFICES ASSUME TakeoverInv
               PROVE  SpentCredentialsAreDead
    OBVIOUS
  <2>1. TakeoverTypeOK
    BY Arithmetic DEF TakeoverInv, TakeoverTypeOK, CredsOK, Cred, Kinds, ControlOK
  <2>2. ExchangedHandoffIsDead
    <3> SUFFICES ASSUME NEW o \in Owners, lease[o] # 0, creds[lease[o]].of # 0,
       is_live(creds[lease[o]].of)
                 PROVE  FALSE
      BY DEF ExchangedHandoffIsDead
    <3>1. lease[o] \in Ids
      BY Arithmetic DEF TakeoverInv, ControlOK, Ids
    <3>2. creds[creds[lease[o]].of].kind = "revoked"
      BY <3>1 DEF TakeoverInv, CredsOK
    <3> QED
      BY <3>2, LiveIsKnown DEF TakeoverInv
  <2>3. NothingOutlivesTheHost
    BY DEF TakeoverInv, DownOK, NothingOutlivesTheHost, has_live_takeover_credentials, is_live
  <2> QED
    BY <2>1, <2>2, <2>3 DEF SpentCredentialsAreDead
<1> QED
  BY <1>1, TakeoverInvariant, PTL

-----------------------------------------------------------------------------
(***************************************************************************)
(* The command that fetches a tab again.                                   *)
(***************************************************************************)

\* What a page came from: the host of its own that the line named, or else the
\* container.
hostOf(l) == IF l.endpoint = "named" THEN "named" ELSE "box"

\* The profile is the one the line asks for, once it was looked at; an endpoint
\* that the line names is called, and one that a takeover needs is a port of the
\* container, which was there when it was found.
ResolvedOK ==
  /\ line \in CommandLine /\ box.port \in Ports
  /\ stage \notin {"arguments", "failed"} => profile = asked(line)
  /\ stage \in {"capabilities", "client", "fetch", "handoff", "result"} =>
       /\ line.endpoint # None => place = line.endpoint
       /\ (line.takeover /\ line.endpoint = None) => place \in Ports
       /\ (line.takeover /\ line.endpoint \notin Ports) => reached = hostOf(line)
  /\ (stage \in {"handoff", "result"} /\ line.takeover) => reached = hostOf(line)

\* What the page recommends: a takeover in a new tab, or the tab it left with
\* the line's own host and profile.
RecommendedOK ==
  (stage \in {"handoff", "result"} /\ page.command # NoLine) =>
    /\ page.command \in CommandLine
    /\ \/ page.command.tab = "new"
       \/ /\ line.takeover
          /\ page.command.tab = page.tab /\ page.command.takeover /\ page.command.site = line.site
          /\ page.command.profile = line.profile /\ page.command.endpoint = line.endpoint

\* The line that is run again names what the earlier one reached.
AgainOK ==
  (earlier.tab # None /\ line.tab # "new") =>
    /\ line.takeover /\ line.tab = earlier.tab /\ asked(line) = earlier.profile
    /\ line.endpoint = earlier.endpoint /\ earlier.reached = hostOf(line)

\* A link is the last thing a command gets.
LinksOK ==
  /\ stage # "result" => handoff = None
  /\ LinkShowsTheHost

CommandInv == ResolvedOK /\ RecommendedOK /\ AgainOK /\ LinksOK


LEMMA CommandInvInit == CommandInit => CommandInv
BY LinesAssumption, PortsAssumption
   DEF CommandInit, CommandInv, ResolvedOK, RecommendedOK, AgainOK, LinksOK,
       LinkShowsTheHost,
   NotRun, NoPage, None

\* The recommended lines are command lines.
LEMMA HumanTakeover ==
  ASSUME line \in CommandLine
  PROVE  human_takeover \in CommandLine /\ human_takeover.tab = "new" /\ human_takeover.site = line.site
         /\ human_takeover.takeover = TRUE
<1>1. "none" \in Words /\ "new" \in Words
  BY DEF Words
<1> DEFINE a == [line EXCEPT !.takeover = TRUE, !.endpoint = None]
           b == [a EXCEPT !.profile = None]
           d == [b EXCEPT !.tab = "new"]
<1>2. a \in CommandLine /\ a.site = line.site /\ a.takeover = TRUE
  BY <1>1 DEF CommandLine, None
<1> HIDE DEF a
<1>3. b \in CommandLine /\ b.site = line.site /\ b.takeover = TRUE
  BY <1>1, <1>2 DEF CommandLine, None
<1> HIDE DEF b
<1>4. d \in CommandLine /\ d.site = line.site /\ d.takeover = TRUE /\ d.tab = "new"
  BY <1>1, <1>3 DEF CommandLine
<1>5. human_takeover = [d EXCEPT !.jar = FALSE]
  BY DEF human_takeover, a, b
<1> HIDE DEF d
<1> QED
  BY <1>4, <1>5 DEF CommandLine

LEMMA RetryLine ==
  ASSUME ResolvedOK, stage = "fetch", line.takeover, NEW p, p.tab # None, p.tab \in Words
  PROVE  LET l == prepare_takeover_retry(p)
         IN  /\ l \in CommandLine /\ l.tab = p.tab /\ l.takeover = TRUE /\ l.site = line.site
             /\ l.profile = line.profile /\ l.endpoint = line.endpoint
<1>1. line \in CommandLine /\ line.endpoint \in {None, "named"} \cup Ports /\ line.profile \in Words
  BY DEF ResolvedOK, CommandLine, None
<1>2. takeover_recommended_endpoint = line.endpoint
  BY <1>1 DEF ResolvedOK, takeover_recommended_endpoint, None
<1>3. prepare_takeover_retry(p)
        = [human_takeover EXCEPT !.endpoint = line.endpoint, !.profile = line.profile, !.tab = p.tab]
  BY <1>2 DEF prepare_takeover_retry
<1>4. human_takeover \in CommandLine /\ human_takeover.site = line.site /\ human_takeover.takeover = TRUE
  BY <1>1, HumanTakeover
<1> HIDE DEF human_takeover
<1> QED
  BY <1>1, <1>3, <1>4 DEF CommandLine, None

\* What a takeover calls is the host it means, if that is what listens there.
LEMMA HostIsCalled ==
  ASSUME ResolvedOK, line.takeover, stage \in {"fetch", "handoff"},
         place \in {"inline", "named"} \/ listens(place) = "box"
  PROVE  place # "inline" /\ listens(place) = hostOf(line)
<1>1. line.endpoint \in {None, "named"} \cup Ports /\ {None, "named", "inline"} \cap Ports = {}
  BY PortsAssumption DEF ResolvedOK, CommandLine, None
<1>2. CASE line.endpoint = "named"
  BY <1>2 DEF ResolvedOK, listens, hostOf, None
<1>3. CASE line.endpoint # "named"
  <2>1. place \in Ports
    BY <1>1, <1>3 DEF ResolvedOK
  <2> QED
    BY <1>1, <1>3, <2>1 DEF hostOf
<1> QED
  BY <1>2, <1>3

\* What a fetch recommends is one of the two.
LEMMA FetchesStep ==
  ASSUME CommandInv, Fetches
  PROVE  CommandInv'
<1>1. stage = "fetch" /\ UNCHANGED <<line, box, place, profile, handoff, told, earlier, moves>>
  BY DEF Fetches
<1>2. ResolvedOK /\ line \in CommandLine
  BY DEF CommandInv, ResolvedOK
<1>3. CASE stage' = "failed"  /\ page' = page /\ reached' = reached
  BY <1>1, <1>3
     DEF CommandInv, ResolvedOK, RecommendedOK, AgainOK, LinksOK, LinkShowsTheHost, asked,
     default_profile_for_url
<1>4. ASSUME NEW tab \in {None, IF line.tab = "new" THEN "tab" ELSE line.tab},
   NEW asks \in BOOLEAN,
             NEW p, p = [tab |-> tab, asks |-> asks, command |-> IF asks THEN human_takeover ELSE NoLine],
             page' = IF line.takeover /\ asks THEN [p EXCEPT !.command = prepare_takeover_retry(p)] ELSE p,
             place \in {"inline", "named"} \/ listens(place) = "box",
             reached' = (IF place = "inline" THEN reached ELSE listens(place)),
             stage' = "handoff"
      PROVE  CommandInv'
  <2>1. tab \in Words /\ p.tab = tab /\ p.command = IF asks THEN human_takeover ELSE NoLine
    BY <1>2, <1>4 DEF CommandLine, Words, None
  <2>2. human_takeover \in CommandLine /\ human_takeover.tab = "new"
    BY <1>2, HumanTakeover
  <2>3. ASSUME line.takeover, asks PROVE RecommendedOK'
    <3>1. page'.tab = tab /\ page'.command = prepare_takeover_retry(p)
      BY <1>4, <2>1, <2>3
    <3>2. CASE p.tab = None
      <4>1. page'.command = human_takeover
        BY <2>1, <2>3, <3>1, <3>2 DEF prepare_takeover_retry
      <4> QED
        BY <2>2, <4>1 DEF RecommendedOK
    <3>3. CASE p.tab # None
      <4> DEFINE l == prepare_takeover_retry(p)
      <4>1. /\ l \in CommandLine /\ l.tab = p.tab /\ l.takeover = TRUE /\ l.site = line.site
            /\ l.profile = line.profile /\ l.endpoint = line.endpoint
        BY <1>1, <1>2, <2>1, <2>3, <3>3, RetryLine
      <4> HIDE DEF l
      <4>2. page'.command = l
        BY <3>1 DEF l
      <4> QED
        BY <1>1, <2>1, <2>3, <3>1, <4>1, <4>2 DEF RecommendedOK
    <3> QED
      BY <3>2, <3>3
  <2>4. ASSUME ~(line.takeover /\ asks) PROVE RecommendedOK'
    BY <1>4, <2>1, <2>2, <2>4 DEF RecommendedOK
  <2>5. RecommendedOK'
    BY <2>3, <2>4
  <2>6. ASSUME line.takeover PROVE reached' = hostOf(line)
    BY <1>1, <1>2, <1>4, <2>6, HostIsCalled
  <2>7. AgainOK' /\ LinksOK'
    BY <1>1, <1>4 DEF CommandInv, AgainOK, LinksOK, LinkShowsTheHost, asked,
           default_profile_for_url, hostOf
  <2>8. ResolvedOK'
    BY <1>1, <1>2, <1>4, <2>6 DEF ResolvedOK, asked, default_profile_for_url, hostOf
  <2> QED
    BY <2>5, <2>7, <2>8 DEF CommandInv
<1> QED
  BY <1>3, <1>4 DEF Fetches, At, Refused

\* The line that is run again asks for the profile the first one asked for.
LEMMA RunsAgainStep ==
  ASSUME CommandInv, RunsAgain
  PROVE  CommandInv'
<1>1. /\ stage = "result" /\ page.command # NoLine /\ box' = box
      /\ earlier' = [endpoint |-> line.endpoint, reached |-> reached, profile |-> profile, tab |-> page.tab]
      /\ line' = page.command /\ stage' = "arguments" /\ handoff' = None
  BY DEF RunsAgain, At
<1>2. line \in CommandLine /\ line' \in CommandLine
  BY <1>1 DEF CommandInv, ResolvedOK, RecommendedOK
<1>3. ASSUME earlier'.tab # None, line'.tab # "new"
      PROVE  /\ line'.takeover /\ line'.tab = earlier'.tab /\ asked(line') = earlier'.profile
             /\ line'.endpoint = earlier'.endpoint /\ earlier'.reached = hostOf(line')
  <2>1. /\ line.takeover /\ line'.tab = page.tab /\ line'.takeover /\ line'.site = line.site
        /\ line'.profile = line.profile /\ line'.endpoint = line.endpoint
    BY <1>1, <1>3 DEF CommandInv, RecommendedOK
  <2>2. profile = asked(line) /\ reached = hostOf(line)
    BY <1>1, <2>1 DEF CommandInv, ResolvedOK
  <2>3. asked(line') = asked(line) /\ hostOf(line') = hostOf(line)
    BY <2>1 DEF asked, hostOf
  <2> QED
    BY <1>1, <2>1, <2>2, <2>3
<1>4. ResolvedOK' /\ RecommendedOK' /\ LinksOK'
  BY <1>1, <1>2 DEF CommandInv, ResolvedOK, RecommendedOK, LinksOK, LinkShowsTheHost
<1> QED
  BY <1>3, <1>4 DEF CommandInv, AgainOK

LEMMA CommandInvStep == CommandInv /\ [CommandNext]_cmdVars => CommandInv'
<1> SUFFICES ASSUME CommandInv, [CommandNext]_cmdVars
             PROVE  CommandInv'
  OBVIOUS
<1> USE DEF CommandInv, ResolvedOK, RecommendedOK, AgainOK, LinksOK, LinkShowsTheHost, At,
            Refused
<1>1. CASE UNCHANGED cmdVars \/ BoxMoves
  BY <1>1 DEF cmdVars, BoxMoves, asked, default_profile_for_url, hostOf
<1>2. CASE ResolvesProfile
  BY <1>2 DEF ResolvesProfile
<1>3. CASE NamesHost
  BY <1>3, PortsAssumption DEF NamesHost, listens, hostOf, CommandLine, None, asked, default_profile_for_url
<1>4. CASE GoesWithout \/ Discovers
  BY <1>4 DEF GoesWithout, Discovers, needsHost, hostOf, None, asked, default_profile_for_url
<1>5. CASE ChecksCapabilities \/ BuildsFetch
  BY <1>5 DEF ChecksCapabilities, BuildsFetch
<1>6. CASE Mints
  <2>1. reached = hostOf(line) /\ listens(place) = hostOf(line)
    BY <1>6, HostIsCalled DEF Mints, mustMint
  <2> QED
    BY <1>6, <2>1 DEF Mints, mustMint, asked, default_profile_for_url, hostOf
<1>7. CASE MintFails \/ NeedsNobody
  BY <1>7 DEF MintFails, NeedsNobody, mustMint, retain_after_handoff_failure
<1> HIDE DEF CommandInv
<1> QED
  BY <1>1, <1>2, <1>3, <1>4, <1>5, <1>6, <1>7, FetchesStep, RunsAgainStep DEF CommandNext

\* A takeover whose page asks for a person links to the display of the host the
\* page came from or says why not, and the command it recommends asks that host
\* for its tab under the same profile, whatever happened to the container in
\* between; if the line had named a port itself, whatever answers there is that
\* host.  (run_inner, prepare_takeover_retry)
THEOREM TakeoversFindTheirHost == CommandInit /\ [][CommandNext]_cmdVars => []TakeoversLeadToTheHost
<1>1. CommandInv => TakeoversLeadToTheHost
  <2> SUFFICES ASSUME CommandInv
               PROVE  TakeoversLeadToTheHost
    OBVIOUS
  <2>1. ASSUME earlier.tab # None, line.tab # "new", stage \in {"client", "fetch", "handoff", "result"}
        PROVE  /\ profile = earlier.profile /\ line.tab = earlier.tab
               /\ (stage \in {"handoff", "result"} \/ earlier.endpoint \notin Ports) => reached = earlier.reached
    BY <2>1 DEF CommandInv, ResolvedOK, AgainOK
  <2>2. RetryReachesTheTab
    BY <2>1 DEF RetryReachesTheTab
  <2> QED
    BY <2>2 DEF CommandInv, LinksOK, TakeoversLeadToTheHost
<1> QED
  BY <1>1, CommandInvInit, CommandInvStep, PTL
===============================================================================
