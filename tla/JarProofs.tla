------------------------------- MODULE JarProofs -------------------------------
(***************************************************************************)
(* Proofs about a profile's directory (ProfileStore), for any processes,   *)
(* any cookies and any number of kills, and about one fetch over HTTP and  *)
(* its jar (HttpPath), for any hosts, URLs, settings, offers and bounds.   *)
(*                                                                         *)
(* The directory.  As long as no removal has unlinked a lock file, its     *)
(* name stands for one file, everybody who opened it opened that one, and  *)
(* the advisory lock on it makes whoever is past it the only one there.    *)
(*                                                                         *)
(* The fetch.  The secrets of the first origin are in opts, and a hop that *)
(* leaves the origin takes them out before the next request is made from   *)
(* what is left; what a jar holds was let in by the rules, so where a      *)
(* cookie applies is where it may be sent.                                 *)
(***************************************************************************)
EXTENDS ProfileStore, HttpPath, TLAPS

-------------------------------------------------------------------------------
(* The directory: the inductive invariant.                                 *)

\* Where the code holds the profile's lock, and where it has opened its file.
HostPlaces == {"made", "opened", "locked", "pidded", "running", "dropping", "unlocking"}
ToolPlaces == {"probing", "testing", "probed", "removing", "reopened", "guarded", "listing",
               "emptying", "letting go", "giving up", "emptied", "unlinked"}
JarPlaces == {"merged", "waiting", "rereading", "writing", "persisted"}
Places == HostPlaces \cup ToolPlaces \cup JarPlaces \cup {"idle", "ended"}

HostGuarded == {"locked", "pidded", "running", "dropping", "unlocking"}
ToolGuarded == {"guarded", "listing", "emptying", "letting go", "giving up"}
JarGuarded == {"rereading", "writing", "persisted"}
Guarded == HostGuarded \cup ToolGuarded
Opened == Guarded \cup {"opened", "reopened", "emptied"}
JarOpened == JarGuarded \cup {"waiting"}

\* Every process is at a place of its role, and holds a lock just where the
\* code does.
PlacesOK ==
  /\ pc \in [Procs -> Places]
  /\ \A p \in Procs :
       /\ pc[p] = "idle" => role[p] = Nobody
       /\ pc[p] \in HostPlaces => role[p] = "host"
       /\ pc[p] \in ToolPlaces => role[p] \in {"delete", "prune", "status"}
       /\ pc[p] \in JarPlaces => role[p] = "fetch"
       /\ holds[p] <=> pc[p] \in Guarded \cup JarGuarded \cup {"testing"}

\* The names still stand for the files that were opened.
NamesOK ==
  /\ "lock" \notin torn =>
       \A p \in Procs : pc[p] \in Opened => fd[p] = lockfile /\ lockfile # Nobody
  /\ "jarlock" \notin torn =>
       \A p \in Procs : pc[p] \in JarOpened => fd[p] = jarlock /\ jarlock # Nobody

\* An advisory lock has one holder.
ExclusionOK ==
  /\ \A p, q \in Procs :
       (pc[p] \in Guarded /\ pc[q] \in Guarded /\ fd[p] = fd[q]) => p = q
  /\ \A p, q \in Procs :
       (pc[p] \in JarGuarded /\ pc[q] \in JarGuarded /\ fd[p] = fd[q]) => p = q

\* What was done under a lock is still so.
DoneOK ==
  /\ "lock" \notin torn =>
       \A p \in Procs : pc[p] \in {"pidded", "running"} => pidfile = p
  /\ torn \cap {"jar", "jarlock"} = {} =>
       \A p \in Procs : pc[p] = "writing" => seen[p] = stored

StoreInv == StoreTypeOK /\ PlacesOK /\ NamesOK /\ ExclusionOK /\ DoneOK

-------------------------------------------------------------------------------
(* What one step of process p does to the places and the files.               *)

\* The other processes are where they were, with what they had.
Alone(p) ==
  \A q \in Procs \ {p} :
    /\ pc'[q] = pc[q] /\ role'[q] = role[q] /\ fd'[q] = fd[q]
    /\ holds'[q] = holds[q] /\ seen'[q] = seen[q]

\* p goes to a place of its role, and holds a lock if it holds one there.
Placed(p) ==
  /\ pc' \in [Procs -> Places]
  /\ pc'[p] = "idle" => role'[p] = Nobody
  /\ pc'[p] \in HostPlaces => role'[p] = "host"
  /\ pc'[p] \in ToolPlaces => role'[p] \in {"delete", "prune", "status"}
  /\ pc'[p] \in JarPlaces => role'[p] = "fetch"
  /\ holds'[p] <=> pc'[p] \in Guarded \cup JarGuarded \cup {"testing"}

\* A name is given to a file nobody else has, or loses it to a removal, and p
\* opens the file the name stands for.
Opens(p) ==
  /\ torn \subseteq torn'
  /\ lockfile' = lockfile \/ lockfile = Nobody \/ "lock" \in torn'
  /\ jarlock' = jarlock \/ jarlock = Nobody \/ "jarlock" \in torn'
  /\ pc'[p] \in Opened => \/ pc[p] \in Opened /\ fd'[p] = fd[p]
                          \/ fd'[p] = lockfile' /\ lockfile' # Nobody
  /\ pc'[p] \in JarOpened => \/ pc[p] \in JarOpened /\ fd'[p] = fd[p]
                             \/ fd'[p] = jarlock' /\ jarlock' # Nobody

\* p comes past a lock only when nobody holds it.
Enters(p) ==
  /\ pc'[p] \in Guarded => fd'[p] = fd[p] /\ (pc[p] \in Guarded \/ ~Taken(fd[p]))
  /\ pc'[p] \in JarGuarded => fd'[p] = fd[p] /\ (pc[p] \in JarGuarded \/ ~JarTaken(fd[p]))

\* p changes pid file and jar under their locks only, or tears the jar.
Writes(p) ==
  /\ pidfile' # pidfile => pc[p] \in Guarded
  /\ pc'[p] \in {"pidded", "running"} =>
       \/ pidfile' = p
       \/ pc[p] \in {"pidded", "running"} /\ pidfile' = pidfile
       \/ pc[p] = "locked" /\ ~dir'
  /\ stored' # stored => pc[p] \in JarGuarded \/ "jar" \in torn'
  /\ pc'[p] = "writing" => seen'[p] = stored'

\* What leaves the directory is a pid file, unless p empties it.
Takes(p) == entries \ entries' \subseteq {"pid"} \/ pc[p] = "emptying"


\* What process p may do.
Move(p) ==
  \/ Host(p) \/ HostContinues(p)
  \/ \E r \in Roles \ {"host", "fetch"} : ToolStarts(p, r)
  \/ ToolContinues(p)
  \/ \E u \in Updates : FetchStarts(p, u)
  \/ FetchContinues(p) \/ JarLocks(p)
  \/ Dies(p)

\* The functions of processes.
Typed ==
  /\ pc \in [Procs -> Places] /\ role \in [Procs -> Roles \cup {Nobody}]
  /\ fd \in [Procs -> Files \cup {Nobody}] /\ holds \in [Procs -> BOOLEAN]
  /\ seen \in [Procs -> [Cookies -> Procs \cup {Nobody}]]

\* PlacesOK of one process.
PlacedNow(p) ==
  /\ pc[p] = "idle" => role[p] = Nobody
  /\ pc[p] \in HostPlaces => role[p] = "host"
  /\ pc[p] \in ToolPlaces => role[p] \in {"delete", "prune", "status"}
  /\ pc[p] \in JarPlaces => role[p] = "fetch"
  /\ holds[p] <=> pc[p] \in Guarded \cup JarGuarded \cup {"testing"}

\* Opening the lock gives its name a file if it has none.
LEMMA OpensLockDoes ==
  ASSUME NEW p \in Procs, NEW place, NEW missing, OpensLock(p, place, missing)
  PROVE  /\ UNCHANGED <<jarlock, torn, pidfile, stored, entries>>
         /\ \/ /\ pc' = [pc EXCEPT ![p] = place] /\ fd' = [fd EXCEPT ![p] = lockfile']
               /\ lockfile' # Nobody /\ (lockfile' = lockfile \/ lockfile = Nobody)
            \/ pc' = [pc EXCEPT ![p] = missing] /\ UNCHANGED <<fd, lockfile>>
<1>1. p # Nobody
  BY NamesAssumption
<1>2. CASE dir
  BY <1>1, <1>2 DEF OpensLock, Goto
<1>3. CASE ~dir
  BY <1>3 DEF OpensLock, Goto, disk
<1> QED
  BY <1>2, <1>3

\* The same of a host's launch and of a removal.
OpensLockStep(p) ==
  /\ UNCHANGED <<role, holds, seen, jarlock, torn, pidfile, stored, entries>>
  /\ \/ /\ fd' = [fd EXCEPT ![p] = lockfile']
        /\ lockfile' # Nobody /\ (lockfile' = lockfile \/ lockfile = Nobody)
        /\ \/ pc[p] = "made" /\ pc' = [pc EXCEPT ![p] = "opened"]
           \/ pc[p] = "removing" /\ pc' = [pc EXCEPT ![p] = "reopened"]
     \/ /\ pc[p] \in {"made", "removing"} /\ pc' = [pc EXCEPT ![p] = "ended"]
        /\ UNCHANGED <<fd, lockfile>>

LEMMA LockOpeners ==
  ASSUME NEW p \in Procs, HostOpensLock(p) \/ RemovalOpensLock(p)
  PROVE  OpensLockStep(p)
<1> USE DEF OpensLockStep
<1>1. CASE HostOpensLock(p)
  <2>1. OpensLock(p, "opened", "ended") /\ pc[p] = "made" /\ UNCHANGED <<role, holds, seen>>
    BY <1>1 DEF HostOpensLock, At, cookies
  <2> QED
    BY <2>1, OpensLockDoes
<1>2. CASE RemovalOpensLock(p)
  <2>1. OpensLock(p, "reopened", "ended") /\ pc[p] = "removing" /\ UNCHANGED <<role, holds,
     seen>>
    BY <1>2 DEF RemovalOpensLock, cookies
  <2> QED
    BY <2>1, OpensLockDoes
<1> QED
  BY <1>1, <1>2

\* A fetch opens the jar's lock the same way.
OpensJarStep(p) ==
  /\ UNCHANGED <<role, holds, seen, lockfile, torn, pidfile, stored>>
  /\ pc[p] = "merged" /\ entries \subseteq entries'
  /\ \/ /\ fd' = [fd EXCEPT ![p] = jarlock']
        /\ jarlock' # Nobody /\ (jarlock' = jarlock \/ jarlock = Nobody)
        /\ pc' = [pc EXCEPT ![p] = "waiting"]
     \/ pc' = [pc EXCEPT ![p] = "ended"] /\ UNCHANGED <<fd, jarlock>>

LEMMA JarOpeners ==
  ASSUME NEW p \in Procs, JarOpensLock(p)
  PROVE  OpensJarStep(p)
<1> USE DEF OpensJarStep
<1>1. p # Nobody
  BY NamesAssumption
<1>2. CASE dir
  BY <1>1, <1>2 DEF JarOpensLock, Goto, At, cookies
<1>3. CASE ~dir
  BY <1>3 DEF JarOpensLock, Goto, At, cookies
<1> QED
  BY <1>2, <1>3

\* A probe that is refused holds nothing; one that is not lets go at once.
ProbeStep(p) ==
  /\ UNCHANGED <<role, seen, lockfile, jarlock, torn, pidfile, stored, entries>>
  /\ pc[p] = "probing"
  /\ \/ pc' = [pc EXCEPT ![p] = "probed"] /\ UNCHANGED <<fd, holds>>
     \/ /\ fd' = [fd EXCEPT ![p] = lockfile]
        /\ \/ holds' = [holds EXCEPT ![p] = FALSE] /\ pc' = [pc EXCEPT ![p] = "ended"]
           \/ holds' = [holds EXCEPT ![p] = TRUE] /\ pc' = [pc EXCEPT ![p] = "testing"]

LEMMA ProbeDoes ==
  ASSUME NEW p \in Procs, Probes(p)
  PROVE  ProbeStep(p)
<1> USE DEF ProbeStep
<1>1. CASE lockfile = Nobody
  BY <1>1 DEF Probes, Goto, disk, cookies
<1>2. CASE lockfile # Nobody /\ Taken(lockfile)
  <2>1. (~Taken(lockfile)) = FALSE
    BY <1>2
  <2> QED
    BY <1>2, <2>1 DEF Probes, Goto, disk, cookies
<1>3. CASE lockfile # Nobody /\ ~Taken(lockfile)
  <2>1. (~Taken(lockfile)) = TRUE
    BY <1>3
  <2> QED
    BY <1>3, <2>1 DEF Probes, Goto, disk, cookies
<1> QED
  BY <1>1, <1>2, <1>3

\* A host's guard drops its pid file, then the lock.
LEMMA DropsDo ==
  ASSUME NEW p \in Procs
  PROVE  /\ HostRemovesPid(p) =>
              /\ pc[p] = "dropping" /\ pc' = [pc EXCEPT ![p] = "unlocking"]
              /\ UNCHANGED <<role, holds, fd, seen, lockfile, jarlock, torn, stored>>
              /\ pidfile' = Nobody /\ entries' = entries \ {"pid"}
         /\ HostUnlocks(p) =>
              /\ pc[p] = "unlocking" /\ pc' = [pc EXCEPT ![p] = "ended"]
              /\ holds' = [holds EXCEPT ![p] = FALSE]
              /\ UNCHANGED <<role, fd, seen, lockfile, jarlock, torn, stored, pidfile, entries>>
<1>1. dropOrder[1] = "pid" /\ dropOrder[2] = "lock"
  BY DEF dropOrder
<1>2. <<"dropping", "unlocking">>[1] = "dropping" /\ <<"dropping",
   "unlocking">>[2] = "unlocking"
  OBVIOUS
<1>3. ASSUME HostRemovesPid(p)
      PROVE  /\ At(p, "host", "dropping") /\ RemovesPid(p, "unlocking")
             /\ UNCHANGED <<role, fd, todo, cookies, deaths>>
  BY <1>1, <1>2, <1>3 DEF HostRemovesPid, HostDrops
<1>4. ASSUME HostUnlocks(p)
      PROVE  /\ At(p, "host", "unlocking") /\ Unlocks(p, "ended")
             /\ UNCHANGED <<role, fd, todo, cookies, deaths, disk>>
  BY <1>1, <1>2, <1>4 DEF HostUnlocks, HostDrops
<1> QED
  BY <1>3, <1>4 DEF RemovesPid, Unlocks, Goto, At, cookies, disk, lockAfterDrop

\* Whatever a process does, it does to itself.
LEMMA AloneStep ==
    ASSUME NEW p \in Procs, Typed, PlacedNow(p), Move(p)
    PROVE  Alone(p)
<1> USE DEF Typed, PlacedNow, Goto, At, disk, cookies, Alone
<1>1. CASE HostStarts(p)
  BY <1>1 DEF HostStarts
<1>2. CASE HostOpensLock(p)
  <2>1. OpensLockStep(p)
    BY <1>2, LockOpeners
  <2> QED
    BY <2>1 DEF OpensLockStep
<1>3. CASE HostLocks(p)
  BY <1>3 DEF HostLocks, TriesLock
<1>4. CASE HostWritesPid(p)
  BY <1>4 DEF HostWritesPid, WritesPid
<1>5. CASE HostWritesMeta(p)
  <2>1. CASE meta # "foreign" /\ dir
    BY <1>5, <2>1 DEF HostWritesMeta
  <2>2. CASE ~(meta # "foreign" /\ dir)
    BY <1>5, <2>2 DEF HostWritesMeta
  <2> QED
    BY <2>1, <2>2
<1>6. CASE HostBrowses(p)
  BY <1>6 DEF HostBrowses, Owners
<1>7. CASE HostStops(p)
  BY <1>7 DEF HostStops, Owners
<1>8. CASE HostRemovesPid(p)
  BY <1>8, DropsDo
<1>9. CASE HostUnlocks(p)
  BY <1>9, DropsDo
<1>10. ASSUME NEW r \in Roles \ {"host", "fetch"}, ToolStarts(p, r)
      PROVE  Alone(p)
  BY <1>10 DEF ToolStarts, Roles, Removing
<1>11. CASE Probes(p)
  <2>1. ProbeStep(p)
    BY <1>11, ProbeDoes
  <2> QED
    BY <2>1 DEF ProbeStep
<1>12. CASE ProbeUnlocks(p)
  BY <1>12 DEF ProbeUnlocks, Unlocks
<1>13. CASE Decides(p)
  BY <1>13 DEF Decides
<1>14. CASE RemovalOpensLock(p)
  <2>1. OpensLockStep(p)
    BY <1>14, LockOpeners
  <2> QED
    BY <2>1 DEF OpensLockStep
<1>15. CASE RemovalLocks(p)
  BY <1>15 DEF RemovalLocks, removalLocks, TriesLock
<1>16. CASE RemovalWritesPid(p)
  BY <1>16 DEF RemovalWritesPid, WritesPid
<1>17. CASE RemovalLists(p)
  BY <1>17 DEF RemovalLists
<1>18. ASSUME NEW e \in Contents, RemovesEntry(p, e)
      PROVE  Alone(p)
  BY <1>18 DEF RemovesEntry
<1>19. CASE RemovalLetsGo(p)
  BY <1>19 DEF RemovalLetsGo
<1>20. CASE UnlinksLock(p)
  BY <1>20 DEF UnlinksLock
<1>21. CASE RemovesDir(p)
  BY <1>21 DEF RemovesDir
<1>22. ASSUME NEW u \in Updates, FetchStarts(p, u)
      PROVE  Alone(p)
  BY <1>22 DEF FetchStarts
<1>23. CASE JarOpensLock(p)
  <2>1. OpensJarStep(p)
    BY <1>23, JarOpeners
  <2> QED
    BY <2>1 DEF OpensJarStep
<1>24. CASE JarLocks(p)
  BY <1>24 DEF JarLocks
<1>25. CASE JarReads(p)
  BY <1>25 DEF JarReads, JarRereads
<1>26. CASE JarWrites(p)
  BY <1>26 DEF JarWrites
<1>27. CASE JarUnlocks(p)
  BY <1>27 DEF JarUnlocks, Unlocks
<1>28. CASE Dies(p)
  BY <1>28 DEF Dies, Unlocks
<1> HIDE DEF Typed, PlacedNow, Goto, At, disk, cookies, Alone
<1> QED
  BY <1>1, <1>2, <1>3, <1>4, <1>5, <1>6, <1>7, <1>8, <1>9, <1>10, <1>11, <1>12, <1>13, <1>14,
     <1>15, <1>16, <1>17, <1>18, <1>19, <1>20, <1>21, <1>22, <1>23, <1>24, <1>25, <1>26,
     <1>27, <1>28
     DEF Move, Host, HostContinues, ToolContinues, FetchContinues

\* Whatever a process does takes it to a place of its role.
LEMMA PlacedStep ==
    ASSUME NEW p \in Procs, Typed, PlacedNow(p), Move(p)
    PROVE  Placed(p)
<1> USE DEF Typed, PlacedNow, Goto, At, disk, cookies, Placed, Places, HostPlaces,
            ToolPlaces, JarPlaces, Guarded, HostGuarded, ToolGuarded, JarGuarded
<1>1. CASE HostStarts(p)
  BY <1>1 DEF HostStarts
<1>2. CASE HostOpensLock(p)
  <2>1. OpensLockStep(p)
    BY <1>2, LockOpeners
  <2>2. pc[p] \in {"made", "removing"} /\ role' = role /\ holds' = holds
    BY <2>1 DEF OpensLockStep
  <2>3. \/ pc' = [pc EXCEPT ![p] = "ended"]
        \/ pc[p] = "made" /\ pc' = [pc EXCEPT ![p] = "opened"]
        \/ pc[p] = "removing" /\ pc' = [pc EXCEPT ![p] = "reopened"]
    BY <2>1 DEF OpensLockStep
  <2>4. CASE pc[p] = "made"
    BY <2>2, <2>3, <2>4
  <2>5. CASE pc[p] = "removing"
    BY <2>2, <2>3, <2>5
  <2> QED
    BY <2>2, <2>4, <2>5
<1>3. CASE HostLocks(p)
  BY <1>3 DEF HostLocks, TriesLock
<1>4. CASE HostWritesPid(p)
  BY <1>4 DEF HostWritesPid, WritesPid
<1>5. CASE HostWritesMeta(p)
  <2>1. CASE meta # "foreign" /\ dir
    BY <1>5, <2>1 DEF HostWritesMeta
  <2>2. CASE ~(meta # "foreign" /\ dir)
    BY <1>5, <2>2 DEF HostWritesMeta
  <2> QED
    BY <2>1, <2>2
<1>6. CASE HostBrowses(p)
  BY <1>6 DEF HostBrowses, Owners
<1>7. CASE HostStops(p)
  BY <1>7 DEF HostStops, Owners
<1>8. CASE HostRemovesPid(p)
  BY <1>8, DropsDo
<1>9. CASE HostUnlocks(p)
  BY <1>9, DropsDo
<1>10. ASSUME NEW r \in Roles \ {"host", "fetch"}, ToolStarts(p, r)
      PROVE  Placed(p)
  <2>1. CASE r = "delete"
    BY <1>10, <2>1 DEF ToolStarts, Roles, Removing
  <2>2. CASE r # "delete"
    BY <1>10, <2>2 DEF ToolStarts, Roles, Removing
  <2> QED
    BY <2>1, <2>2
<1>11. CASE Probes(p)
  <2>1. ProbeStep(p)
    BY <1>11, ProbeDoes
  <2> QED
    BY <2>1 DEF ProbeStep
<1>12. CASE ProbeUnlocks(p)
  BY <1>12 DEF ProbeUnlocks, Unlocks
<1>13. CASE Decides(p)
  BY <1>13 DEF Decides
<1>14. CASE RemovalOpensLock(p)
  <2>1. OpensLockStep(p)
    BY <1>14, LockOpeners
  <2>2. pc[p] \in {"made", "removing"} /\ role' = role /\ holds' = holds
    BY <2>1 DEF OpensLockStep
  <2>3. \/ pc' = [pc EXCEPT ![p] = "ended"]
        \/ pc[p] = "made" /\ pc' = [pc EXCEPT ![p] = "opened"]
        \/ pc[p] = "removing" /\ pc' = [pc EXCEPT ![p] = "reopened"]
    BY <2>1 DEF OpensLockStep
  <2>4. CASE pc[p] = "made"
    BY <2>2, <2>3, <2>4
  <2>5. CASE pc[p] = "removing"
    BY <2>2, <2>3, <2>5
  <2> QED
    BY <2>2, <2>4, <2>5
<1>15. CASE RemovalLocks(p)
  BY <1>15 DEF RemovalLocks, removalLocks, TriesLock
<1>16. CASE RemovalWritesPid(p)
  BY <1>16 DEF RemovalWritesPid, WritesPid
<1>17. CASE RemovalLists(p)
  BY <1>17 DEF RemovalLists
<1>18. ASSUME NEW e \in Contents, RemovesEntry(p, e)
      PROVE  Placed(p)
  <2>1. CASE e \in entries
    BY <1>18, <2>1 DEF RemovesEntry
  <2>2. CASE e \notin entries
    BY <1>18, <2>2 DEF RemovesEntry
  <2> QED
    BY <2>1, <2>2
<1>19. CASE RemovalLetsGo(p)
  <2>1. CASE pc[p] = "emptying"
    BY <1>19, <2>1 DEF RemovalLetsGo
  <2>2. CASE pc[p] # "emptying"
    BY <1>19, <2>2 DEF RemovalLetsGo
  <2> QED
    BY <2>1, <2>2
<1>20. CASE UnlinksLock(p)
  BY <1>20 DEF UnlinksLock
<1>21. CASE RemovesDir(p)
  BY <1>21 DEF RemovesDir
<1>22. ASSUME NEW u \in Updates, FetchStarts(p, u)
      PROVE  Placed(p)
  BY <1>22 DEF FetchStarts
<1>23. CASE JarOpensLock(p)
  <2>1. OpensJarStep(p)
    BY <1>23, JarOpeners
  <2> QED
    BY <2>1 DEF OpensJarStep
<1>24. CASE JarLocks(p)
  BY <1>24 DEF JarLocks
<1>25. CASE JarReads(p)
  BY <1>25 DEF JarReads, JarRereads
<1>26. CASE JarWrites(p)
  BY <1>26 DEF JarWrites
<1>27. CASE JarUnlocks(p)
  BY <1>27 DEF JarUnlocks, Unlocks
<1>28. CASE Dies(p)
  BY <1>28 DEF Dies, Unlocks
<1> HIDE DEF Typed, PlacedNow, Goto, At, disk, cookies, Placed, Places, HostPlaces,
             ToolPlaces, JarPlaces, Guarded, HostGuarded, ToolGuarded, JarGuarded
<1> QED
  BY <1>1, <1>2, <1>3, <1>4, <1>5, <1>6, <1>7, <1>8, <1>9, <1>10, <1>11, <1>12, <1>13, <1>14,
     <1>15, <1>16, <1>17, <1>18, <1>19, <1>20, <1>21, <1>22, <1>23, <1>24, <1>25, <1>26,
     <1>27, <1>28
     DEF Move, Host, HostContinues, ToolContinues, FetchContinues

\* Names and the files opened under them, whatever a process does.
LEMMA OpensStep ==
    ASSUME NEW p \in Procs, Typed, PlacedNow(p), Move(p)
    PROVE  Opens(p)
<1> USE DEF Typed, PlacedNow, Goto, At, disk, cookies, Opens, Places, HostPlaces, ToolPlaces,
            JarPlaces, Guarded, HostGuarded, ToolGuarded, JarGuarded, Opened, JarOpened
<1>1. CASE HostStarts(p)
  BY <1>1 DEF HostStarts
<1>2. CASE HostOpensLock(p)
  <2>1. OpensLockStep(p)
    BY <1>2, LockOpeners
  <2> QED
    BY <2>1 DEF OpensLockStep
<1>3. CASE HostLocks(p)
  <2>1. CASE Taken(fd[p])
    BY <1>3, <2>1 DEF HostLocks, TriesLock
  <2>2. CASE ~Taken(fd[p])
    BY <1>3, <2>2 DEF HostLocks, TriesLock
  <2> QED
    BY <2>1, <2>2
<1>4. CASE HostWritesPid(p)
  BY <1>4 DEF HostWritesPid, WritesPid
<1>5. CASE HostWritesMeta(p)
  BY <1>5 DEF HostWritesMeta
<1>6. CASE HostBrowses(p)
  BY <1>6 DEF HostBrowses, Owners
<1>7. CASE HostStops(p)
  BY <1>7 DEF HostStops, Owners
<1>8. CASE HostRemovesPid(p)
  BY <1>8, DropsDo
<1>9. CASE HostUnlocks(p)
  BY <1>9, DropsDo
<1>10. ASSUME NEW r \in Roles \ {"host", "fetch"}, ToolStarts(p, r)
      PROVE  Opens(p)
  <2>1. CASE r = "delete"
    BY <1>10, <2>1 DEF ToolStarts, Roles, Removing
  <2>2. CASE r # "delete"
    BY <1>10, <2>2 DEF ToolStarts, Roles, Removing
  <2> QED
    BY <2>1, <2>2
<1>11. CASE Probes(p)
  <2>1. ProbeStep(p)
    BY <1>11, ProbeDoes
  <2> QED
    BY <2>1 DEF ProbeStep
<1>12. CASE ProbeUnlocks(p)
  BY <1>12 DEF ProbeUnlocks, Unlocks
<1>13. CASE Decides(p)
  BY <1>13 DEF Decides
<1>14. CASE RemovalOpensLock(p)
  <2>1. OpensLockStep(p)
    BY <1>14, LockOpeners
  <2> QED
    BY <2>1 DEF OpensLockStep
<1>15. CASE RemovalLocks(p)
  <2>1. CASE Taken(fd[p])
    BY <1>15, <2>1 DEF RemovalLocks, removalLocks, TriesLock
  <2>2. CASE ~Taken(fd[p])
    BY <1>15, <2>2 DEF RemovalLocks, removalLocks, TriesLock
  <2> QED
    BY <2>1, <2>2
<1>16. CASE RemovalWritesPid(p)
  BY <1>16 DEF RemovalWritesPid, WritesPid
<1>17. CASE RemovalLists(p)
  BY <1>17 DEF RemovalLists
<1>18. ASSUME NEW e \in Contents, RemovesEntry(p, e)
      PROVE  Opens(p)
  BY <1>18 DEF RemovesEntry
<1>19. CASE RemovalLetsGo(p)
  <2>1. CASE pc[p] = "emptying"
    BY <1>19, <2>1 DEF RemovalLetsGo
  <2>2. CASE pc[p] # "emptying"
    BY <1>19, <2>2 DEF RemovalLetsGo
  <2> QED
    BY <2>1, <2>2
<1>20. CASE UnlinksLock(p)
  BY <1>20 DEF UnlinksLock
<1>21. CASE RemovesDir(p)
  BY <1>21 DEF RemovesDir
<1>22. ASSUME NEW u \in Updates, FetchStarts(p, u)
      PROVE  Opens(p)
  BY <1>22 DEF FetchStarts
<1>23. CASE JarOpensLock(p)
  <2>1. OpensJarStep(p)
    BY <1>23, JarOpeners
  <2> QED
    BY <2>1 DEF OpensJarStep
<1>24. CASE JarLocks(p)
  BY <1>24 DEF JarLocks
<1>25. CASE JarReads(p)
  BY <1>25 DEF JarReads, JarRereads
<1>26. CASE JarWrites(p)
  BY <1>26 DEF JarWrites
<1>27. CASE JarUnlocks(p)
  BY <1>27 DEF JarUnlocks, Unlocks
<1>28. CASE Dies(p)
  BY <1>28 DEF Dies, Unlocks
<1> HIDE DEF Typed, PlacedNow, Goto, At, disk, cookies, Opens, Places, HostPlaces,
             ToolPlaces, JarPlaces, Guarded, HostGuarded, ToolGuarded, JarGuarded, Opened,
             JarOpened
<1> QED
  BY <1>1, <1>2, <1>3, <1>4, <1>5, <1>6, <1>7, <1>8, <1>9, <1>10, <1>11, <1>12, <1>13, <1>14,
     <1>15, <1>16, <1>17, <1>18, <1>19, <1>20, <1>21, <1>22, <1>23, <1>24, <1>25, <1>26,
     <1>27, <1>28
     DEF Move, Host, HostContinues, ToolContinues, FetchContinues

\* Nobody comes past a lock that is held.
LEMMA EntersStep ==
    ASSUME NEW p \in Procs, Typed, PlacedNow(p), Move(p)
    PROVE  Enters(p)
<1> USE DEF Typed, PlacedNow, Goto, At, disk, cookies, Enters, Places, HostPlaces,
            ToolPlaces, JarPlaces, Guarded, HostGuarded, ToolGuarded, JarGuarded, Opened,
            JarOpened
<1>1. CASE HostStarts(p)
  BY <1>1 DEF HostStarts
<1>2. CASE HostOpensLock(p)
  <2>1. OpensLockStep(p)
    BY <1>2, LockOpeners
  <2> QED
    BY <2>1 DEF OpensLockStep
<1>3. CASE HostLocks(p)
  BY <1>3 DEF HostLocks, TriesLock
<1>4. CASE HostWritesPid(p)
  BY <1>4 DEF HostWritesPid, WritesPid
<1>5. CASE HostWritesMeta(p)
  BY <1>5 DEF HostWritesMeta
<1>6. CASE HostBrowses(p)
  BY <1>6 DEF HostBrowses, Owners
<1>7. CASE HostStops(p)
  BY <1>7 DEF HostStops, Owners
<1>8. CASE HostRemovesPid(p)
  BY <1>8, DropsDo
<1>9. CASE HostUnlocks(p)
  BY <1>9, DropsDo
<1>10. ASSUME NEW r \in Roles \ {"host", "fetch"}, ToolStarts(p, r)
      PROVE  Enters(p)
  <2>1. CASE r = "delete"
    BY <1>10, <2>1 DEF ToolStarts, Roles, Removing
  <2>2. CASE r # "delete"
    BY <1>10, <2>2 DEF ToolStarts, Roles, Removing
  <2> QED
    BY <2>1, <2>2
<1>11. CASE Probes(p)
  <2>1. ProbeStep(p)
    BY <1>11, ProbeDoes
  <2> QED
    BY <2>1 DEF ProbeStep
<1>12. CASE ProbeUnlocks(p)
  BY <1>12 DEF ProbeUnlocks, Unlocks
<1>13. CASE Decides(p)
  BY <1>13 DEF Decides
<1>14. CASE RemovalOpensLock(p)
  <2>1. OpensLockStep(p)
    BY <1>14, LockOpeners
  <2> QED
    BY <2>1 DEF OpensLockStep
<1>15. CASE RemovalLocks(p)
  BY <1>15 DEF RemovalLocks, removalLocks, TriesLock
<1>16. CASE RemovalWritesPid(p)
  BY <1>16 DEF RemovalWritesPid, WritesPid
<1>17. CASE RemovalLists(p)
  BY <1>17 DEF RemovalLists
<1>18. ASSUME NEW e \in Contents, RemovesEntry(p, e)
      PROVE  Enters(p)
  BY <1>18 DEF RemovesEntry
<1>19. CASE RemovalLetsGo(p)
  BY <1>19 DEF RemovalLetsGo
<1>20. CASE UnlinksLock(p)
  BY <1>20 DEF UnlinksLock
<1>21. CASE RemovesDir(p)
  BY <1>21 DEF RemovesDir
<1>22. ASSUME NEW u \in Updates, FetchStarts(p, u)
      PROVE  Enters(p)
  BY <1>22 DEF FetchStarts
<1>23. CASE JarOpensLock(p)
  <2>1. OpensJarStep(p)
    BY <1>23, JarOpeners
  <2> QED
    BY <2>1 DEF OpensJarStep
<1>24. CASE JarLocks(p)
  BY <1>24 DEF JarLocks
<1>25. CASE JarReads(p)
  BY <1>25 DEF JarReads, JarRereads
<1>26. CASE JarWrites(p)
  BY <1>26 DEF JarWrites
<1>27. CASE JarUnlocks(p)
  BY <1>27 DEF JarUnlocks, Unlocks
<1>28. CASE Dies(p)
  BY <1>28 DEF Dies, Unlocks
<1> HIDE DEF Typed, PlacedNow, Goto, At, disk, cookies, Enters, Places, HostPlaces,
             ToolPlaces, JarPlaces, Guarded, HostGuarded, ToolGuarded, JarGuarded, Opened,
             JarOpened
<1> QED
  BY <1>1, <1>2, <1>3, <1>4, <1>5, <1>6, <1>7, <1>8, <1>9, <1>10, <1>11, <1>12, <1>13, <1>14,
     <1>15, <1>16, <1>17, <1>18, <1>19, <1>20, <1>21, <1>22, <1>23, <1>24, <1>25, <1>26,
     <1>27, <1>28
     DEF Move, Host, HostContinues, ToolContinues, FetchContinues

\* Pid file and jar change under their locks.
LEMMA WritesStep ==
    ASSUME NEW p \in Procs, Typed, PlacedNow(p), Move(p)
    PROVE  Writes(p)
<1> USE DEF Typed, PlacedNow, Goto, At, disk, cookies, Writes, Guarded, HostGuarded,
            ToolGuarded, JarGuarded
<1>1. CASE HostStarts(p)
  BY <1>1 DEF HostStarts
<1>2. CASE HostOpensLock(p)
  <2>1. OpensLockStep(p)
    BY <1>2, LockOpeners
  <2> QED
    BY <2>1 DEF OpensLockStep
<1>3. CASE HostLocks(p)
  BY <1>3 DEF HostLocks, TriesLock
<1>4. CASE HostWritesPid(p)
  <2>1. CASE dir
    BY <1>4, <2>1 DEF HostWritesPid, WritesPid
  <2>2. CASE ~dir
    BY <1>4, <2>2 DEF HostWritesPid, WritesPid
  <2> QED
    BY <2>1, <2>2
<1>5. CASE HostWritesMeta(p)
  <2>1. CASE meta # "foreign" /\ dir
    BY <1>5, <2>1 DEF HostWritesMeta
  <2>2. CASE ~(meta # "foreign" /\ dir)
    BY <1>5, <2>2 DEF HostWritesMeta
  <2> QED
    BY <2>1, <2>2
<1>6. CASE HostBrowses(p)
  BY <1>6 DEF HostBrowses, Owners
<1>7. CASE HostStops(p)
  BY <1>7 DEF HostStops, Owners
<1>8. CASE HostRemovesPid(p)
  BY <1>8, DropsDo
<1>9. CASE HostUnlocks(p)
  BY <1>9, DropsDo
<1>10. ASSUME NEW r \in Roles \ {"host", "fetch"}, ToolStarts(p, r)
      PROVE  Writes(p)
  BY <1>10 DEF ToolStarts, Roles, Removing
<1>11. CASE Probes(p)
  <2>1. ProbeStep(p)
    BY <1>11, ProbeDoes
  <2> QED
    BY <2>1 DEF ProbeStep
<1>12. CASE ProbeUnlocks(p)
  BY <1>12 DEF ProbeUnlocks, Unlocks
<1>13. CASE Decides(p)
  BY <1>13 DEF Decides
<1>14. CASE RemovalOpensLock(p)
  <2>1. OpensLockStep(p)
    BY <1>14, LockOpeners
  <2> QED
    BY <2>1 DEF OpensLockStep
<1>15. CASE RemovalLocks(p)
  BY <1>15 DEF RemovalLocks, removalLocks, TriesLock
<1>16. CASE RemovalWritesPid(p)
  BY <1>16 DEF RemovalWritesPid, WritesPid
<1>17. CASE RemovalLists(p)
  BY <1>17 DEF RemovalLists
<1>18. ASSUME NEW e \in Contents, RemovesEntry(p, e)
      PROVE  Writes(p)
  BY <1>18 DEF RemovesEntry
<1>19. CASE RemovalLetsGo(p)
  BY <1>19 DEF RemovalLetsGo
<1>20. CASE UnlinksLock(p)
  BY <1>20 DEF UnlinksLock
<1>21. CASE RemovesDir(p)
  BY <1>21 DEF RemovesDir
<1>22. ASSUME NEW u \in Updates, FetchStarts(p, u)
      PROVE  Writes(p)
  BY <1>22 DEF FetchStarts
<1>23. CASE JarOpensLock(p)
  <2>1. OpensJarStep(p)
    BY <1>23, JarOpeners
  <2> QED
    BY <2>1 DEF OpensJarStep
<1>24. CASE JarLocks(p)
  BY <1>24 DEF JarLocks
<1>25. CASE JarReads(p)
  BY <1>25 DEF JarReads, JarRereads
<1>26. CASE JarWrites(p)
  BY <1>26 DEF JarWrites
<1>27. CASE JarUnlocks(p)
  BY <1>27 DEF JarUnlocks, Unlocks
<1>28. CASE Dies(p)
  BY <1>28 DEF Dies, Unlocks
<1> HIDE DEF Typed, PlacedNow, Goto, At, disk, cookies, Writes, Guarded, HostGuarded,
             ToolGuarded, JarGuarded
<1> QED
  BY <1>1, <1>2, <1>3, <1>4, <1>5, <1>6, <1>7, <1>8, <1>9, <1>10, <1>11, <1>12, <1>13, <1>14,
     <1>15, <1>16, <1>17, <1>18, <1>19, <1>20, <1>21, <1>22, <1>23, <1>24, <1>25, <1>26,
     <1>27, <1>28
     DEF Move, Host, HostContinues, ToolContinues, FetchContinues

\* Only a removal takes more than a pid file.
LEMMA TakesStep ==
    ASSUME NEW p \in Procs, Typed, PlacedNow(p), Move(p)
    PROVE  Takes(p)
<1> USE DEF Typed, PlacedNow, Goto, At, disk, cookies, Takes
<1>1. CASE HostStarts(p)
  BY <1>1 DEF HostStarts
<1>2. CASE HostOpensLock(p)
  <2>1. OpensLockStep(p)
    BY <1>2, LockOpeners
  <2> QED
    BY <2>1 DEF OpensLockStep
<1>3. CASE HostLocks(p)
  BY <1>3 DEF HostLocks, TriesLock
<1>4. CASE HostWritesPid(p)
  <2>1. CASE dir
    BY <1>4, <2>1 DEF HostWritesPid, WritesPid
  <2>2. CASE ~dir
    BY <1>4, <2>2 DEF HostWritesPid, WritesPid
  <2> QED
    BY <2>1, <2>2
<1>5. CASE HostWritesMeta(p)
  <2>1. CASE meta # "foreign" /\ dir
    BY <1>5, <2>1 DEF HostWritesMeta
  <2>2. CASE ~(meta # "foreign" /\ dir)
    BY <1>5, <2>2 DEF HostWritesMeta
  <2> QED
    BY <2>1, <2>2
<1>6. CASE HostBrowses(p)
  BY <1>6 DEF HostBrowses, Owners
<1>7. CASE HostStops(p)
  BY <1>7 DEF HostStops, Owners
<1>8. CASE HostRemovesPid(p)
  BY <1>8, DropsDo
<1>9. CASE HostUnlocks(p)
  BY <1>9, DropsDo
<1>10. ASSUME NEW r \in Roles \ {"host", "fetch"}, ToolStarts(p, r)
      PROVE  Takes(p)
  BY <1>10 DEF ToolStarts, Roles, Removing
<1>11. CASE Probes(p)
  <2>1. ProbeStep(p)
    BY <1>11, ProbeDoes
  <2> QED
    BY <2>1 DEF ProbeStep
<1>12. CASE ProbeUnlocks(p)
  BY <1>12 DEF ProbeUnlocks, Unlocks
<1>13. CASE Decides(p)
  BY <1>13 DEF Decides
<1>14. CASE RemovalOpensLock(p)
  <2>1. OpensLockStep(p)
    BY <1>14, LockOpeners
  <2> QED
    BY <2>1 DEF OpensLockStep
<1>15. CASE RemovalLocks(p)
  BY <1>15 DEF RemovalLocks, removalLocks, TriesLock
<1>16. CASE RemovalWritesPid(p)
  <2>1. CASE dir
    BY <1>16, <2>1 DEF RemovalWritesPid, WritesPid
  <2>2. CASE ~dir
    BY <1>16, <2>2 DEF RemovalWritesPid, WritesPid
  <2> QED
    BY <2>1, <2>2
<1>17. CASE RemovalLists(p)
  BY <1>17 DEF RemovalLists
<1>18. ASSUME NEW e \in Contents, RemovesEntry(p, e)
      PROVE  Takes(p)
  <2>1. CASE e \in entries
    BY <1>18, <2>1 DEF RemovesEntry
  <2>2. CASE e \notin entries
    BY <1>18, <2>2 DEF RemovesEntry
  <2> QED
    BY <2>1, <2>2
<1>19. CASE RemovalLetsGo(p)
  <2>1. CASE pc[p] = "emptying"
    BY <1>19, <2>1 DEF RemovalLetsGo
  <2>2. CASE pc[p] # "emptying"
    BY <1>19, <2>2 DEF RemovalLetsGo
  <2> QED
    BY <2>1, <2>2
<1>20. CASE UnlinksLock(p)
  BY <1>20 DEF UnlinksLock
<1>21. CASE RemovesDir(p)
  BY <1>21 DEF RemovesDir
<1>22. ASSUME NEW u \in Updates, FetchStarts(p, u)
      PROVE  Takes(p)
  BY <1>22 DEF FetchStarts
<1>23. CASE JarOpensLock(p)
  <2>1. OpensJarStep(p)
    BY <1>23, JarOpeners
  <2> QED
    BY <2>1 DEF OpensJarStep
<1>24. CASE JarLocks(p)
  BY <1>24 DEF JarLocks
<1>25. CASE JarReads(p)
  BY <1>25 DEF JarReads, JarRereads
<1>26. CASE JarWrites(p)
  <2>1. CASE dir
    BY <1>26, <2>1 DEF JarWrites
  <2>2. CASE ~dir
    BY <1>26, <2>2 DEF JarWrites
  <2> QED
    BY <2>1, <2>2
<1>27. CASE JarUnlocks(p)
  BY <1>27 DEF JarUnlocks, Unlocks
<1>28. CASE Dies(p)
  BY <1>28 DEF Dies, Unlocks
<1> HIDE DEF Typed, PlacedNow, Goto, At, disk, cookies, Takes
<1> QED
  BY <1>1, <1>2, <1>3, <1>4, <1>5, <1>6, <1>7, <1>8, <1>9, <1>10, <1>11, <1>12, <1>13, <1>14,
     <1>15, <1>16, <1>17, <1>18, <1>19, <1>20, <1>21, <1>22, <1>23, <1>24, <1>25, <1>26,
     <1>27, <1>28
     DEF Move, Host, HostContinues, ToolContinues, FetchContinues


\* The directory's part of StoreTypeOK, and the processes'.
DiskTyped ==
  /\ dir \in BOOLEAN /\ aged \in BOOLEAN
  /\ entries \subseteq Contents
  /\ lockfile \in Files \cup {Nobody} /\ jarlock \in Procs \cup {Nobody}
  /\ pidfile \in Procs \cup {Nobody} /\ ("pid" \in entries <=> pidfile # Nobody)
  /\ meta \in {Nobody, "ours", "foreign"} /\ ("meta" \in entries <=> meta # Nobody)
  /\ stored \in [Cookies -> Procs \cup {Nobody}] /\ ("jar" \notin entries => stored = NoJar)
  /\ "jarlock" \in entries <=> jarlock # Nobody
  /\ ~dir => entries = {} /\ lockfile = Nobody
  /\ torn \subseteq {"lock", "jar", "jarlock"}

ProcsTyped ==
  /\ role \in [Procs -> Roles \cup {Nobody}]
  /\ fd \in [Procs -> Files \cup {Nobody}]
  /\ holds \in [Procs -> BOOLEAN]
  /\ todo \in [Procs -> SUBSET Contents]
  /\ update \in [Procs -> [Cookies -> {"kept", "set", "expired"}]]
  /\ seen \in [Procs -> [Cookies -> Procs \cup {Nobody}]]
  /\ deaths \in 0 .. MaxDeaths

\* A step that adds an entry writes that entry's content only.
LEMMA AddsEntry ==
  ASSUME DiskTyped, NEW e \in Contents, dir, dir' = dir, aged' \in BOOLEAN,
         UNCHANGED <<lockfile, torn>>, entries' = entries \cup {e},
         IF e = "pid" THEN pidfile' \in Procs ELSE UNCHANGED pidfile,
         IF e = "meta" THEN meta' = "ours" ELSE UNCHANGED meta,
         IF e = "jar" THEN stored' \in [Cookies -> Procs \cup {Nobody}] ELSE UNCHANGED stored,
         IF e = "jarlock" THEN jarlock' \in Procs ELSE UNCHANGED jarlock
  PROVE  DiskTyped'
<1>1. \A p \in Procs : p # Nobody
  BY NamesAssumption
<1>2. \A f : f \in entries' <=> f \in entries \/ f = e
  OBVIOUS
<1>3. /\ pidfile' \in Procs \cup {Nobody} /\ ("pid" \in entries' <=> pidfile' # Nobody)
      /\ jarlock' \in Procs \cup {Nobody} /\ ("jarlock" \in entries' <=> jarlock' # Nobody)
  BY <1>1, <1>2 DEF DiskTyped
<1>4. meta' \in {Nobody, "ours", "foreign"} /\ ("meta" \in entries' <=> meta' # Nobody)
  BY <1>2 DEF DiskTyped, Nobody
<1>5. /\ stored' \in [Cookies -> Procs \cup {Nobody}]
      /\ "jar" \notin entries' => stored' = NoJar
  BY <1>2 DEF DiskTyped
<1> QED
  BY <1>3, <1>4, <1>5 DEF DiskTyped, Contents, NoJar


\* What a fetch writes is a jar.
LEMMA MergedTyped ==
  ASSUME ProcsTyped, NEW p \in Procs
  PROVE  Merged(p) \in [Cookies -> Procs \cup {Nobody}]
<1>1. ASSUME NEW c \in Cookies
      PROVE  Merged(p)[c] \in Procs \cup {Nobody}
  BY DEF ProcsTyped, Merged
<1> QED
  BY <1>1 DEF Merged

\* Every move leaves what it should: the directory.
LEMMA DiskTypedStep ==
    ASSUME NEW p \in Procs, DiskTyped, ProcsTyped, Move(p)
    PROVE  DiskTyped'
<1> USE DEF Goto, At, disk
<1>0. p # Nobody
  BY NamesAssumption
<1>1. CASE HostStarts(p)
  BY <1>0, <1>1 DEF DiskTyped, Contents, HostStarts
<1>2. CASE HostOpensLock(p)
  <2>1. CASE ~dir
    BY <1>0, <1>2, <2>1 DEF DiskTyped, Contents, HostOpensLock, OpensLock, Files
  <2>2. CASE dir /\ lockfile = Nobody
    BY <1>0, <1>2, <2>2 DEF DiskTyped, Contents, HostOpensLock, OpensLock, Files
  <2>3. CASE dir /\ lockfile # Nobody
    BY <1>0, <1>2, <2>3 DEF DiskTyped, Contents, HostOpensLock, OpensLock, Files
  <2> QED
    BY <2>1, <2>2, <2>3
<1>3. CASE HostLocks(p)
  BY <1>0, <1>3 DEF DiskTyped, Contents, HostLocks, TriesLock
<1>4. CASE HostWritesPid(p)
  <2>1. CASE dir
    <3>1. /\ entries' = entries \cup {"pid"} /\ dir /\ dir' = dir /\ aged' \in BOOLEAN
          /\ UNCHANGED <<lockfile, torn, meta, stored, jarlock>> /\ pidfile' = p
      BY <1>0, <1>4, <2>1 DEF HostWritesPid, WritesPid
    <3> QED
      BY <3>1, AddsEntry DEF Contents
  <2>2. CASE ~dir
    BY <1>0, <1>4, <2>2 DEF HostWritesPid, WritesPid, DiskTyped, Contents
  <2> QED
    BY <2>1, <2>2
<1>5. CASE HostWritesMeta(p)
  <2>1. CASE meta # "foreign" /\ dir
    <3>1. /\ entries' = entries \cup {"meta"} /\ dir /\ dir' = dir /\ aged' \in BOOLEAN
          /\ UNCHANGED <<lockfile, torn, pidfile, stored, jarlock>> /\ meta' = "ours"
      BY <1>0, <1>5, <2>1 DEF HostWritesMeta
    <3> QED
      BY <3>1, AddsEntry DEF Contents
  <2>2. CASE ~(meta # "foreign" /\ dir)
    BY <1>0, <1>5, <2>2 DEF HostWritesMeta, DiskTyped, Contents
  <2> QED
    BY <2>1, <2>2
<1>6. CASE HostBrowses(p)
  BY <1>0, <1>6 DEF DiskTyped, Contents, HostBrowses, Owners
<1>7. CASE HostStops(p)
  BY <1>0, <1>7 DEF DiskTyped, Contents, HostStops, Owners
<1>8. CASE HostRemovesPid(p)
  BY <1>0, <1>8
     DEF DiskTyped, Contents, HostRemovesPid, HostDrops, RemovesPid, Unlocks, lockAfterDrop
<1>9. CASE HostUnlocks(p)
  BY <1>0, <1>9
     DEF DiskTyped, Contents, HostUnlocks, HostDrops, RemovesPid, Unlocks, lockAfterDrop
<1>10. ASSUME NEW r \in Roles \ {"host", "fetch"}, ToolStarts(p, r)
      PROVE  DiskTyped'
  BY <1>0, <1>10 DEF DiskTyped, Contents, ToolStarts, Roles, Removing
<1>11. CASE Probes(p)
  <2>1. CASE lockfile = Nobody
    BY <1>0, <1>11, <2>1 DEF DiskTyped, Contents, Probes
  <2>2. CASE lockfile # Nobody /\ Taken(lockfile)
    BY <1>0, <1>11, <2>2 DEF DiskTyped, Contents, Probes
  <2>3. CASE lockfile # Nobody /\ ~Taken(lockfile)
    BY <1>0, <1>11, <2>3 DEF DiskTyped, Contents, Probes
  <2> QED
    BY <2>1, <2>2, <2>3
<1>12. CASE ProbeUnlocks(p)
  BY <1>0, <1>12 DEF DiskTyped, Contents, ProbeUnlocks, Unlocks
<1>13. CASE Decides(p)
  BY <1>0, <1>13 DEF DiskTyped, Contents, Decides
<1>14. CASE RemovalOpensLock(p)
  <2>1. CASE ~dir
    BY <1>0, <1>14, <2>1 DEF DiskTyped, Contents, RemovalOpensLock, OpensLock, Files
  <2>2. CASE dir /\ lockfile = Nobody
    BY <1>0, <1>14, <2>2 DEF DiskTyped, Contents, RemovalOpensLock, OpensLock, Files
  <2>3. CASE dir /\ lockfile # Nobody
    BY <1>0, <1>14, <2>3 DEF DiskTyped, Contents, RemovalOpensLock, OpensLock, Files
  <2> QED
    BY <2>1, <2>2, <2>3
<1>15. CASE RemovalLocks(p)
  BY <1>0, <1>15 DEF DiskTyped, Contents, RemovalLocks, removalLocks, TriesLock
<1>16. CASE RemovalWritesPid(p)
  <2>1. CASE dir
    <3>1. /\ entries' = entries \cup {"pid"} /\ dir /\ dir' = dir /\ aged' \in BOOLEAN
          /\ UNCHANGED <<lockfile, torn, meta, stored, jarlock>> /\ pidfile' = p
      BY <1>0, <1>16, <2>1 DEF RemovalWritesPid, WritesPid
    <3> QED
      BY <3>1, AddsEntry DEF Contents
  <2>2. CASE ~dir
    BY <1>0, <1>16, <2>2 DEF RemovalWritesPid, WritesPid, DiskTyped, Contents
  <2> QED
    BY <2>1, <2>2
<1>17. CASE RemovalLists(p)
  BY <1>0, <1>17 DEF DiskTyped, Contents, RemovalLists
<1>18. ASSUME NEW e \in Contents, RemovesEntry(p, e)
      PROVE  DiskTyped'
  <2>1. CASE e \in entries
    <3>1. /\ entries' = entries \ {e} /\ aged' = FALSE
          /\ UNCHANGED <<dir, lockfile>> /\ torn' = torn \cup ({e} \cap {"jar", "jarlock"})
          /\ pidfile' = (IF e = "pid" THEN Nobody ELSE pidfile)
          /\ meta' = (IF e = "meta" THEN Nobody ELSE meta)
          /\ stored' = (IF e = "jar" THEN NoJar ELSE stored)
          /\ jarlock' = (IF e = "jarlock" THEN Nobody ELSE jarlock)
      BY <1>18, <2>1 DEF RemovesEntry
    <3>2. \A f : f \in entries' <=> f \in entries /\ f # e
      BY <3>1
    <3>3. NoJar \in [Cookies -> Procs \cup {Nobody}] /\ NoJar' = NoJar
      BY DEF NoJar
    <3>4. /\ pidfile' \in Procs \cup {Nobody} /\ ("pid" \in entries' <=> pidfile' # Nobody)
          /\ jarlock' \in Procs \cup {Nobody} /\ ("jarlock" \in entries' <=> jarlock' # Nobody)
          /\ meta' \in {Nobody, "ours", "foreign"} /\ ("meta" \in entries' <=> meta' # Nobody)
      BY <3>1, <3>2 DEF DiskTyped
    <3>5. /\ stored' \in [Cookies -> Procs \cup {Nobody}]
          /\ "jar" \notin entries' => stored' = NoJar
      BY <3>1, <3>2, <3>3 DEF DiskTyped
    <3>6. /\ entries' \subseteq Contents /\ torn' \subseteq {"lock", "jar", "jarlock"}
          /\ aged' \in BOOLEAN
      BY <3>1 DEF DiskTyped
    <3>7. ~dir' => entries' = {} /\ lockfile' = Nobody
      BY <3>1 DEF DiskTyped
    <3> QED
      BY <3>1, <3>3, <3>4, <3>5, <3>6, <3>7 DEF DiskTyped, Contents
  <2>2. CASE e \notin entries
    BY <1>18, <2>2 DEF RemovesEntry, DiskTyped, Contents
  <2> QED
    BY <2>1, <2>2
<1>19. CASE RemovalLetsGo(p)
  <2>1. CASE pc[p] = "emptying"
    BY <1>0, <1>19, <2>1 DEF DiskTyped, Contents, RemovalLetsGo
  <2>2. CASE pc[p] # "emptying"
    BY <1>0, <1>19, <2>2 DEF DiskTyped, Contents, RemovalLetsGo
  <2> QED
    BY <2>1, <2>2
<1>20. CASE UnlinksLock(p)
  BY <1>0, <1>20 DEF DiskTyped, Contents, UnlinksLock
<1>21. CASE RemovesDir(p)
  BY <1>0, <1>21 DEF DiskTyped, Contents, RemovesDir
<1>22. ASSUME NEW u \in Updates, FetchStarts(p, u)
      PROVE  DiskTyped'
  BY <1>0, <1>22 DEF DiskTyped, Contents, FetchStarts, Updates
<1>23. CASE JarOpensLock(p)
  <2>1. CASE dir
    <3>0. jarlock \in Procs \cup {Nobody}
      BY DEF DiskTyped
    <3>1. /\ entries' = entries \cup {"jarlock"} /\ dir /\ dir' = dir /\ aged' \in BOOLEAN
          /\ UNCHANGED <<lockfile, torn, pidfile, meta, stored>> /\ jarlock' \in Procs
      BY <1>0, <1>23, <2>1, <3>0 DEF JarOpensLock
    <3> QED
      BY <3>1, AddsEntry DEF Contents
  <2>2. CASE ~dir
    BY <1>0, <1>23, <2>2 DEF JarOpensLock, DiskTyped, Contents
  <2> QED
    BY <2>1, <2>2
<1>24. CASE JarLocks(p)
  BY <1>0, <1>24 DEF DiskTyped, Contents, JarLocks
<1>25. CASE JarReads(p)
  BY <1>0, <1>25 DEF DiskTyped, Contents, JarReads, JarRereads
<1>26. CASE JarWrites(p)
  <2>1. CASE dir
    <3>0. Merged(p) \in [Cookies -> Procs \cup {Nobody}]
      BY MergedTyped
    <3>1. /\ entries' = entries \cup {"jar"} /\ dir /\ dir' = dir /\ aged' \in BOOLEAN
          /\ UNCHANGED <<lockfile, torn, pidfile, meta, jarlock>> /\ stored' \in [Cookies -> Procs \cup {Nobody}]
      BY <1>0, <1>26, <2>1, <3>0 DEF JarWrites
    <3> QED
      BY <3>1, AddsEntry DEF Contents
  <2>2. CASE ~dir
    BY <1>0, <1>26, <2>2 DEF JarWrites, DiskTyped, Contents
  <2> QED
    BY <2>1, <2>2
<1>27. CASE JarUnlocks(p)
  BY <1>0, <1>27 DEF DiskTyped, Contents, JarUnlocks, Unlocks
<1>28. CASE Dies(p)
  BY <1>0, <1>28 DEF DiskTyped, Contents, Dies, Unlocks
<1> HIDE DEF Goto, At, disk
<1> QED
  BY <1>0, <1>1, <1>2, <1>3, <1>4, <1>5, <1>6, <1>7, <1>8, <1>9, <1>10, <1>11, <1>12, <1>13,
     <1>14, <1>15, <1>16, <1>17, <1>18, <1>19, <1>20, <1>21, <1>22, <1>23, <1>24, <1>25,
     <1>26, <1>27, <1>28
     DEF Move, Host, HostContinues, ToolContinues, FetchContinues

\* Every move leaves what it should: the processes.
LEMMA ProcsTypedStep ==
    ASSUME NEW p \in Procs, DiskTyped, ProcsTyped, Move(p)
    PROVE  ProcsTyped'
<1> USE DEF ProcsTyped, disk, cookies
<1>0. {p, lockfile, jarlock} \subseteq Files \cup {Nobody}
  BY DEF DiskTyped, Files
<1>1. CASE HostStarts(p)
  BY <1>0, <1>1 DEF HostStarts, Roles
<1>2. CASE HostOpensLock(p)
  <2>1. CASE ~dir
    BY <1>0, <1>2, <2>1 DEF HostOpensLock, OpensLock
  <2>2. CASE dir /\ lockfile = Nobody
    BY <1>0, <1>2, <2>2 DEF HostOpensLock, OpensLock
  <2>3. CASE dir /\ lockfile # Nobody
    BY <1>0, <1>2, <2>3 DEF HostOpensLock, OpensLock
  <2> QED
    BY <2>1, <2>2, <2>3
<1>3. CASE HostLocks(p)
  BY <1>0, <1>3 DEF HostLocks, TriesLock
<1>4. CASE HostWritesPid(p)
  BY <1>0, <1>4 DEF HostWritesPid, WritesPid
<1>5. CASE HostWritesMeta(p)
  <2>1. CASE meta # "foreign" /\ dir
    BY <1>0, <1>5, <2>1 DEF HostWritesMeta
  <2>2. CASE ~(meta # "foreign" /\ dir)
    BY <1>0, <1>5, <2>2 DEF HostWritesMeta
  <2> QED
    BY <2>1, <2>2
<1>6. CASE HostBrowses(p)
  BY <1>0, <1>6 DEF HostBrowses, Owners
<1>7. CASE HostStops(p)
  BY <1>0, <1>7 DEF HostStops, Owners
<1>8. CASE HostRemovesPid(p)
  BY <1>0, <1>8 DEF HostRemovesPid, HostDrops, RemovesPid, Unlocks, lockAfterDrop
<1>9. CASE HostUnlocks(p)
  BY <1>0, <1>9 DEF HostUnlocks, HostDrops, RemovesPid, Unlocks, lockAfterDrop
<1>10. ASSUME NEW r \in Roles \ {"host", "fetch"}, ToolStarts(p, r)
      PROVE  ProcsTyped'
  <2>1. CASE r = "delete"
    BY <1>0, <1>10, <2>1 DEF ToolStarts, Roles, Removing
  <2>2. CASE r # "delete"
    BY <1>0, <1>10, <2>2 DEF ToolStarts, Roles, Removing
  <2> QED
    BY <2>1, <2>2
<1>11. CASE Probes(p)
  <2>1. CASE lockfile = Nobody
    BY <1>0, <1>11, <2>1 DEF Probes
  <2>2. CASE lockfile # Nobody /\ Taken(lockfile)
    BY <1>0, <1>11, <2>2 DEF Probes
  <2>3. CASE lockfile # Nobody /\ ~Taken(lockfile)
    BY <1>0, <1>11, <2>3 DEF Probes
  <2> QED
    BY <2>1, <2>2, <2>3
<1>12. CASE ProbeUnlocks(p)
  BY <1>0, <1>12 DEF ProbeUnlocks, Unlocks
<1>13. CASE Decides(p)
  BY <1>0, <1>13 DEF Decides
<1>14. CASE RemovalOpensLock(p)
  <2>1. CASE ~dir
    BY <1>0, <1>14, <2>1 DEF RemovalOpensLock, OpensLock
  <2>2. CASE dir /\ lockfile = Nobody
    BY <1>0, <1>14, <2>2 DEF RemovalOpensLock, OpensLock
  <2>3. CASE dir /\ lockfile # Nobody
    BY <1>0, <1>14, <2>3 DEF RemovalOpensLock, OpensLock
  <2> QED
    BY <2>1, <2>2, <2>3
<1>15. CASE RemovalLocks(p)
  BY <1>0, <1>15 DEF RemovalLocks, removalLocks, TriesLock
<1>16. CASE RemovalWritesPid(p)
  BY <1>0, <1>16 DEF RemovalWritesPid, WritesPid
<1>17. CASE RemovalLists(p)
  BY <1>0, <1>17 DEF RemovalLists, DiskTyped
<1>18. ASSUME NEW e \in Contents, RemovesEntry(p, e)
      PROVE  ProcsTyped'
  <2>1. CASE e \in entries
    BY <1>0, <1>18, <2>1 DEF RemovesEntry
  <2>2. CASE e \notin entries
    BY <1>0, <1>18, <2>2 DEF RemovesEntry
  <2> QED
    BY <2>1, <2>2
<1>19. CASE RemovalLetsGo(p)
  BY <1>0, <1>19 DEF RemovalLetsGo
<1>20. CASE UnlinksLock(p)
  BY <1>0, <1>20 DEF UnlinksLock
<1>21. CASE RemovesDir(p)
  BY <1>0, <1>21 DEF RemovesDir
<1>22. ASSUME NEW u \in Updates, FetchStarts(p, u)
      PROVE  ProcsTyped'
  BY <1>0, <1>22 DEF FetchStarts, Updates, DiskTyped, Roles
<1>23. CASE JarOpensLock(p)
  <2>1. CASE ~dir
    BY <1>0, <1>23, <2>1 DEF JarOpensLock
  <2>2. CASE dir /\ jarlock = Nobody
    BY <1>0, <1>23, <2>2 DEF JarOpensLock
  <2>3. CASE dir /\ jarlock # Nobody
    BY <1>0, <1>23, <2>3 DEF JarOpensLock
  <2> QED
    BY <2>1, <2>2, <2>3
<1>24. CASE JarLocks(p)
  BY <1>0, <1>24 DEF JarLocks
<1>25. CASE JarReads(p)
  BY <1>0, <1>25 DEF JarReads, JarRereads, DiskTyped
<1>26. CASE JarWrites(p)
  BY <1>0, <1>26 DEF JarWrites
<1>27. CASE JarUnlocks(p)
  BY <1>0, <1>27 DEF JarUnlocks, Unlocks
<1>28. CASE Dies(p)
  <2>1. deaths' \in 0 .. MaxDeaths
    BY <1>28, DeathsAssumption DEF Dies
  <2>2. holds' \in [Procs -> BOOLEAN]
    BY <1>28 DEF Dies, Unlocks
  <2> QED
    BY <1>28, <2>1, <2>2 DEF Dies
<1> HIDE DEF ProcsTyped, disk, cookies
<1> QED
  BY <1>0, <1>1, <1>2, <1>3, <1>4, <1>5, <1>6, <1>7, <1>8, <1>9, <1>10, <1>11, <1>12, <1>13,
     <1>14, <1>15, <1>16, <1>17, <1>18, <1>19, <1>20, <1>21, <1>22, <1>23, <1>24, <1>25,
     <1>26, <1>27, <1>28
     DEF Move, Host, HostContinues, ToolContinues, FetchContinues


-------------------------------------------------------------------------------
(* The invariant.                                                             *)

\* The parts of the invariant each of the lemmas above starts from.
LEMMA Parts ==
  ASSUME StoreInv
  PROVE  Typed /\ DiskTyped /\ ProcsTyped /\ \A p \in Procs : PlacedNow(p)
BY DEF StoreInv, StoreTypeOK, PlacesOK, Typed, DiskTyped, ProcsTyped, PlacedNow

\* A step is a move of one process or time passing.
LEMMA NextMoves == Next => Ages \/ \E p \in Procs : Move(p)
BY DEF Next, Move

\* Time changes no more than the directory's age.
LEMMA AgesStep ==
  ASSUME StoreInv, Ages
  PROVE  StoreInv'
<1>1. aged' = TRUE /\ UNCHANGED <<dir, entries, lockfile, jarlock, pidfile, meta, stored,
   torn>>
  BY DEF Ages
<1>2. UNCHANGED <<role, pc, fd, holds, todo, update, seen, deaths>>
  BY DEF Ages, cookies
<1>3. StoreTypeOK'
  BY <1>1, <1>2 DEF StoreInv, StoreTypeOK
<1>4. PlacesOK' /\ NamesOK' /\ ExclusionOK' /\ DoneOK'
  BY <1>1, <1>2 DEF StoreInv, PlacesOK, NamesOK, ExclusionOK, DoneOK
<1> QED
  BY <1>3, <1>4 DEF StoreInv

\* A move keeps everybody at a place of its role, holding a lock just there.
LEMMA PlacesStep ==
  ASSUME StoreInv, NEW p \in Procs, Alone(p), Placed(p)
  PROVE  PlacesOK'
<1>1. ASSUME NEW q \in Procs, q # p
      PROVE  pc'[q] = pc[q] /\ role'[q] = role[q] /\ (holds'[q] <=> holds[q])
  BY <1>1 DEF Alone
<1> QED
  BY <1>1 DEF StoreInv, PlacesOK, Placed

\* A move leaves the names standing for the files that are open: a name that
\* stands for nothing has nobody past its opening.
LEMMA NamesStep ==
  ASSUME StoreInv, NEW p \in Procs, Alone(p), Opens(p)
  PROVE  NamesOK'
<1>1. ASSUME "lock" \notin torn', NEW q \in Procs, pc'[q] \in Opened
      PROVE  fd'[q] = lockfile' /\ lockfile' # Nobody
  <2>1. "lock" \notin torn
    BY <1>1 DEF Opens
  <2>2. CASE q # p
    BY <1>1, <2>1, <2>2 DEF Alone, Opens, StoreInv, NamesOK
  <2>3. CASE q = p
    BY <1>1, <2>1, <2>3 DEF Opens, StoreInv, NamesOK
  <2> QED
    BY <2>2, <2>3
<1>2. ASSUME "jarlock" \notin torn', NEW q \in Procs, pc'[q] \in JarOpened
      PROVE  fd'[q] = jarlock' /\ jarlock' # Nobody
  <2>1. "jarlock" \notin torn
    BY <1>2 DEF Opens
  <2>2. CASE q # p
    BY <1>2, <2>1, <2>2 DEF Alone, Opens, StoreInv, NamesOK
  <2>3. CASE q = p
    BY <1>2, <2>1, <2>3 DEF Opens, StoreInv, NamesOK
  <2> QED
    BY <2>2, <2>3
<1> QED
  BY <1>1, <1>2 DEF NamesOK, Nobody

\* Whoever is past a lock holds it, so nobody comes past it as well.
LEMMA ExclusionStep ==
  ASSUME StoreInv, NEW p \in Procs, Alone(p), Enters(p)
  PROVE  ExclusionOK'
<1>1. ASSUME NEW q \in Procs, q # p, pc'[p] \in Guarded, pc'[q] \in Guarded, fd'[p] = fd'[q]
      PROVE  FALSE
  <2>1. pc[q] \in Guarded /\ fd[p] = fd[q]
    BY <1>1 DEF Alone, Enters
  <2>2. Taken(fd[p])
    BY <2>1 DEF Taken, StoreInv, PlacesOK
  <2> QED
    BY <1>1, <2>1, <2>2 DEF Enters, StoreInv, ExclusionOK
<1>2. ASSUME NEW q \in Procs, q # p, pc'[p] \in JarGuarded, pc'[q] \in JarGuarded,
   fd'[p] = fd'[q]
      PROVE  FALSE
  <2>1. pc[q] \in JarGuarded /\ fd[p] = fd[q]
    BY <1>2 DEF Alone, Enters
  <2>2. JarTaken(fd[p])
    <3>1. pc[q] \in JarPlaces
      BY <2>1 DEF JarGuarded, JarPlaces
    <3> QED
      BY <2>1, <3>1 DEF JarTaken, StoreInv, PlacesOK
  <2> QED
    BY <1>2, <2>1, <2>2 DEF Enters, StoreInv, ExclusionOK
<1>3. ASSUME NEW q \in Procs, NEW r \in Procs, q # r, fd'[q] = fd'[r],
             \/ pc'[q] \in Guarded /\ pc'[r] \in Guarded
             \/ pc'[q] \in JarGuarded /\ pc'[r] \in JarGuarded
      PROVE  FALSE
  <2>1. CASE q = p \/ r = p
    BY <1>1, <1>2, <1>3, <2>1
  <2>2. CASE q # p /\ r # p
    BY <1>3, <2>2 DEF Alone, StoreInv, ExclusionOK
  <2> QED
    BY <2>1, <2>2
<1> QED
  BY <1>3 DEF ExclusionOK

\* What others did under a lock stays, as nobody else is past it.
LEMMA DoneStep ==
  ASSUME StoreInv, NEW p \in Procs, Alone(p), Opens(p), Writes(p), DiskTyped'
  PROVE  DoneOK'
<1>1. ASSUME "lock" \notin torn', NEW q \in Procs, pc'[q] \in {"pidded", "running"}
      PROVE  pidfile' = q
  <2>1. "lock" \notin torn
    BY <1>1 DEF Opens
  <2>2. CASE q # p
    <3>1. pc[q] \in {"pidded", "running"} /\ pidfile = q
      BY <1>1, <2>1, <2>2 DEF Alone, StoreInv, DoneOK
    <3>2. pc[p] \notin Guarded
      <4>1. pc[q] \in Guarded /\ Guarded \subseteq Opened
        BY <3>1 DEF Guarded, HostGuarded, Opened
      <4>2. fd[q] = lockfile /\ (pc[p] \in Guarded => fd[p] = lockfile)
        BY <2>1, <4>1 DEF StoreInv, NamesOK
      <4> QED
        BY <2>2, <4>1, <4>2 DEF StoreInv, ExclusionOK
    <3> QED
      BY <3>1, <3>2 DEF Writes
  <2>3. CASE q = p
    <3>1. CASE pidfile' = p
      BY <2>3, <3>1
    <3>2. CASE pc[p] \in {"pidded", "running"} /\ pidfile' = pidfile
      BY <2>1, <2>3, <3>2 DEF StoreInv, DoneOK
    <3>3. CASE pc[p] = "locked" /\ ~dir'
      <4>1. fd[p] = lockfile /\ lockfile # Nobody
        BY <2>1, <3>3 DEF Opened, Guarded, HostGuarded, StoreInv, NamesOK
      <4>2. lockfile' # Nobody
        BY <1>1, <4>1 DEF Opens
      <4> QED
        BY <3>3, <4>2 DEF DiskTyped, Nobody
    <3> QED
      BY <1>1, <2>3, <3>1, <3>2, <3>3 DEF Writes
  <2> QED
    BY <2>2, <2>3
<1>2. ASSUME torn' \cap {"jar", "jarlock"} = {}, NEW q \in Procs, pc'[q] = "writing"
      PROVE  seen'[q] = stored'
  <2>1. torn \cap {"jar", "jarlock"} = {} /\ "jarlock" \notin torn /\ "jar" \notin torn'
    BY <1>2 DEF Opens
  <2>2. CASE q # p
    <3>1. pc[q] = "writing" /\ seen'[q] = stored
      BY <1>2, <2>1, <2>2 DEF Alone, StoreInv, DoneOK
    <3>2. pc[p] \notin JarGuarded
      <4>1. pc[q] \in JarGuarded /\ JarGuarded \subseteq JarOpened
        BY <3>1 DEF JarGuarded, JarOpened
      <4>2. fd[q] = jarlock /\ (pc[p] \in JarGuarded => fd[p] = jarlock)
        BY <2>1, <4>1 DEF StoreInv, NamesOK
      <4> QED
        BY <2>2, <4>1, <4>2 DEF StoreInv, ExclusionOK
    <3> QED
      BY <2>1, <3>1, <3>2 DEF Writes
  <2>3. CASE q = p
    BY <1>2, <2>3 DEF Writes
  <2> QED
    BY <2>2, <2>3
<1> QED
  BY <1>1, <1>2 DEF DoneOK

\* Nobody has started, nothing is torn.
LEMMA StoreInvInit == Init => StoreInv
<1> SUFFICES ASSUME Init
             PROVE  StoreInv
  OBVIOUS
<1>1. DiskTyped
  BY DEF Init, DiskTyped, Files, NoJar, Nobody, Contents
<1>2. ProcsTyped
  <2>1. deaths \in 0 .. MaxDeaths
    BY DeathsAssumption DEF Init
  <2>2. NoJar \in [Cookies -> Procs \cup {Nobody}]
    BY DEF NoJar
  <2> QED
    BY <2>1, <2>2 DEF Init, ProcsTyped
<1>3. PlacesOK
  BY DEF Init, PlacesOK, Places, HostPlaces, ToolPlaces, JarPlaces, Guarded, HostGuarded,
         ToolGuarded, JarGuarded
<1>4. NamesOK /\ ExclusionOK /\ DoneOK
  BY DEF Init, NamesOK, ExclusionOK, DoneOK, Opened, JarOpened, Guarded, HostGuarded,
         ToolGuarded, JarGuarded
<1> QED
  BY <1>1, <1>2, <1>3, <1>4 DEF StoreInv, StoreTypeOK, DiskTyped, ProcsTyped

\* Every step keeps it.
LEMMA StoreInvStep == StoreInv /\ [Next]_vars => StoreInv'
<1> SUFFICES ASSUME StoreInv, [Next]_vars
             PROVE  StoreInv'
  OBVIOUS
<1>1. CASE UNCHANGED vars
  BY <1>1 DEF vars, StoreInv, StoreTypeOK, PlacesOK, NamesOK, ExclusionOK, DoneOK
<1>2. ASSUME NEW p \in Procs, Move(p)
      PROVE  StoreInv'
  <2>1. Typed /\ DiskTyped /\ ProcsTyped /\ PlacedNow(p)
    BY Parts
  <2>2. Alone(p) /\ Placed(p) /\ Opens(p) /\ Enters(p) /\ Writes(p)
    BY <1>2, <2>1, AloneStep, PlacedStep, OpensStep, EntersStep, WritesStep
  <2>3. DiskTyped' /\ ProcsTyped'
    BY <1>2, <2>1, DiskTypedStep, ProcsTypedStep
  <2>4. StoreTypeOK'
    BY <2>3 DEF StoreTypeOK, DiskTyped, ProcsTyped
  <2>5. PlacesOK' /\ NamesOK' /\ ExclusionOK' /\ DoneOK'
    BY <2>2, <2>3, PlacesStep, NamesStep, ExclusionStep, DoneStep
  <2> QED
    BY <2>4, <2>5 DEF StoreInv
<1> QED
  BY <1>1, <1>2, NextMoves, AgesStep

\* Every state the directory and its processes can be in is of this kind.
THEOREM StoreInvariant == Spec => []StoreInv
<1> QED
  BY StoreInvInit, StoreInvStep, PTL DEF Spec

\* Unless a removal unlinked the lock file, two hosts never run on one profile,
\* and the pid file names the one that does.
THEOREM HasOneOwner == Spec => []ProfileHasOneOwner
<1>1. StoreInv => ProfileHasOneOwner
  <2> SUFFICES ASSUME StoreInv
               PROVE  ProfileHasOneOwner
    OBVIOUS
  <2>1. \A p \in Owners : p \in Procs /\ pc[p] = "running" /\ pc[p] \in Guarded
    BY DEF Owners, Guarded, HostGuarded
  <2>2. ASSUME "lock" \notin torn, NEW p \in Owners
        PROVE  pidfile = p /\ fd[p] = lockfile
    BY <2>1, <2>2 DEF StoreInv, DoneOK, NamesOK, Opened
  <2>3. OneHostUnlessRemoved
    BY <2>2 DEF OneHostUnlessRemoved, OneHostPerProfile
  <2>4. OwnersPidIsItsOwn
    BY <2>2 DEF OwnersPidIsItsOwn
  <2> QED
    BY <2>3, <2>4 DEF ProfileHasOneOwner, StoreInv
<1> QED
  BY <1>1, StoreInvariant, PTL


\* Taking metadata, browser data or the jar needs the lock, which a running
\* host holds: a removal that was let past it removes nothing under a host.
THEOREM RemovalsAreAlone == Spec => NothingGoesUnderAHost
<1>1. ASSUME StoreInv, [Next]_vars, NEW e \in entries \ entries', e \in {"meta", "data",
   "jar"},
             "lock" \notin torn
      PROVE  Owners = {}
  <2>1. e # "pid" /\ entries # entries'
    BY <1>1
  <2>2. PICK p \in Procs : Move(p)
    BY <1>1, <2>1, NextMoves DEF vars, Ages
  <2>3. pc[p] = "emptying"
    BY <1>1, <2>1, <2>2, Parts, TakesStep DEF Takes
  <2>4. pc[p] \in Guarded
    BY <2>3 DEF Guarded, ToolGuarded
  <2>5. ASSUME NEW q \in Owners
        PROVE  FALSE
    <3>1. q \in Procs /\ pc[q] = "running" /\ pc[q] \in Guarded
      BY DEF Owners, Guarded, HostGuarded
    <3>2. fd[p] = lockfile /\ fd[q] = lockfile
      BY <1>1, <2>4, <3>1 DEF StoreInv, NamesOK, Opened
    <3>3. p = q
      BY <1>1, <2>4, <3>1, <3>2 DEF StoreInv, ExclusionOK
    <3> QED
      BY <2>3, <3>1, <3>3
  <2> QED
    BY <2>5
<1>2. StoreInv /\ [Next]_vars =>
        [\A e \in entries \ entries' : e \in {"meta", "data", "jar"} /\ "lock" \notin torn
            => Owners = {}]_vars
  BY <1>1
<1> QED
  BY <1>2, StoreInvariant, PTL DEF NothingGoesUnderAHost, Spec

\* A fetch merges into the jar it read under the jar's lock, and that is the jar
\* it replaces: the cookies it did not update are as the last writer left them.
THEOREM WritesAreMerges == Spec => WritesTouchTheirOwnCookies
<1>1. ASSUME StoreInv, NEW p \in Procs, JarWrites(p), torn \cap {"jar", "jarlock"} = {},
             NEW c \in Cookies, stored'[c] # stored[c]
      PROVE  update[p][c] # "kept"
  <2>1. seen[p] = stored
    BY <1>1 DEF StoreInv, DoneOK, JarWrites, At
  <2>2. stored' = Merged(p)
    BY <1>1 DEF JarWrites
  <2> QED
    BY <1>1, <2>1, <2>2 DEF Merged
<1>2. StoreInv => [\A p \in Procs : JarWrites(p) /\ torn \cap {"jar", "jarlock"} = {}
        => \A c \in Cookies : stored'[c] # stored[c] => update[p][c] # "kept"]_vars
  BY <1>1
<1> QED
  BY <1>2, StoreInvariant, PTL DEF WritesTouchTheirOwnCookies

\* Removals and writes together: no process of a profile pulls away what another
\* one relies on.
THEOREM NothingPulledAway == Spec => NothingIsPulledAway
  BY RemovalsAreAlone, WritesAreMerges DEF NothingIsPulledAway

-------------------------------------------------------------------------------
(* The fetch over HTTP: the inductive invariant.                           *)

Early == {"resolve", "prepare"}
Hops == {"send", "answer", "load", "store", "route"}
OnPage == {"page", "sync", "over"}
OverHttp == Hops \cup {"client", "body"}

\* What was settled before the first request.
SettledOK ==
  /\ caller.url \in Urls /\ caller.render \in {"none", "auto", "always"}
  /\ \A c \in caller.cookies : Own(c)
  /\ httpPc \in OverHttp => ~refusedUnsent /\ caller.render # "always"
  /\ httpPc \in Early => ~sent
  /\ ended # None => httpPc = "over"

\* What is stored, and what a response wants stored.
EntriesOK ==
  /\ \A e \in jar \cup snapshot \cup browser \cup got : Lawful(e)
  /\ resp \in [status : {0, 200, 404} \cup Redirects, to : Locations,
              sets : Offers \cup {NoOffer}]
  /\ \A e \in browser \cup got : e \in injected \/ e.val = "page"
  /\ httpPc \notin OnPage => browser \cup got = {}

\* What is left of the caller's.
LeftOvers(o) ==
  IF o.method = caller.method
  THEN o.body = caller.body \/ (o.method = "GET" /\ o.body = "none")
  ELSE o.method = "GET" /\ o.body = "none" /\ o.headers \cap AboutTheBody = {}
\* What the redirects so far have taken from it.
OptsOK ==
  /\ opts = [headers |-> opts.headers, cookies |-> opts.cookies, method |-> opts.method,
             body |-> opts.body]
  /\ \A c \in opts.cookies : Own(c)
  /\ httpPc \in Early => ~left /\ url = caller.url
  /\ httpPc \in Hops \cup {"client"} =>
       /\ ~left => Origin(url) = Origin(caller.url)
       /\ left => opts.headers \cap OriginScoped = {} /\ opts.cookies = {}
       /\ LeftOvers(opts)

\* What is kept of a body so far.
BodyOK ==
  /\ body \in [due : Nat, stored : Nat, cap : Nat, cut : BOOLEAN]
  /\ body.stored <= body.due
  /\ IF body.cut THEN body.cap # 0 /\ body.due > body.cap /\ body.stored = body.cap
     ELSE body.cap # 0 => body.stored <= body.cap

\* Where a fetch and its jar are.
Ranges ==
  /\ httpPc \in failsAt \cup {"resolve", "prepare", "route", "browser", "page", "sync", "over"}
  /\ url \in Urls /\ hop \in 0 .. MaxHops /\ others \in 0 .. MaxOthers
  /\ ended \in {None, "invalid", "refused", "http", "failed", "browser"}

HttpInv ==
  /\ Ranges /\ SettledOK /\ EntriesOK /\ OptsOK /\ BodyOK
  /\ RedirectsKeepSecrets /\ TruncatedMeansMoreCame /\ EvaluateIsRunOrRefused
  /\ JarIsTheOneTheHostNamed
-------------------------------------------------------------------------------
(* The steps.                                                                  *)

\* Nothing happens after the end, and only some steps end a fetch over HTTP.
LEMMA Endings ==
  ASSUME SettledOK, HttpNext
  PROVE  /\ httpPc # "over" /\ ended = None
         /\ ended' = "http" => Judges
         /\ ended' = "refused" => Judges \/ Prepares
<1>1. httpPc # "over"
  BY DEF HttpNext, Fetches, ResolvesJar, Prepares, BuildsClient, SendsHop, Answers, LoadsJar,
         StoresCookies, Follows, Arrives, ReadsChunk, Judges, HttpFails, failsAt, failsRouting,
         StartsHost, Injects, AsksBrowser, Syncs, BrowserFails, PageSets, OtherFetch
<1>2. ended = None
  BY <1>1 DEF SettledOK
<1>3. ended' \in {"http", "refused"} => Judges \/ Prepares
  BY <1>2
     DEF None, Goes, Ends, HttpNext, Fetches, ResolvesJar, BuildsClient, SendsHop, Answers,
         LoadsJar, StoresCookies, Follows, Arrives, ReadsChunk, HttpFails,
         StartsHost, Injects, AsksBrowser, Syncs, BrowserFails, PageSets, OtherFetch
<1>4. Prepares => ended' # "http"
  BY <1>2 DEF Prepares, Goes, Ends, None
<1> QED
  BY <1>1, <1>2, <1>3, <1>4

\* The caller's settings are settled, and only two steps find out about the jar.
LEMMA Findings ==
  ASSUME HttpNext
  PROVE  caller' = caller /\ (ResolvesJar \/ StartsHost \/ UNCHANGED <<knew, jarPath>>)
BY
   DEF fixed, HttpNext, Fetches, ResolvesJar, Prepares, BuildsClient, SendsHop, Answers,
       LoadsJar,
       StoresCookies, Follows, Arrives, ReadsChunk, Judges, HttpFails, StartsHost, Injects,
       AsksBrowser, Syncs, BrowserFails, PageSets, OtherFetch

\* A request is on the wire from one step to its answer or its failure.
LEMMA WireMoves ==
  ASSUME HttpNext
  PROVE  \/ SendsHop /\ httpPc' = "answer"
         \/ wire' = wire /\ (httpPc' = "answer" => httpPc = "answer" /\ left' = left)
         \/ wire' = NoWire /\ httpPc' # "answer"
BY
   DEF request, Goes, Ends, HttpNext, Fetches, ResolvesJar, Prepares, BuildsClient, SendsHop,
       Answers,
       LoadsJar, StoresCookies, Follows, Arrives, ReadsChunk, Judges, HttpFails, StartsHost, Injects,
       AsksBrowser, Syncs, BrowserFails, PageSets, OtherFetch

\* What a host may set is lawful wherever it is stored.
LEMMA LawfulOffer ==
  ASSUME NEW o, o.domain \in Hosts \cup {None}, NEW u \in Urls, NEW val,
         MaySetDomain(o.domain, u.host)
  PROVE  Lawful(OfOffer(o, u, val))
<1>1. u.host \in Hosts
  BY UrlsAssumption
<1>2. CASE o.domain = None
  BY <1>1, <1>2 DEF Lawful, OfOffer, Entry
<1>3. CASE o.domain # None
  BY <1>1, <1>3 DEF Lawful, OfOffer, Entry, MaySetDomain, DomainMatches
<1> QED
  BY <1>2, <1>3

\* What was settled stays so.
LEMMA SettledStep ==
  ASSUME SettledOK, HttpNext
  PROVE  SettledOK'
<1> USE DEF SettledOK, fixed, jars, request, pageside, Goes, Ends, Early, Hops, OverHttp,
            refusedUnsent, resendable
<1>1. CASE ResolvesJar
  BY <1>1 DEF ResolvesJar
<1>2. CASE Prepares
  BY <1>2 DEF Prepares, AsAsked
<1>3. CASE BuildsClient
  BY <1>3 DEF BuildsClient
<1>4. CASE SendsHop
  BY <1>4 DEF SendsHop
<1>5. CASE Answers
  BY <1>5 DEF Answers
<1>6. CASE LoadsJar
  BY <1>6 DEF LoadsJar
<1>7. CASE StoresCookies
  BY <1>7 DEF StoresCookies
<1>8. CASE Follows
  BY <1>8 DEF Follows
<1>9. CASE Arrives
  BY <1>9 DEF Arrives, ForgetsHops, AsAsked
<1>10. CASE ReadsChunk
  BY <1>10 DEF ReadsChunk
<1>11. CASE Judges
  BY <1>11 DEF Judges
<1>12. CASE HttpFails
  <2>1. httpPc' \in {"browser", "over"} /\ (ended' # None => httpPc' = "over")
    BY <1>12 DEF HttpFails, failsAt, failsRouting
  <2> QED
    BY <1>12, <2>1 DEF HttpFails
<1>13. CASE StartsHost
  BY <1>13 DEF StartsHost
<1>14. CASE Injects
  BY <1>14 DEF Injects
<1>15. CASE AsksBrowser
  BY <1>15 DEF AsksBrowser
<1>16. CASE Syncs
  BY <1>16 DEF Syncs
<1>17. CASE BrowserFails
  BY <1>17 DEF BrowserFails
<1>18. CASE PageSets
  BY <1>18 DEF PageSets
<1>19. CASE OtherFetch
  BY <1>19 DEF OtherFetch
<1> HIDE DEF SettledOK, fixed, jars, request, pageside, Goes, Ends, Early, Hops, OverHttp,
             refusedUnsent, resendable
<1> QED
  BY <1>1, <1>2, <1>3, <1>4, <1>5, <1>6, <1>7, <1>8, <1>9, <1>10, <1>11, <1>12, <1>13, <1>14,
     <1>15, <1>16, <1>17, <1>18, <1>19
     DEF HttpNext, Fetches

\* What is kept of a body is what came, up to its cap.
LEMMA BodyStep ==
  ASSUME BodyOK, HttpNext
  PROVE  BodyOK'
<1> USE DEF BodyOK, fixed, jars, request, pageside, Goes, Ends
<1>1. CASE ResolvesJar
  BY <1>1 DEF ResolvesJar
<1>2. CASE Prepares
  BY <1>2 DEF Prepares, AsAsked
<1>3. CASE BuildsClient
  BY <1>3 DEF BuildsClient
<1>4. CASE SendsHop
  BY <1>4 DEF SendsHop
<1>5. CASE Answers
  BY <1>5 DEF Answers
<1>6. CASE LoadsJar
  BY <1>6 DEF LoadsJar
<1>7. CASE StoresCookies
  BY <1>7 DEF StoresCookies
<1>8. CASE Follows
  BY <1>8 DEF Follows
<1>9. CASE Arrives
  <2>1. PICK due \in 0 .. MaxBody, cap \in 0 .. MaxBody : body' = [NoBody EXCEPT !.due = due,
     !.cap = cap]
    BY <1>9 DEF Arrives
  <2>2. due \in Nat /\ cap \in Nat /\ body' = [due |-> due, stored |-> 0, cap |-> cap,
     cut |-> FALSE]
    <3>1. due \in Nat /\ cap \in Nat
      BY HopsAssumption
    <3> QED
      BY <2>1, <3>1 DEF NoBody
  <2> QED
    BY <2>2
<1>10. CASE ReadsChunk
  <2>1. ~body.cut
    BY <1>10 DEF ReadsChunk
  <2>2. PICK n \in 1 .. body.due - body.stored :
          body' = IF PastCap(n) THEN [body EXCEPT !.stored = body.cap, !.cut = TRUE]
                  ELSE [body EXCEPT !.stored = @ + n]
    BY <1>10 DEF ReadsChunk
  <2>3. n \in Nat /\ body.stored + n <= body.due
    BY <2>2
  <2>4. CASE PastCap(n)
    <3>1. body' = [due |-> body.due, stored |-> body.cap, cap |-> body.cap, cut |-> TRUE]
      BY <2>2, <2>4
    <3> QED
      BY <2>3, <2>4, <3>1 DEF PastCap
  <2>5. CASE ~PastCap(n)
    <3>1. body' = [due |-> body.due, stored |-> body.stored + n, cap |-> body.cap,
       cut |-> FALSE]
      BY <2>1, <2>2, <2>5
    <3> QED
      BY <2>1, <2>3, <2>5, <3>1 DEF PastCap
  <2> QED
    BY <2>4, <2>5
<1>11. CASE Judges
  <2>1. body' = body \/ body' = NoBody
    BY <1>11 DEF Judges
  <2>2. CASE body' = body
    BY <2>2
  <2>3. CASE body' = NoBody
    BY <2>3 DEF NoBody
  <2> QED
    BY <2>1, <2>2, <2>3
<1>12. CASE HttpFails
  <2>1. body' = NoBody
    BY <1>12 DEF HttpFails
  <2> QED
    BY <2>1 DEF NoBody
<1>13. CASE StartsHost
  BY <1>13 DEF StartsHost
<1>14. CASE Injects
  BY <1>14 DEF Injects
<1>15. CASE AsksBrowser
  BY <1>15 DEF AsksBrowser
<1>16. CASE Syncs
  BY <1>16 DEF Syncs
<1>17. CASE BrowserFails
  BY <1>17 DEF BrowserFails
<1>18. CASE PageSets
  BY <1>18 DEF PageSets
<1>19. CASE OtherFetch
  BY <1>19 DEF OtherFetch
<1> HIDE DEF BodyOK, fixed, jars, request, pageside, Goes, Ends
<1> QED
  BY <1>1, <1>2, <1>3, <1>4, <1>5, <1>6, <1>7, <1>8, <1>9, <1>10, <1>11, <1>12, <1>13, <1>14,
     <1>15, <1>16, <1>17, <1>18, <1>19
     DEF HttpNext, Fetches


\* What the caller asked for is the caller's.
LEMMA AsAskedOwn ==
  ASSUME SettledOK
  PROVE  /\ AsAsked = [headers |-> AsAsked.headers, cookies |-> AsAsked.cookies,
                       method |-> AsAsked.method, body |-> AsAsked.body]
         /\ \A c \in AsAsked.cookies : Own(c)
         /\ LeftOvers(AsAsked)
<1>1. ASSUME NEW c \in AsAsked.cookies
      PROVE  Own(c)
  <2>1. c = rawCookie \/ c \in caller.cookies
    BY DEF AsAsked
  <2>2. Own(rawCookie)
    BY DEF Own, rawCookie, Entry
  <2> QED
    BY <2>1, <2>2 DEF SettledOK
<1>2. LeftOvers(AsAsked)
  BY DEF AsAsked, LeftOvers
<1> QED
  BY <1>1, <1>2 DEF AsAsked


\* Where the caller's options change.
LEMMA OptsMoves ==
  ASSUME HttpNext
  PROVE  \/ Follows \/ Prepares
         \/ /\ UNCHANGED <<opts, left, url>>
            /\ httpPc' \in Hops \cup {"client"} => httpPc \in Hops \cup {"client"}
            /\ httpPc' \in Early => httpPc \in Early
         \/ httpPc' \notin Hops \cup Early \cup {"client"} /\ (opts' = opts \/ opts' = AsAsked)
BY
   DEF request, Goes, Ends, Hops, Early, failsAt, failsRouting, HttpNext, Fetches,
       ResolvesJar, BuildsClient,
       SendsHop, Answers, LoadsJar, StoresCookies, Arrives, ReadsChunk, Judges, HttpFails, StartsHost,
       Injects, AsksBrowser, Syncs, BrowserFails, PageSets, OtherFetch, ForgetsHops

Fields(o) == o = [headers |-> o.headers, cookies |-> o.cookies, method |-> o.method, body |-> o.body]

\* A hop to another origin leaves nothing that was for this one only.
LEMMA StrippedFacts ==
  ASSUME NEW o, Fields(o), NEW next
  PROVE  LET s == stripped(o, next)
         IN /\ Fields(s) /\ s.method = o.method /\ s.body = o.body
            /\ s.headers \subseteq o.headers /\ s.cookies \subseteq o.cookies
            /\ ~SameOrigin(url, next) => s.headers \cap OriginScoped = {} /\ s.cookies = {}
<1>1. CASE SameOrigin(url, next)
  BY <1>1 DEF stripped
<1>2. CASE ~SameOrigin(url, next)
  <2>1. stripped(o, next) = [headers |-> o.headers \ OriginScoped, cookies |-> {},
                             method |-> o.method, body |-> o.body]
    BY <1>2 DEF stripped, Fields
  <2> QED
    BY <1>2, <2>1 DEF Fields
<1> QED
  BY <1>1, <1>2

\* A request turned into a GET has no body, and nothing of one among its headers.
LEMMA TurnsFacts ==
  ASSUME NEW o, Fields(o), LeftOvers(o)
  PROVE  LET s == turnsToGet(o)
         IN /\ Fields(s) /\ LeftOvers(s)
            /\ s.headers \subseteq o.headers /\ s.cookies = o.cookies
<1> DEFINE turns == (resp.status = 302 /\ o.method = "POST") \/ (resp.status = 303 /\ o.method # "HEAD")
<1>1. CASE ~turns
  BY <1>1 DEF turnsToGet
<1>2. CASE turns
  <2>1. turnsToGet(o) = [headers |-> o.headers \ AboutTheBody, cookies |-> o.cookies,
                         method |-> "GET", body |-> "none"]
    BY <1>2 DEF turnsToGet, Fields
  <2> QED
    BY <2>1 DEF Fields, LeftOvers
<1> QED
  BY <1>1, <1>2

\* A redirect keeps what may go on and drops the rest for good.
LEMMA OptsStep ==
  ASSUME SettledOK, OptsOK, HttpNext
  PROVE  OptsOK'
<1>0. caller' = caller
  BY Findings
<1>1. CASE Follows
  <2> DEFINE first == stripped(opts, resp.to)
             next  == turnsToGet(first)
  <2>0. httpPc' \notin Early
    BY <1>1 DEF Follows, Goes, Early
  <2>1. /\ opts' = next /\ url' = resp.to /\ httpPc \in Hops
        /\ left' = (left \/ Origin(resp.to) # Origin(caller.url))
    BY <1>1 DEF Follows, Hops
  <2>2. /\ Fields(first) /\ LeftOvers(first)
        /\ first.headers \subseteq opts.headers /\ first.cookies \subseteq opts.cookies
        /\ ~SameOrigin(url, resp.to) => first.headers \cap OriginScoped = {} /\ first.cookies = {}
    BY <2>1, StrippedFacts DEF OptsOK, Fields, LeftOvers
  <2>3. /\ Fields(next) /\ LeftOvers(next)
        /\ next.headers \subseteq first.headers /\ next.cookies = first.cookies
    BY <2>2, TurnsFacts
  <2>4. \A c \in next.cookies : Own(c)
    BY <2>2, <2>3 DEF OptsOK
  <2>5. left' => next.headers \cap OriginScoped = {} /\ next.cookies = {}
    <3>1. CASE left
      BY <2>1, <2>2, <2>3, <3>1 DEF OptsOK
    <3>2. CASE ~left /\ left'
      <4>1. ~SameOrigin(url, resp.to)
        BY <2>1, <3>2 DEF OptsOK, SameOrigin
      <4> QED
        BY <2>2, <2>3, <4>1
    <3> QED
      BY <3>1, <3>2
  <2>6. ~left' => Origin(url') = Origin(caller.url)
    BY <2>1
  <2> HIDE DEF next, first
  <2>7. Fields(opts)' /\ LeftOvers(opts)'
    BY <1>0, <2>1, <2>3 DEF Fields, LeftOvers
  <2> QED
    BY <1>0, <2>0, <2>1, <2>4, <2>5, <2>6, <2>7 DEF OptsOK, Fields, Own, Origin
<1>2. CASE Prepares
  <2>1. UNCHANGED <<url, left>> /\ (opts' = opts \/ opts' = AsAsked)
    BY <1>2 DEF Prepares, request
  <2>2. httpPc = "prepare" /\ httpPc' \notin Hops \cup Early
    BY <1>2 DEF Prepares, Hops, Early, Goes, Ends
  <2>3. httpPc' = "client" => opts' = AsAsked
    BY <1>2 DEF Prepares, Goes, Ends
  <2>4. ~left' /\ url' = caller'.url
    BY <1>0, <2>1, <2>2 DEF OptsOK, Early
  <2>5. (\A c \in opts'.cookies : Own(c)) /\ Fields(opts)'
    BY <2>1, AsAskedOwn DEF OptsOK, Fields
  <2>6. opts' = AsAsked => LeftOvers(opts)'
    BY <1>0, AsAskedOwn DEF LeftOvers
  <2> QED
    BY <2>2, <2>3, <2>4, <2>5, <2>6 DEF OptsOK, Fields, Own, Origin
<1>3. CASE /\ UNCHANGED <<opts, left, url>>
           /\ httpPc' \in Hops \cup {"client"} => httpPc \in Hops \cup {"client"}
           /\ httpPc' \in Early => httpPc \in Early
  <2>1. Fields(opts)' /\ \A c \in opts'.cookies : Own(c)
    BY <1>3 DEF OptsOK, Fields
  <2>2. LeftOvers(opts)' <=> LeftOvers(opts)
    BY <1>0, <1>3 DEF LeftOvers
  <2> QED
    BY <1>0, <1>3, <2>1, <2>2 DEF OptsOK, Fields, Own, Origin
<1>4. CASE httpPc' \notin Hops \cup Early \cup {"client"} /\ (opts' = opts \/ opts' = AsAsked)
  <2>1. \A c \in opts'.cookies : Own(c)
    BY <1>4, AsAskedOwn DEF OptsOK
  <2>2. Fields(opts)'
    BY <1>4, AsAskedOwn DEF OptsOK, Fields
  <2> QED
    BY <1>4, <2>1, <2>2 DEF OptsOK, Fields, Own
<1> QED
  BY <1>1, <1>2, <1>3, <1>4, OptsMoves


\* Where the cookies are, and what answered.
EntriesMoves ==
  \/ Answers \/ StoresCookies \/ Injects \/ PageSets \/ AsksBrowser \/ Syncs \/ OtherFetch
  \/ /\ UNCHANGED <<jar, browser, got, injected>> /\ snapshot' \in {snapshot, jar, {}}
     /\ \/ resp' = resp \/ resp' = NoAnswer
        \/ resp' = [resp EXCEPT !.status = 0, !.to = NoUrl]
     /\ httpPc' \notin OnPage => httpPc \notin OnPage

\* Every step is one of them.
LEMMA EntriesMove ==
  ASSUME SettledOK, HttpNext
  PROVE  EntriesMoves
<1> USE DEF EntriesMoves, OnPage, failsAt, failsRouting, fixed, jars, request, pageside,
            Goes, Ends
<1>1. CASE ResolvesJar
  BY <1>1 DEF ResolvesJar
<1>2. CASE Prepares
  BY <1>2 DEF Prepares, AsAsked
<1>3. CASE BuildsClient
  BY <1>3 DEF BuildsClient
<1>4. CASE SendsHop
  BY <1>4 DEF SendsHop
<1>5. CASE Answers
  BY <1>5 DEF Answers
<1>6. CASE LoadsJar
  BY <1>6 DEF LoadsJar
<1>7. CASE StoresCookies
  BY <1>7 DEF StoresCookies
<1>8. CASE Follows
  BY <1>8 DEF Follows
<1>9. CASE Arrives
  BY <1>9 DEF Arrives, ForgetsHops, AsAsked
<1>10. CASE ReadsChunk
  BY <1>10 DEF ReadsChunk
<1>11. CASE Judges
  BY <1>11 DEF Judges
<1>12. CASE HttpFails
  BY <1>12 DEF HttpFails, ForgetsHops, AsAsked, failsAt
<1>13. CASE StartsHost
  BY <1>13 DEF StartsHost
<1>14. CASE Injects
  BY <1>14 DEF Injects
<1>15. CASE AsksBrowser
  BY <1>15 DEF AsksBrowser
<1>16. CASE Syncs
  BY <1>16 DEF Syncs
<1>17. CASE BrowserFails
  BY <1>17 DEF BrowserFails
<1>18. CASE PageSets
  BY <1>18 DEF PageSets
<1>19. CASE OtherFetch
  BY <1>19 DEF OtherFetch
<1> HIDE DEF EntriesMoves, OnPage, failsAt, failsRouting, fixed, jars, request, pageside,
             Goes, Ends
<1> QED
  BY <1>1, <1>2, <1>3, <1>4, <1>5, <1>6, <1>7, <1>8, <1>9, <1>10, <1>11, <1>12, <1>13, <1>14,
     <1>15, <1>16, <1>17, <1>18, <1>19
     DEF HttpNext, Fetches



\* What a jar and a browser hold stays lawful, and what the browser holds was
\* injected or set by the page.
LEMMA EntriesStep ==
  ASSUME Ranges, SettledOK, EntriesOK, HttpNext
  PROVE  EntriesOK'
<1> DEFINE Answer == [status : {0, 200, 404} \cup Redirects, to : Locations,
                      sets : Offers \cup {NoOffer}]
<1>1. resp \in Answer /\ NoUrl \in Locations
  BY DEF EntriesOK, Locations
<1>2. url \in Urls
  BY DEF Ranges
<1>3. \A o \in Offers \cup {NoOffer} : o.domain \in Hosts \cup {None}
  BY OffersAssumption DEF NoOffer
<1>4. CASE Answers
  <2>1. resp' \in Answer
    <3>1. PICK status \in {200, 404} \cup Redirects, sets \in Offers \cup {NoOffer} :
            \E to \in IF status \in Redirects THEN Locations ELSE {NoUrl} :
              resp' = [status |-> status, to |-> to, sets |-> sets]
      BY <1>4 DEF Answers
    <3>2. PICK to \in Locations : resp' = [status |-> status, to |-> to, sets |-> sets]
      BY <1>1, <3>1
    <3> QED
      BY <3>2
  <2>2. UNCHANGED <<jar, snapshot, browser, got, injected>>
    BY <1>4 DEF Answers, jars, pageside
  <2>3. httpPc \notin OnPage
    BY <1>4 DEF Answers, OnPage
  <2> QED
    BY <2>1, <2>2, <2>3 DEF EntriesOK
<1>5. CASE StoresCookies
  <2> DEFINE e == OfOffer(resp.sets, url, "mine")
  <2>1. resp' = [status |-> resp.status, to |-> resp.to, sets |-> NoOffer]
    BY <1>1, <1>5 DEF StoresCookies
  <2>2. UNCHANGED <<browser, got, injected>> /\ snapshot' = {}
    BY <1>5 DEF StoresCookies, pageside
  <2>3. jar' \subseteq jar \/ (jar' \subseteq jar \cup {e} /\ Accepts(snapshot, resp.sets,
     url))
    BY <1>5 DEF StoresCookies, Put
  <2>4. Accepts(snapshot, resp.sets, url) => Lawful(e)
    BY <1>1, <1>2, <1>3, LawfulOffer DEF Accepts
  <2>5. \A x \in jar' : Lawful(x)
    BY <2>3, <2>4 DEF EntriesOK
  <2>6. resp' \in Answer
    BY <1>1, <2>1
  <2>7. httpPc \notin OnPage
    BY <1>5 DEF StoresCookies, OnPage
  <2> QED
    BY <2>2, <2>5, <2>6, <2>7 DEF EntriesOK, Lawful
<1>6. CASE Injects
  <2>1. UNCHANGED <<jar, snapshot, resp, got>> /\ httpPc \notin OnPage
    BY <1>6 DEF Injects, jars, OnPage
  <2>2. browser' \subseteq jar \/ UNCHANGED <<injected, browser>>
    BY <1>6 DEF Injects, applicable_cookies
  <2>3. browser' \subseteq injected' \/ UNCHANGED <<injected, browser>>
    BY <1>6 DEF Injects, applicable_cookies
  <2>4. browser \cup got = {}
    BY <2>1 DEF EntriesOK
  <2>5. \A e \in browser' \cup got' : e \in injected' \/ e.val = "page"
    BY <2>1, <2>3, <2>4
  <2>6. \A e \in jar' \cup snapshot' \cup browser' \cup got' : Lawful(e)
    BY <2>1, <2>2 DEF EntriesOK
  <2>7. httpPc' \notin OnPage => browser' = {}
    BY <1>6, <2>4 DEF Injects, OnPage, Goes, Ends
  <2> QED
    BY <2>1, <2>4, <2>5, <2>6, <2>7 DEF EntriesOK, Lawful
<1>7. CASE PageSets
  <2>1. PICK o \in Offers : /\ MaySetDomain(o.domain, url.host)
                            /\ browser' = Put(browser, OfOffer(o, url, "page"), FALSE)
    BY <1>7 DEF PageSets, Accepts
  <2>2. browser' \subseteq browser \cup {OfOffer(o, url, "page")}
    BY <2>1 DEF Put
  <2>3. Lawful(OfOffer(o, url, "page")) /\ OfOffer(o, url, "page").val = "page"
    BY <1>2, <1>3, <2>1, LawfulOffer DEF OfOffer, Entry
  <2>4. UNCHANGED <<jar, snapshot, got, injected, resp>> /\ httpPc' \in OnPage
    BY <1>7 DEF PageSets, jars, OnPage
  <2>5. \A e \in browser' : Lawful(e) /\ (e \in injected \/ e.val = "page")
    BY <2>2, <2>3 DEF EntriesOK
  <2> QED
    BY <2>4, <2>5 DEF EntriesOK, Lawful
<1>8. CASE AsksBrowser
  <2>1. got' \subseteq browser /\ httpPc' \in OnPage
    BY <1>8 DEF AsksBrowser, OnPage, Goes
  <2>2. UNCHANGED <<jar, snapshot, browser, injected, resp>>
    BY <1>8 DEF AsksBrowser, jars
  <2> QED
    BY <2>1, <2>2 DEF EntriesOK, Lawful
<1>9. CASE Syncs
  <2>1. jar' \subseteq jar \cup got /\ httpPc' \in OnPage
    BY <1>9 DEF Syncs, changedByPage, OnPage, Ends
  <2>2. UNCHANGED <<snapshot, browser, got, injected, resp>>
    BY <1>9 DEF Syncs, pageside
  <2> QED
    BY <2>1, <2>2 DEF EntriesOK, Lawful
<1>10. CASE OtherFetch
  <2>1. PICK o \in Offers, u \in Urls : Accepts(jar, o, u) /\ jar' = Put(jar, OfOffer(o, u,
     "other"), o.gone)
    BY <1>10 DEF OtherFetch
  <2>2. jar' \subseteq jar \cup {OfOffer(o, u, "other")}
    BY <2>1 DEF Put
  <2>3. Lawful(OfOffer(o, u, "other"))
    BY <1>3, <2>1, LawfulOffer DEF Accepts
  <2>4. UNCHANGED <<httpPc, snapshot, browser, got, injected, resp>>
    BY <1>10 DEF OtherFetch, pageside
  <2> QED
    BY <2>2, <2>3, <2>4 DEF EntriesOK, Lawful
<1>11. CASE /\ UNCHANGED <<jar, browser, got, injected>> /\ snapshot' \in {snapshot, jar, {}}
            /\ \/ resp' = resp \/ resp' = NoAnswer
               \/ resp' = [resp EXCEPT !.status = 0, !.to = NoUrl]
            /\ httpPc' \notin OnPage => httpPc \notin OnPage
  <2>1. resp' \in Answer
    <3>1. NoAnswer \in Answer
      BY <1>1 DEF NoAnswer
    <3>2. [resp EXCEPT !.status = 0, !.to = NoUrl] \in Answer
      BY <1>1
    <3> QED
      BY <1>1, <1>11, <3>1, <3>2
  <2>2. \A e \in jar' \cup snapshot' \cup browser' \cup got' : Lawful(e)
    BY <1>11 DEF EntriesOK
  <2> QED
    BY <1>11, <2>1, <2>2 DEF EntriesOK, Lawful
<1> QED
  BY <1>4, <1>5, <1>6, <1>7, <1>8, <1>9, <1>10, <1>11, EntriesMove DEF EntriesMoves


\* Types.
LEMMA RangesStep ==
  ASSUME Ranges, SettledOK, EntriesOK, HttpNext
  PROVE  Ranges'
<1>1. url' \in Urls
  <2>1. resp.to \in Locations /\ url \in Urls /\ caller.url \in Urls
    BY DEF Ranges, SettledOK, EntriesOK
  <2>2. Follows => url' \in Urls
    BY <2>1 DEF Follows, redirected, Locations
  <2>3. Arrives \/ HttpFails => url' \in Urls
    BY <2>1 DEF Arrives, HttpFails, ForgetsHops
  <2>4. Injects => url' \in Urls
    BY <2>1 DEF Injects
  <2> QED
    BY <2>1, <2>2, <2>3, <2>4
       DEF request, HttpNext, Fetches, ResolvesJar, Prepares, BuildsClient,
       SendsHop, Answers, LoadsJar, StoresCookies, ReadsChunk, Judges, StartsHost, AsksBrowser, Syncs,
       BrowserFails, PageSets, OtherFetch
<1>2. hop' \in 0 .. MaxHops
  <2>1. hop \in 0 .. MaxHops /\ MaxHops \in Nat
    BY HopsAssumption DEF Ranges
  <2>2. hop' \in {hop, 0} \/ (hop # MaxHops /\ hop' = hop + 1)
    BY DEF request, HttpNext, Fetches, ResolvesJar, Prepares, BuildsClient, SendsHop, Answers,
       LoadsJar, StoresCookies, Follows, Arrives, ReadsChunk, Judges, HttpFails, StartsHost, Injects,
       AsksBrowser, Syncs, BrowserFails, PageSets, OtherFetch, ForgetsHops
  <2> QED
    BY <2>1, <2>2
<1>3. others' \in 0 .. MaxOthers
  <2>1. others \in 0 .. MaxOthers /\ MaxOthers \in Nat
    BY HopsAssumption DEF Ranges
  <2>2. others' = others \/ (others < MaxOthers /\ others' = others + 1)
    BY DEF jars, HttpNext, Fetches, ResolvesJar, Prepares, BuildsClient, SendsHop, Answers,
       LoadsJar, StoresCookies, Follows, Arrives, ReadsChunk, Judges, HttpFails, StartsHost, Injects,
       AsksBrowser, Syncs, BrowserFails, PageSets, OtherFetch
  <2> QED
    BY <2>1, <2>2
<1>4. httpPc' \in failsAt \cup {"resolve", "prepare", "route", "browser", "page", "sync",
   "over"}
  BY
     DEF Ranges, failsAt, Goes, Ends, HttpNext, Fetches, ResolvesJar, Prepares, BuildsClient,
         SendsHop,
       Answers, LoadsJar, StoresCookies, Follows, Arrives, ReadsChunk, Judges, HttpFails, StartsHost,
       Injects, AsksBrowser, Syncs, BrowserFails, PageSets, OtherFetch
<1>5. ended' \in {None, "invalid", "refused", "http", "failed", "browser"}
  <2>1. ended = None
    BY Endings
  <2>2. Prepares \/ Judges \/ HttpFails => ended' \in {None, "invalid", "refused", "http",
     "failed"}
    BY <2>1 DEF Goes, Ends, Prepares, Judges, HttpFails
  <2> QED
    BY <2>1, <2>2
       DEF Goes, Ends, HttpNext, Fetches, ResolvesJar, BuildsClient, SendsHop, Answers,
       LoadsJar, StoresCookies, Follows, Arrives, ReadsChunk, StartsHost, Injects, AsksBrowser, Syncs,
       BrowserFails, PageSets, OtherFetch
<1> QED
  BY <1>1, <1>2, <1>3, <1>4, <1>5 DEF Ranges, failsAt

\* The jar is the one the host named, once it has.
LEMMA NamedStep ==
  ASSUME SettledOK, JarIsTheOneTheHostNamed, HttpNext
  PROVE  JarIsTheOneTheHostNamed'
<1>1. ended = None /\ None # "invalid"
  BY Endings DEF None
<1>2. CASE ResolvesJar
  <2>1. CASE jarPath' \in resolved /\ knew' = asked
    BY <2>1 DEF resolved, asked, IsTheProfiles, JarIsTheOneTheHostNamed
  <2>2. CASE ended' = "invalid"
    BY <2>2 DEF JarIsTheOneTheHostNamed
  <2> QED
    BY <1>2, <2>1, <2>2 DEF ResolvesJar, Ends
<1>3. CASE StartsHost
  BY <1>3 DEF StartsHost, JarIsTheOneTheHostNamed
<1>4. CASE UNCHANGED <<knew, jarPath>>
  BY <1>1, <1>4 DEF JarIsTheOneTheHostNamed
<1> QED
  BY <1>2, <1>3, <1>4, Findings

\* A fetch that ends over HTTP has read what its cap takes, and its script was
\* not asked for.
LEMMA HonestStep ==
  ASSUME SettledOK, BodyOK, HttpNext
  PROVE  TruncatedMeansMoreCame' /\ EvaluateIsRunOrRefused'
<1>0. caller' = caller
  BY Findings
<1>1. ended' = "http" => Judges
  BY Endings
<1>2. ASSUME Judges, ended' = "http"
      PROVE  TruncatedMeansMoreCame' /\ ~caller.evaluate
  <2>1. body' = body /\ bodyEnds
    BY <1>2 DEF Judges
  <2>2. TruncatedMeansMoreCame'
    BY <2>1 DEF BodyOK, bodyEnds, TruncatedMeansMoreCame
  <2>3. ~refusedUnsent /\ caller.render \in {"none", "auto"}
    BY <1>2 DEF SettledOK, Judges, OverHttp
  <2>4. caller.render = "none" \/ ~resendable \/ ~caller.evaluate
    BY <1>2, Endings DEF Judges, Goes, Ends, None
  <2> QED
    BY <2>2, <2>3, <2>4 DEF refusedUnsent
<1>3. ASSUME ended' = "refused", ~resendable
      PROVE  ~sent'
  <2>1. CASE Judges
    BY <1>3, <2>1 DEF Judges, Goes, Ends
  <2>2. CASE Prepares
    BY <2>2 DEF Prepares, SettledOK, Early
  <2> QED
    BY <1>3, <2>1, <2>2, Endings
<1> QED
  BY <1>0, <1>1, <1>2, <1>3 DEF TruncatedMeansMoreCame, EvaluateIsRunOrRefused, resendable


\* A request is made from what is left of the caller's, which is stripped of what
\* is for another origin, and from stored cookies that apply.
LEMMA SecretsStep ==
  ASSUME SettledOK, Ranges, EntriesOK, OptsOK, RedirectsKeepSecrets, HttpNext
  PROVE  RedirectsKeepSecrets'
<1>0. caller' = caller
  BY Findings
<1>1. CASE wire' = wire /\ (httpPc' = "answer" => httpPc = "answer" /\ left' = left)
  <2>1. CredentialsStayHome'
    BY <1>1 DEF RedirectsKeepSecrets, CredentialsStayHome, Own
  <2>2. CookiesStayInTheirSite'
    BY <1>1 DEF RedirectsKeepSecrets, CookiesStayInTheirSite, Own, AppliesTo, DomainMatches,
           PathMatches, SameSite
  <2>3. ChangedMethodCarriesNoBody'
    BY <1>0, <1>1 DEF RedirectsKeepSecrets, ChangedMethodCarriesNoBody
  <2> QED
    BY <2>1, <2>2, <2>3 DEF RedirectsKeepSecrets
<1>2. CASE wire' = NoWire /\ httpPc' # "answer"
  BY <1>2 DEF NoWire, RedirectsKeepSecrets, CredentialsStayHome, CookiesStayInTheirSite,
         ChangedMethodCarriesNoBody
<1>3. CASE SendsHop /\ httpPc' = "answer"
  <2>1. /\ wire' = [url |-> url, headers |-> opts.headers, method |-> opts.method,
                    body |-> opts.body,
                    cookies |-> {c \in hopCookies : c.secure => url.scheme = "https"}]
        /\ left' = left /\ httpPc = "send"
    BY <1>3 DEF SendsHop, Goes, Ends
  <2>2. url.host \in Hosts
    BY UrlsAssumption DEF Ranges
  <2>3. ASSUME NEW c \in wire'.cookies
        PROVE  (Own(c) /\ c \in opts.cookies) \/ (~Own(c) /\ Lawful(c) /\ AppliesTo(c, url))
    <3>1. c \in opts.cookies \/ c \in applicable_cookies(url)
      BY <2>1, <2>3 DEF hopCookies, merged, merge_jar_cookies
    <3>2. c \in opts.cookies => Own(c)
      BY DEF OptsOK
    <3>3. c \in applicable_cookies(url) => Lawful(c) /\ AppliesTo(c, url)
      BY DEF applicable_cookies, EntriesOK
    <3>4. Lawful(c) => ~Own(c)
      BY CallerAssumption DEF Lawful, Own
    <3> QED
      BY <3>1, <3>2, <3>3, <3>4
  <2>4. CredentialsStayHome'
    BY <2>1, <2>3 DEF CredentialsStayHome, OptsOK, Hops, Own
  <2>5. ASSUME NEW c \in wire'.cookies, ~Own(c)
        PROVE  AppliesTo(c, url) /\ SameSite(c.by, url.host)
    <3>1. Lawful(c) /\ AppliesTo(c, url)
      BY <2>3, <2>5
    <3> QED
      BY <3>1 DEF Lawful, AppliesTo, SameSite, DomainMatches
  <2>6. CookiesStayInTheirSite'
    BY <2>1, <2>5
       DEF CookiesStayInTheirSite, Own, AppliesTo, DomainMatches, PathMatches, SameSite
  <2>7. ChangedMethodCarriesNoBody'
    BY <1>0, <2>1 DEF ChangedMethodCarriesNoBody, OptsOK, LeftOvers, Hops
  <2> QED
    BY <2>4, <2>6, <2>7 DEF RedirectsKeepSecrets
<1> QED
  BY <1>1, <1>2, <1>3, WireMoves

-------------------------------------------------------------------------------
(* The theorems.                                                               *)

\* Nothing has been asked, and the jar holds what its rules let in.
LEMMA HttpInvInit == HttpInit => HttpInv
<1> SUFFICES ASSUME HttpInit
             PROVE  HttpInv
  OBVIOUS
<1>1. PICK s \in Settings : caller = s.caller /\ client = s.client
  BY DEF HttpInit
<1>2. SettledOK
  <2>1. httpPc = "resolve" /\ sent = FALSE /\ ended = None
    BY DEF HttpInit
  <2> QED
    BY <1>1, <2>1, SettingsAssumption DEF SettledOK, Own, OverHttp, Hops, None
<1>3. Ranges
  <2>1. 0 \in 0 .. MaxHops /\ 0 \in 0 .. MaxOthers
    BY HopsAssumption
  <2> QED
    BY <1>2, <2>1 DEF HttpInit, Ranges, SettledOK, failsAt
<1>4. EntriesOK
  <2>1. resp \in [status : {0, 200, 404} \cup Redirects, to : Locations,
                  sets : Offers \cup {NoOffer}]
    BY DEF HttpInit, NoAnswer, Locations
  <2>2. \A e \in jar : Lawful(e)
    BY JarsAssumption DEF HttpInit
  <2> QED
    BY <2>1, <2>2 DEF HttpInit, EntriesOK
<1>5. OptsOK
  BY DEF HttpInit, OptsOK, Hops
<1>6. BodyOK
  BY DEF HttpInit, BodyOK, NoBody
<1>7. RedirectsKeepSecrets
  BY DEF HttpInit, NoWire, RedirectsKeepSecrets, CredentialsStayHome, CookiesStayInTheirSite,
         ChangedMethodCarriesNoBody
<1>8. TruncatedMeansMoreCame /\ EvaluateIsRunOrRefused /\ JarIsTheOneTheHostNamed
  BY DEF HttpInit, None, TruncatedMeansMoreCame, EvaluateIsRunOrRefused,
         JarIsTheOneTheHostNamed
<1> QED
  BY <1>2, <1>3, <1>4, <1>5, <1>6, <1>7, <1>8 DEF HttpInv

\* Every step keeps it.
LEMMA HttpInvStep == HttpInv /\ [HttpNext]_httpVars => HttpInv'
<1> SUFFICES ASSUME HttpInv, [HttpNext]_httpVars
             PROVE  HttpInv'
  OBVIOUS
<1>1. CASE HttpNext
  <2>1. /\ Ranges /\ SettledOK /\ EntriesOK /\ OptsOK /\ BodyOK
        /\ RedirectsKeepSecrets /\ JarIsTheOneTheHostNamed
    BY DEF HttpInv
  <2> QED
    BY <1>1, <2>1, RangesStep, SettledStep, EntriesStep, OptsStep, BodyStep, SecretsStep,
       HonestStep,
       NamedStep DEF HttpInv
<1>2. CASE UNCHANGED httpVars
  <2>1. /\ UNCHANGED <<caller, client, httpPc, jarPath, knew, served, jar, opts, url,
                        hop, resp>>
        /\ UNCHANGED <<snapshot, body, wire, sent, injected, browser, got, others, left, ended>>
    BY <1>2 DEF httpVars, fixed, jars, request, pageside
  <2>2. Ranges' /\ SettledOK' /\ EntriesOK' /\ OptsOK' /\ BodyOK'
    BY <2>1
       DEF HttpInv, Ranges, SettledOK, EntriesOK, OptsOK, BodyOK, LeftOvers, refusedUnsent,
           resendable, Own, Origin, Lawful
  <2>3. RedirectsKeepSecrets'
    BY <2>1 DEF HttpInv, RedirectsKeepSecrets, CredentialsStayHome, CookiesStayInTheirSite,
           ChangedMethodCarriesNoBody, Own, AppliesTo, DomainMatches, PathMatches, SameSite
  <2>4. TruncatedMeansMoreCame' /\ EvaluateIsRunOrRefused' /\ JarIsTheOneTheHostNamed'
    BY <2>1 DEF HttpInv, TruncatedMeansMoreCame, EvaluateIsRunOrRefused, resendable,
           JarIsTheOneTheHostNamed
  <2> QED
    BY <2>2, <2>3, <2>4 DEF HttpInv
<1> QED
  BY <1>1, <1>2

\* Every state of a fetch over HTTP is of this kind.
THEOREM HttpInvariant == HttpSpec => []HttpInv
<1> QED
  BY HttpInvInit, HttpInvStep, PTL DEF HttpSpec

\* Credentials stay with the origin they were given for, a stored cookie with the
\* site that set it, and a body with the method that carries it, over any chain
\* of redirects.
THEOREM SecretsAreKept == HttpSpec => []RedirectsKeepSecrets
<1>1. HttpInv => RedirectsKeepSecrets
  BY DEF HttpInv
<1> QED
  BY <1>1, HttpInvariant, PTL

\* A result says truncated just when more came than was kept, and none is
\* returned in place of a script's.
THEOREM ResultsAreHonestAlways == HttpSpec => []ResultsAreHonest
<1>1. HttpInv => ResultsAreHonest
  <2> SUFFICES ASSUME HttpInv
               PROVE  ResultsAreHonest
    OBVIOUS
  <2>1. \A c \in jar \cup snapshot \cup browser : c.domain \in Hosts /\ c.by \in Hosts
    BY DEF HttpInv, EntriesOK, Lawful
  <2>2. body.stored \in 0 .. body.due
    BY DEF HttpInv, BodyOK
  <2> QED
    BY <2>1, <2>2 DEF HttpInv, Ranges, HttpTypeOK, ResultsAreHonest
<1> QED
  BY <1>1, HttpInvariant, PTL

\* The jar of another profile is never used, a plaintext response sets no Secure
\* cookie and replaces none that it was checked against (one stored since, it may),
\* and what comes back from the browser is the page's.
THEOREM JarRulesAreKept == HttpSpec => JarKeepsItsRules
<1>1. HttpInv => JarIsTheOneTheHostNamed
  BY DEF HttpInv
<1>2. ASSUME HttpInv, HttpNext, storesPlaintext
      PROVE  /\ \A e \in jar' \ jar : ~e.secure
             /\ \A e \in jar \ jar' : e.secure => e \notin snapshot
  <2>1. StoresCookies
    BY <1>2 DEF storesPlaintext, Goes, Ends, failsRouting, HttpNext, Fetches, ResolvesJar,
       Prepares, BuildsClient, SendsHop, Answers, LoadsJar, Follows, Arrives, ReadsChunk, Judges,
       HttpFails, StartsHost, Injects, AsksBrowser, Syncs, BrowserFails, PageSets, OtherFetch
  <2> DEFINE e == OfOffer(resp.sets, url, "mine")
  <2>2. CASE jar' = jar
    BY <2>2
  <2>3. CASE Accepts(snapshot, resp.sets, url) /\ jar' = Put(jar, e, resp.sets.gone)
    <3>1. ~resp.sets.secure
      BY <1>2, <2>3 DEF storesPlaintext, Accepts, PlaintextMay
    <3>2. \A d \in snapshot : SameIdentity(d, e) => ~d.secure
      BY <1>2, <2>3 DEF storesPlaintext, Accepts, PlaintextMay, SameIdentity, OfOffer, Entry
    <3>3. ~e.secure
      BY <3>1 DEF OfOffer, Entry
    <3> HIDE DEF e
    <3> QED
      BY <2>3, <3>2, <3>3 DEF Put
  <2> QED
    BY <2>1, <2>2, <2>3 DEF StoresCookies
<1>3. HttpInv /\ [HttpNext]_httpVars =>
        [storesPlaintext =>
           /\ \A e \in jar' \ jar : ~e.secure
           /\ \A e \in jar \ jar' : e.secure => e \notin snapshot]_httpVars
  BY <1>2
<1>4. ASSUME HttpInv, HttpNext, httpPc = "sync", httpPc' = "over", NEW e \in jar' \ jar
      PROVE  e.val = "page"
  <2>1. Syncs \/ BrowserFails
    BY <1>4 DEF Goes, Ends, failsAt, failsRouting, HttpNext, Fetches, ResolvesJar,
       Prepares, BuildsClient, SendsHop, Answers, LoadsJar, StoresCookies, Follows, Arrives,
       ReadsChunk, Judges, HttpFails, StartsHost, Injects, AsksBrowser, PageSets, OtherFetch
  <2>2. e \in got \ injected
    BY <1>4, <2>1 DEF Syncs, BrowserFails, jars, changedByPage
  <2> QED
    BY <1>4, <2>2 DEF HttpInv, EntriesOK
<1>5. HttpInv /\ [HttpNext]_httpVars =>
        [(httpPc = "sync" /\ httpPc' = "over") => \A e \in jar' \ jar : e.val = "page"]_httpVars
  BY <1>4
<1> QED
  BY <1>1, <1>3, <1>5, HttpInvariant, PTL
     DEF JarKeepsItsRules, PlaintextSparesSecureCookies, SyncBringsNothingStale, HttpSpec
===============================================================================
