------------------------------ MODULE ProfileStore ------------------------------
(***************************************************************************)
(* One persistent profile directory and the processes that use it without  *)
(* knowing of each other: hosts that own it (resolve_profile_dir, lock::   *)
(* Guard), the local tooling that looks at it or removes it (profile list, *)
(* lock-status, delete, prune) and fetches that write their cookies into   *)
(* its jar (cookie_jar.rs).  A step is one system call or a run of them    *)
(* nobody can tell apart; a process may die between any two.               *)
(***************************************************************************)
EXTENDS Naturals, Sequences, FiniteSets

CONSTANTS Procs,    \* processes, each of which plays one role once
          Cookies,  \* cookie identities
          MaxDeaths \* bound on the processes that are killed

Nobody == "nobody"
Old == "old"  \* the file an earlier process left behind

ASSUME NamesAssumption == {Nobody, Old} \cap Procs = {}
ASSUME DeathsAssumption == MaxDeaths \in Nat

\* A file is named for the process that created it: each creates at most one
\* lock file and at most one jar lock.
Files == Procs \cup {Old}
Roles == {"host", "delete", "prune", "status", "fetch"}
Removing == {"delete", "prune"}
Contents == {"pid", "meta", "data", "jar", "jarlock"}

VARIABLES
  dir,      \* whether the profile directory exists
  entries,  \* what it holds besides the lock file
  lockfile, \* the file its lock's name stands for, or Nobody
  jarlock,  \* the same of the jar's sibling lock
  pidfile,  \* whose pid afhttp-profile.pid holds
  meta,     \* afhttp-profile.json: "ours", "foreign" or, if it is not there, Nobody
  stored,      \* who wrote each cookie of the jar, or Nobody
  aged,     \* the directory was last modified before prune's cutoff
  role, pc,
  fd,       \* the lock or jar lock a process has opened
  holds,    \* whether it holds the advisory lock on it
  todo,     \* entries a removal has listed and not yet removed
  update,   \* what a fetch's responses did to each cookie
  seen,     \* the jar a fetch read under the jar's lock
  torn,     \* which of the two lock files and the jar a removal has unlinked
  deaths

vars == <<dir, entries, lockfile, jarlock, pidfile, meta, stored, aged, role, pc, fd, holds,
          todo, update, seen, torn, deaths>>
disk == <<dir, entries, lockfile, jarlock, pidfile, meta, stored, aged, torn>>
cookies == <<update, seen>>

NoJar == [c \in Cookies |-> Nobody]

Init ==
  /\ dir \in BOOLEAN
  /\ lockfile \in IF dir THEN {Nobody, Old} ELSE {Nobody}
  /\ meta \in IF dir THEN {Nobody, "ours", "foreign"} ELSE {Nobody}
  /\ entries = IF meta = Nobody THEN {} ELSE {"meta"}
  /\ jarlock = Nobody
  /\ pidfile = Nobody
  /\ stored = NoJar
  /\ aged \in BOOLEAN
  /\ role = [p \in Procs |-> Nobody]
  /\ pc = [p \in Procs |-> "idle"]
  /\ fd = [p \in Procs |-> Nobody]
  /\ holds = [p \in Procs |-> FALSE]
  /\ todo = [p \in Procs |-> {}]
  /\ update = [p \in Procs |-> [c \in Cookies |-> "kept"]]
  /\ seen = [p \in Procs |-> NoJar]
  /\ torn = {}
  /\ deaths = 0

Goto(p, place) == pc' = [pc EXCEPT ![p] = place]
At(p, r, place) == role[p] = r /\ pc[p] = place

\* The lock belongs to the file, whatever name the file has by now.
Taken(file) == \E q \in Procs : holds[q] /\ fd[q] = file

\* Guard: from the lock until Drop has unlocked.
Owners == {p \in Procs : role[p] = "host" /\ pc[p] = "running"}

-------------------------------------------------------------------------------
(* lock.rs: Guard::acquire, shared by hosts and removals.                     *)

OpensLock(p, place, missing) ==
  IF dir
  THEN /\ lockfile' = IF lockfile = Nobody THEN p ELSE lockfile
       /\ aged' = (aged /\ lockfile # Nobody)
       /\ fd' = [fd EXCEPT ![p] = lockfile']
       /\ Goto(p, place)
       /\ UNCHANGED <<dir, entries, jarlock, pidfile, meta, stored, torn>>
  ELSE Goto(p, missing) /\ UNCHANGED <<disk, fd>>

TriesLock(p, place, locked) ==
  /\ Goto(p, IF Taken(fd[p]) THEN locked ELSE place)
  /\ holds' = [holds EXCEPT ![p] = ~Taken(fd[p])]

\* Best effort: a directory that is gone takes no pid file.
WritesPid(p, place) ==
  /\ Goto(p, place)
  /\ IF dir THEN /\ pidfile' = p
                 /\ entries' = entries \cup {"pid"}
                 /\ aged' = FALSE
            ELSE UNCHANGED <<pidfile, entries, aged>>
  /\ UNCHANGED <<dir, lockfile, jarlock, meta, stored, torn>>

\* Drop removes the pid file, then unlocks; the lock file stays.
\* (Variant: the lock file goes too.)
dropOrder == <<"pid", "lock">>
lockGoesToo == Nobody
lockAfterDrop == lockfile

RemovesPid(p, place) ==
  /\ Goto(p, place)
  /\ pidfile' = Nobody
  /\ entries' = entries \ {"pid"}
  /\ aged' = (aged /\ "pid" \notin entries)
  /\ lockfile' = lockAfterDrop
  /\ UNCHANGED <<dir, jarlock, meta, stored, torn, holds>>

Unlocks(p, place) == Goto(p, place) /\ holds' = [holds EXCEPT ![p] = FALSE]

-------------------------------------------------------------------------------
(* A host: resolve_profile_dir, then the browser under the guard.             *)

HostStarts(p) ==
  /\ pc[p] = "idle"
  /\ role' = [role EXCEPT ![p] = "host"]
  /\ dir' = TRUE
  /\ aged' = (aged /\ dir)
  /\ Goto(p, "made")
  /\ UNCHANGED <<entries, lockfile, jarlock, pidfile, meta, stored, torn, fd, holds, todo,
                 cookies, deaths>>

HostOpensLock(p) ==
  /\ At(p, "host", "made")
  /\ OpensLock(p, "opened", "ended")
  /\ UNCHANGED <<role, holds, todo, cookies, deaths>>

HostLocks(p) ==
  /\ At(p, "host", "opened")
  /\ TriesLock(p, "locked", "ended")
  /\ UNCHANGED <<disk, role, fd, todo, cookies, deaths>>

HostWritesPid(p) ==
  /\ At(p, "host", "locked")
  /\ WritesPid(p, "pidded")
  /\ UNCHANGED <<role, fd, holds, todo, cookies, deaths>>

\* Metadata of another schema, backend or name ends the launch and drops the
\* guard; so does a directory that is no longer there.
HostWritesMeta(p) ==
  /\ At(p, "host", "pidded")
  /\ IF meta # "foreign" /\ dir
     THEN /\ meta' = "ours"
          /\ entries' = entries \cup {"meta"}
          /\ aged' = FALSE
          /\ Goto(p, "running")
     ELSE Goto(p, "dropping") /\ UNCHANGED <<meta, entries, aged>>
  /\ UNCHANGED <<dir, lockfile, jarlock, pidfile, stored, torn, role, fd, holds, todo, cookies,
                 deaths>>

\* The browser writes into its user-data-dir.
HostBrowses(p) ==
  /\ p \in Owners
  /\ dir
  /\ "data" \notin entries
  /\ entries' = entries \cup {"data"}
  /\ aged' = FALSE
  /\ UNCHANGED <<dir, lockfile, jarlock, pidfile, meta, stored, torn, role, pc, fd, holds, todo,
                 cookies, deaths>>

HostStops(p) ==
  /\ p \in Owners
  /\ Goto(p, "dropping")
  /\ UNCHANGED <<disk, role, fd, holds, todo, cookies, deaths>>

HostDrops(p, i, place) ==
  /\ At(p, "host", <<"dropping", "unlocking">>[i])
  /\ \/ dropOrder[i] = "pid" /\ RemovesPid(p, place)
     \/ dropOrder[i] = "lock" /\ Unlocks(p, place) /\ UNCHANGED disk
  /\ UNCHANGED <<role, fd, todo, cookies, deaths>>

HostRemovesPid(p) == HostDrops(p, 1, "unlocking")
HostUnlocks(p) == HostDrops(p, 2, "ended")

-------------------------------------------------------------------------------
(* The tooling.  lock-status and prune's listing probe the lock: they open an  *)
(* existing lock file and take its lock for an instant.                        *)

ToolStarts(p, r) ==
  /\ pc[p] = "idle"
  /\ dir                       \* resolve_backend_scoped_profile: profile_not_found
  /\ r \in Removing => meta # "foreign"  \* info, list: validate_profile_meta
  /\ role' = [role EXCEPT ![p] = r]
  /\ Goto(p, IF r = "delete" THEN "removing" ELSE "probing")
  /\ UNCHANGED <<disk, fd, holds, todo, cookies, deaths>>

Probes(p) ==
  /\ pc[p] = "probing"
  /\ IF lockfile = Nobody
     THEN Goto(p, "probed") /\ UNCHANGED <<fd, holds>>
     ELSE /\ fd' = [fd EXCEPT ![p] = lockfile]
          /\ holds' = [holds EXCEPT ![p] = ~Taken(lockfile)]
          /\ Goto(p, IF Taken(lockfile) THEN "ended" ELSE "testing")
  /\ UNCHANGED <<disk, role, todo, cookies, deaths>>

ProbeUnlocks(p) ==
  /\ pc[p] = "testing"
  /\ Unlocks(p, "probed")
  /\ UNCHANGED <<disk, role, fd, todo, cookies, deaths>>

\* prune looks at the age once, before anything is locked for real.
Decides(p) ==
  /\ pc[p] = "probed"
  /\ Goto(p, IF role[p] = "prune" /\ aged /\ dir THEN "removing" ELSE "ended")
  /\ UNCHANGED <<disk, role, fd, holds, todo, cookies, deaths>>

\* remove_profile_dir: never through a link, then Guard::acquire.
\* (Variant: trusting the probe.)
removalTrustsProbe(p) ==
  /\ Goto(p, IF Taken(fd[p]) THEN "ended" ELSE "guarded")
  /\ UNCHANGED holds
removalLocks(p) == TriesLock(p, "guarded", "ended")

RemovalOpensLock(p) ==
  /\ pc[p] = "removing"
  /\ OpensLock(p, "reopened", "ended")
  /\ UNCHANGED <<role, holds, todo, cookies, deaths>>

RemovalLocks(p) ==
  /\ pc[p] = "reopened"
  /\ removalLocks(p)
  /\ UNCHANGED <<disk, role, fd, todo, cookies, deaths>>

RemovalWritesPid(p) ==
  /\ pc[p] = "guarded"
  /\ WritesPid(p, "listing")
  /\ UNCHANGED <<role, fd, holds, todo, cookies, deaths>>

RemovalLists(p) ==
  /\ pc[p] = "listing"
  /\ todo' = [todo EXCEPT ![p] = entries]
  /\ Goto(p, IF dir THEN "emptying" ELSE "letting go")
  /\ UNCHANGED <<disk, role, fd, holds, cookies, deaths>>

\* An entry somebody else took first ends the removal with an error, which
\* drops the guard and leaves the rest.
RemovesEntry(p, e) ==
  /\ pc[p] = "emptying"
  /\ e \in todo[p]
  /\ IF e \in entries
     THEN /\ entries' = entries \ {e}
          /\ todo' = [todo EXCEPT ![p] = @ \ {e}]
          /\ pidfile' = IF e = "pid" THEN Nobody ELSE pidfile
          /\ meta' = IF e = "meta" THEN Nobody ELSE meta
          /\ stored' = IF e = "jar" THEN NoJar ELSE stored
          /\ jarlock' = IF e = "jarlock" THEN Nobody ELSE jarlock
          /\ torn' = torn \cup ({e} \cap {"jar", "jarlock"})
          /\ aged' = FALSE
          /\ UNCHANGED pc
     ELSE /\ Goto(p, "giving up")
          /\ UNCHANGED <<entries, todo, pidfile, meta, stored, jarlock, torn, aged>>
  /\ UNCHANGED <<dir, lockfile, role, fd, holds, cookies, deaths>>

\* drop(guard): its pid file is already gone, or is removed now.
RemovalLetsGo(p) ==
  /\ \/ pc[p] = "emptying" /\ todo[p] = {}
     \/ pc[p] \in {"letting go", "giving up"}
  /\ pidfile' = Nobody
  /\ entries' = entries \ {"pid"}
  /\ holds' = [holds EXCEPT ![p] = FALSE]
  /\ Goto(p, IF pc[p] = "emptying" THEN "emptied" ELSE "ended")
  /\ UNCHANGED <<dir, lockfile, jarlock, meta, stored, aged, torn, role, fd, todo, cookies,
                 deaths>>

\* The lock file goes after the guard, whoever has locked it since.
UnlinksLock(p) ==
  /\ pc[p] = "emptied"
  /\ lockfile' = Nobody
  /\ torn' = IF lockfile = Nobody THEN torn ELSE torn \cup {"lock"}
  /\ Goto(p, "unlinked")
  /\ UNCHANGED <<dir, entries, jarlock, pidfile, meta, stored, aged, role, fd, holds, todo,
                 cookies, deaths>>

\* remove_dir takes an empty directory only.
RemovesDir(p) ==
  /\ pc[p] = "unlinked"
  /\ dir' = (dir /\ ~(entries = {} /\ lockfile = Nobody))
  /\ Goto(p, "ended")
  /\ UNCHANGED <<entries, lockfile, jarlock, pidfile, meta, stored, aged, torn, role, fd, holds,
                 todo, cookies, deaths>>

-------------------------------------------------------------------------------
(* A fetch writes what its responses changed: persist_set_cookies and          *)
(* sync_browser_cookies_to_jar both load, merge and call CookieJar::persist.   *)

Updates == [Cookies -> {"kept", "set", "expired"}]

FetchStarts(p, u) ==
  /\ pc[p] = "idle"
  /\ role' = [role EXCEPT ![p] = "fetch"]
  /\ update' = [update EXCEPT ![p] = u]
  /\ seen' = [seen EXCEPT ![p] = stored]
  /\ dir' = TRUE                \* persist: create_dir_all(parent)
  /\ aged' = (aged /\ dir)
  /\ Goto(p, "merged")
  /\ UNCHANGED <<entries, lockfile, jarlock, pidfile, meta, stored, torn, fd, holds, todo, deaths>>

JarOpensLock(p) ==
  /\ At(p, "fetch", "merged")
  /\ IF dir
     THEN /\ jarlock' = IF jarlock = Nobody THEN p ELSE jarlock
          /\ entries' = entries \cup {"jarlock"}
          /\ fd' = [fd EXCEPT ![p] = jarlock']
          /\ aged' = (aged /\ jarlock # Nobody)
          /\ Goto(p, "waiting")
     ELSE Goto(p, "ended") /\ UNCHANGED <<jarlock, entries, fd, aged>>
  /\ UNCHANGED <<dir, lockfile, pidfile, meta, stored, torn, role, holds, todo, cookies, deaths>>

JarTaken(file) == \E q \in Procs : role[q] = "fetch" /\ holds[q] /\ fd[q] = file

\* lock_exclusive blocks.
JarLocks(p) ==
  /\ At(p, "fetch", "waiting")
  /\ ~JarTaken(fd[p])
  /\ holds' = [holds EXCEPT ![p] = TRUE]
  /\ Goto(p, "rereading")
  /\ UNCHANGED <<disk, role, fd, todo, cookies, deaths>>

\* (Variant: merging into the snapshot loaded before the lock was held.)
JarTrustsSnapshot(p) == UNCHANGED seen
JarRereads(p) == seen' = [seen EXCEPT ![p] = stored]

JarReads(p) ==
  /\ At(p, "fetch", "rereading")
  /\ JarRereads(p)
  /\ Goto(p, "writing")
  /\ UNCHANGED <<disk, role, fd, holds, todo, update, deaths>>

\* Only the entries this fetch updated go on top of what the disk has; an
\* expired one replaces the older first, and is pruned then.
Merged(p) ==
  [c \in Cookies |-> CASE update[p][c] = "kept"    -> seen[p][c]
                       [] update[p][c] = "set"     -> p
                       [] update[p][c] = "expired" -> Nobody]

\* tempfile and rename: a directory that is gone ends it with an error.
JarWrites(p) ==
  /\ At(p, "fetch", "writing")
  /\ IF dir THEN /\ stored' = Merged(p)
                 /\ entries' = entries \cup {"jar"}
                 /\ aged' = FALSE
            ELSE UNCHANGED <<stored, entries, aged>>
  /\ Goto(p, "persisted")
  /\ UNCHANGED <<dir, lockfile, jarlock, pidfile, meta, torn, role, fd, holds, todo, cookies,
                 deaths>>

JarUnlocks(p) ==
  /\ At(p, "fetch", "persisted")
  /\ Unlocks(p, "ended")
  /\ UNCHANGED <<disk, role, fd, todo, cookies, deaths>>

-------------------------------------------------------------------------------
(* A process is killed: the kernel lets its locks go, its files stay.         *)
Dies(p) ==
  /\ deaths < MaxDeaths
  /\ pc[p] \notin {"idle", "ended"}
  /\ deaths' = deaths + 1
  /\ Unlocks(p, "ended")
  /\ UNCHANGED <<disk, role, fd, todo, cookies>>

\* Time passes prune's cutoff.
Ages == dir /\ ~aged /\ aged' = TRUE
        /\ UNCHANGED <<dir, entries, lockfile, jarlock, pidfile, meta, stored, torn, role, pc, fd,
                       holds, todo, cookies, deaths>>

Host(p) == HostStarts(p) \/ HostBrowses(p) \/ HostStops(p)
HostContinues(p) ==
  HostOpensLock(p) \/ HostLocks(p) \/ HostWritesPid(p) \/ HostWritesMeta(p)
    \/ HostRemovesPid(p) \/ HostUnlocks(p)
ToolContinues(p) ==
  \/ Probes(p) \/ ProbeUnlocks(p) \/ Decides(p)
  \/ RemovalOpensLock(p) \/ RemovalLocks(p) \/ RemovalWritesPid(p) \/ RemovalLists(p)
  \/ \E e \in Contents : RemovesEntry(p, e)
  \/ RemovalLetsGo(p) \/ UnlinksLock(p) \/ RemovesDir(p)
FetchContinues(p) ==
  JarOpensLock(p) \/ JarReads(p) \/ JarWrites(p) \/ JarUnlocks(p)

Next ==
  \/ \E p \in Procs :
       \/ Host(p) \/ HostContinues(p)
       \/ \E r \in Roles \ {"host", "fetch"} : ToolStarts(p, r)
       \/ ToolContinues(p)
       \/ \E u \in Updates : FetchStarts(p, u)
       \/ FetchContinues(p) \/ JarLocks(p)
       \/ Dies(p)
  \/ Ages

Spec == Init /\ [][Next]_vars

-------------------------------------------------------------------------------
(* Properties                                                                 *)

(* Every variable keeps its type, and what is not in the directory has no     *)
(* content: pid, metadata, jar and jar lock follow their entries.             *)
StoreTypeOK ==
  /\ dir \in BOOLEAN /\ aged \in BOOLEAN
  /\ entries \subseteq Contents
  /\ lockfile \in Files \cup {Nobody} /\ jarlock \in Procs \cup {Nobody}
  /\ pidfile \in Procs \cup {Nobody} /\ ("pid" \in entries <=> pidfile # Nobody)
  /\ meta \in {Nobody, "ours", "foreign"} /\ ("meta" \in entries <=> meta # Nobody)
  /\ stored \in [Cookies -> Procs \cup {Nobody}] /\ ("jar" \notin entries => stored = NoJar)
  /\ "jarlock" \in entries <=> jarlock # Nobody
  /\ ~dir => entries = {} /\ lockfile = Nobody
  /\ role \in [Procs -> Roles \cup {Nobody}]
  /\ fd \in [Procs -> Files \cup {Nobody}]
  /\ holds \in [Procs -> BOOLEAN]
  /\ todo \in [Procs -> SUBSET Contents]
  /\ update \in [Procs -> [Cookies -> {"kept", "set", "expired"}]]
  /\ seen \in [Procs -> [Cookies -> Procs \cup {Nobody}]]
  /\ torn \subseteq {"lock", "jar", "jarlock"}
  /\ deaths \in 0 .. MaxDeaths

(* architecture.md: "The backend-scoped directory is locked while the host is *)
(* running; a second host on the same backend/profile will fail with          *)
(* profile_locked."                                                           *)
OneHostPerProfile == \A p, q \in Owners : p = q

(* The same, as long as no removal has unlinked the lock file.                *)
OneHostUnlessRemoved == "lock" \notin torn => OneHostPerProfile

(* A running host's pid file is its own: neither the host before it nor a     *)
(* process that was refused the lock takes it away or writes over it.         *)
OwnersPidIsItsOwn == \A p \in Owners : "lock" \notin torn => pidfile = p

(* A profile in use has one owner and tells which, and its directory is as    *)
(* the code leaves it (lock::Guard::acquire, atomic_overwrite).               *)
ProfileHasOneOwner == StoreTypeOK /\ OneHostUnlessRemoved /\ OwnersPidIsItsOwn

(* remove_profile_dir: "a window in which a host could acquire the profile    *)
(* and have its browser data removed underneath it.  Holding the guard across *)
(* the removal closes that".                                                  *)
NothingGoesUnderAHost ==
  [][\A e \in entries \ entries' : e \in {"meta", "data", "jar"} /\ "lock" \notin torn
        => Owners = {}]_vars

(* Writing the jar changes only the cookies that fetch's responses changed,   *)
(* whatever other fetches did to it in the meantime, as long as the jar and   *)
(* its lock file are not removed with the profile.                            *)
WritesTouchTheirOwnCookies ==
  [][\A p \in Procs : JarWrites(p) /\ torn \cap {"jar", "jarlock"} = {}
        => \A c \in Cookies : stored'[c] # stored[c] => update[p][c] # "kept"]_vars

(* What a process of the profile relies on is not pulled from under it: a     *)
(* host's directory by a removal, a fetch's cookies by another fetch.         *)
(* (remove_profile_dir, persist)                                              *)
NothingIsPulledAway == NothingGoesUnderAHost /\ WritesTouchTheirOwnCookies
===============================================================================
