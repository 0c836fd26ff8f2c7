---------------------------- MODULE IndexStore ----------------------------
(***************************************************************************)
(* The store of the per-root indexes: IndexManager::resolve, which finds or  *)
(* creates the directory of a root (index_manager.cpp), updateLastScan, and  *)
(* the janitor that sweeps directories of vanished roots (index_janitor.cpp). *)
(*                                                                         *)
(* Two threads resolve: the worker of a scan, and the session's event loop    *)
(* when it answers a thumbnail request (ThumbnailStore::ensureOpen).  Nothing *)
(* serialises them, so resolve is split at its file-system calls.  The process *)
(* may be killed at any point; the directories survive, with the write-ahead   *)
(* files of the databases that were open in them.  A directory is touched when  *)
(* a file in it is made, renamed or deleted, not when one is written.  Time is  *)
(* counted in days.                                                         *)
(***************************************************************************)
EXTENDS Naturals, FiniteSets

CONSTANTS Roots,       \* the folders the user scans (canonical paths)
          StaleDays,   \* kJanitorStaleMs
          MaxDays,     \* bound: days that pass
          MaxSuffix,   \* bound: suffixes of one folder id
          MaxDirs,     \* bound: directories at one time
          MaxKills,    \* bound: kills of the backend
          MaxMoves     \* bound: times a root disappears or comes back

ASSUME StoreAssumption ==
  /\ StaleDays \in Nat \ {0}
  /\ {MaxDays, MaxSuffix, MaxDirs, MaxKills, MaxMoves} \subseteq Nat

Resolvers == {"scan", "thumb"}
NoRoot == "no root"
NoDir == <<NoRoot, 0>>

\* Names of directories: the folder id of a root and a suffix.  The 128-bit ids
\* of different roots are taken to differ, so a root stands for its id.
DirNames == Roots \X (0 .. MaxSuffix)

VARIABLES
  dirs,      \* the directories under Index/: name -> record
  agent,     \* where each resolver is in resolve
  open,      \* the directory in which each of them has a database open
  present,   \* the roots that exist on disk now
  day,       \* the clock
  stored,    \* where and when a scan of a root last opened or renewed its index
  kills,     \* kills so far
  moves      \* disappearances and returns so far

storeVars == <<dirs, agent, open, present, day, stored, kills, moves>>

\* The databases in a directory: index.sqlite and video_cache.sqlite.
Databases == {"index", "video"}

Idle == [pc |-> "idle", root |-> NoRoot, dir |-> NoDir]

StoreTypeOK ==
  /\ DOMAIN dirs \subseteq DirNames
  /\ \A d \in DOMAIN dirs :
       /\ dirs[d].meta \in Roots \cup {NoRoot}
       /\ dirs[d].tmp \in BOOLEAN
       /\ {dirs[d].last, dirs[d].touched} \subseteq 0 .. day
       /\ dirs[d].rows \subseteq Roots
       /\ dirs[d].wal \subseteq Databases
  /\ open \in [Resolvers -> DirNames \cup {NoDir}]
  /\ agent \in [Resolvers -> [pc : {"idle", "look", "choose", "meta", "rename",
                                    "resolved", "using"},
                              root : Roots \cup {NoRoot},
                              dir : DirNames \cup {NoDir}]]
  /\ present \subseteq Roots

StoreInit ==
  /\ dirs = [d \in {} |-> {}]
  /\ agent = [a \in Resolvers |-> Idle]
  /\ open = [a \in Resolvers |-> NoDir]
  /\ present = Roots
  /\ day = 0
  /\ stored = [r \in Roots |-> [dir |-> NoDir, day |-> 0, fresh |-> FALSE]]
  /\ kills = 0
  /\ moves = 0

Fresh == [meta |-> NoRoot, tmp |-> FALSE, last |-> day, touched |-> day, rows |-> {},
          wal |-> {}]

Put(d, rec) == dirs' = [x \in DOMAIN dirs \cup {d} |-> IF x = d THEN rec ELSE dirs[x]]
At(a, pc) == agent[a].pc = pc
Goto(a, pc) == agent' = [agent EXCEPT ![a].pc = pc]
ResolveRest == UNCHANGED <<present, day, stored, kills, moves>>

(***************************************************************************)
(* The connections of SQLite.  In WAL mode the first one of a database makes   *)
(* its write-ahead files unless they are left of a process that was killed, and *)
(* the last one deletes them.                                               *)
(***************************************************************************)
\* The directories ds once the databases files of d are open.
WithOpen(ds, d, files) ==
  [ds EXCEPT ![d].wal = @ \cup files,
             ![d].touched = IF files \subseteq ds[d].wal THEN @ ELSE day]

\* ... and once side a has closed what it had open.  Both sides have the index
\* open, the scan alone the cache of videos.
LastOf(a) == {f \in Databases : IF f = "index" THEN \A b \in Resolvers \ {a} : open[b] # open[a]
                                ELSE a = "scan"}
WithClosed(ds, a) ==
  IF open[a] \in DOMAIN ds /\ LastOf(a) # {}
  THEN [ds EXCEPT ![open[a]].wal = @ \ LastOf(a), ![open[a]].touched = day]
  ELSE ds

\* teardownWorker before the next scan, thumbs_.close(), or the orderly end of
\* the session.
CloseSide(a) ==
  /\ At("scan", "idle") /\ At("thumb", "idle")
  /\ open[a] # NoDir
  /\ dirs' = WithClosed(dirs, a)
  /\ open' = [open EXCEPT ![a] = NoDir]
  /\ UNCHANGED agent
  /\ ResolveRest

(***************************************************************************)
(* The janitor, run by the worker before it resolves.                       *)
(***************************************************************************)
\* A mutant: the sweep trusts the record's date alone.
SweepableByRecord(d) ==
  /\ dirs[d].meta # NoRoot
  /\ dirs[d].meta \notin present
  /\ day - dirs[d].last >= StaleDays

\* shouldRemoveIndex: the record parses, the root is gone, and both the
\* recorded scan and the directory itself are stale.
Sweepable(d) ==
  /\ dirs[d].meta # NoRoot
  /\ dirs[d].meta \notin present
  /\ day - dirs[d].last >= StaleDays
  /\ day - dirs[d].touched >= StaleDays

\* sweepStaleIndexes, then the scan starts to resolve its root.  A directory
\* that cannot be removed (a file in it is open) is left, whole or without the
\* record that remove_all already deleted.
StartScan(r) ==
  /\ At("scan", "idle") /\ open["scan"] = NoDir
  /\ r \in present
  /\ \E swept \in SUBSET {d \in DOMAIN dirs : Sweepable(d) /\ open["thumb"] # d} :
     \E torn \in SUBSET {d \in DOMAIN dirs \ swept : Sweepable(d)} :
        dirs' = [d \in DOMAIN dirs \ swept |->
                   IF d \in torn THEN [dirs[d] EXCEPT !.meta = NoRoot] ELSE dirs[d]]
  /\ agent' = [agent EXCEPT !["scan"] = [pc |-> "look", root |-> r, dir |-> NoDir]]
  /\ UNCHANGED open
  /\ ResolveRest

\* requestThumb: the session serves the root of the last scan or load.
RequestThumb(r) ==
  /\ At("thumb", "idle")
  /\ agent["scan"].root \in {r, NoRoot}
  /\ agent' = [agent EXCEPT !["thumb"] = [pc |-> "look", root |-> r, dir |-> NoDir]]
  /\ UNCHANGED <<dirs, open>>
  /\ ResolveRest

(***************************************************************************)
(* IndexManager::resolve.                                                   *)
(***************************************************************************)
Recorded(r) == {d \in DOMAIN dirs : dirs[d].meta = r}

\* The fast path <<r, 0>>, else any directory whose record names the root.
Look(a) ==
  LET r == agent[a].root IN
  /\ At(a, "look")
  /\ \/ /\ Recorded(r) # {}
        /\ \E d \in Recorded(r) :
             /\ <<r, 0>> \in Recorded(r) => d = <<r, 0>>
             /\ agent' = [agent EXCEPT ![a].pc = "resolved", ![a].dir = d]
     \/ /\ Recorded(r) = {}
        /\ Goto(a, "choose")
  /\ UNCHANGED <<dirs, open>>
  /\ ResolveRest

\* The first name that is free or already recorded for the root, and its
\* directory.
Choose(a) ==
  LET r == agent[a].root
      Usable(k) == <<r, k>> \notin DOMAIN dirs \/ <<r, k>> \in Recorded(r)
  IN
  /\ At(a, "choose")
  /\ \E k \in 0 .. MaxSuffix :
       /\ Usable(k)
       /\ \A j \in 0 .. MaxSuffix : j < k => ~Usable(j)
       /\ <<r, k>> \in DOMAIN dirs \/ Cardinality(DOMAIN dirs) < MaxDirs
       /\ IF <<r, k>> \in DOMAIN dirs THEN UNCHANGED dirs ELSE Put(<<r, k>>, Fresh)
       /\ agent' = [agent EXCEPT ![a].pc = "meta", ![a].dir = <<r, k>>]
  /\ UNCHANGED open
  /\ ResolveRest

\* The record is written beside its place unless there is one by now.
WriteRecord(a) ==
  LET d == agent[a].dir IN
  /\ At(a, "meta")
  /\ \/ /\ d \in DOMAIN dirs
        /\ dirs[d].meta # NoRoot
        /\ Goto(a, "resolved")
        /\ UNCHANGED dirs
     \/ /\ d \in DOMAIN dirs
        /\ dirs[d].meta = NoRoot
        /\ Goto(a, "rename")
        /\ dirs' = [dirs EXCEPT ![d].tmp = TRUE, ![d].touched = day]
     \/ /\ d \notin DOMAIN dirs      \* swept meanwhile: resolve fails
        /\ agent' = [agent EXCEPT ![a] = Idle]
        /\ UNCHANGED dirs
  /\ UNCHANGED open
  /\ ResolveRest

\* ... and renamed into it; resolve fails when the other thread moved it away.
RenameRecord(a) ==
  LET d == agent[a].dir IN
  /\ At(a, "rename")
  /\ IF d \in DOMAIN dirs /\ dirs[d].tmp
       THEN /\ dirs' = [dirs EXCEPT ![d].meta = agent[a].root, ![d].tmp = FALSE,
                                    ![d].last = day, ![d].touched = day]
            /\ Goto(a, "resolved")
       ELSE /\ agent' = [agent EXCEPT ![a] = Idle]
            /\ UNCHANGED dirs
  /\ UNCHANGED open
  /\ ResolveRest

(***************************************************************************)
(* Use of the index.                                                        *)
(***************************************************************************)
\* openIndexForRoot: the scan's databases are opened in the directory.  Over the
\* write-ahead files of a scan that was killed nothing in it is made anew.  (The
\* janitor runs in this very thread, so a sweep cannot come between.)
OpenIndex ==
  LET d == agent["scan"].dir
      r == agent["scan"].root
  IN
  /\ At("scan", "resolved")
  /\ d \in DOMAIN dirs
  /\ dirs' = [WithOpen(dirs, d, Databases) EXCEPT ![d].rows = @ \cup {r}]
  /\ stored' = [stored EXCEPT ![r] = [dir |-> d, day |-> day,
                                      fresh |-> ~(Databases \subseteq dirs[d].wal)]]
  /\ open' = [open EXCEPT !["scan"] = d]
  /\ Goto("scan", "using")
  /\ UNCHANGED <<present, day, kills, moves>>

\* The scan ends, its worker and its databases stay until the next one; a
\* completed scan renews the record (updateLastScan), whose rename may fail
\* while another thread reads it.
EndScan ==
  LET d == agent["scan"].dir IN
  /\ At("scan", "using")
  /\ \/ UNCHANGED <<dirs, stored>>
     \/ /\ d \in DOMAIN dirs
        /\ dirs[d].meta # NoRoot
        /\ dirs' = [dirs EXCEPT ![d].last = day, ![d].touched = day]
        /\ stored' = [stored EXCEPT ![agent["scan"].root] = [dir |-> d, day |-> day,
                                                             fresh |-> TRUE]]
  /\ agent' = [agent EXCEPT !["scan"] = Idle]
  /\ UNCHANGED <<open, present, day, kills, moves>>

\* ensureOpen: every request closes the store's database and opens it again.
ThumbServed ==
  LET d == agent["thumb"].dir
      closed == WithClosed(dirs, "thumb")
  IN
  /\ At("thumb", "resolved")
  /\ IF d \in DOMAIN dirs
       THEN dirs' = WithOpen(closed, d, {"index"}) /\ open' = [open EXCEPT !["thumb"] = d]
       ELSE dirs' = closed /\ open' = [open EXCEPT !["thumb"] = NoDir]
  /\ agent' = [agent EXCEPT !["thumb"] = Idle]
  /\ ResolveRest

(***************************************************************************)
(* The environment.                                                         *)
(***************************************************************************)
NextDay ==
  /\ day < MaxDays
  /\ agent["scan"].pc \in {"idle", "using"} /\ At("thumb", "idle")
  /\ day' = day + 1
  /\ UNCHANGED <<dirs, agent, open, present, stored, kills, moves>>

RootMoves(r) ==
  /\ moves < MaxMoves
  /\ moves' = moves + 1
  /\ present' = IF r \in present THEN present \ {r} ELSE present \cup {r}
  /\ UNCHANGED <<dirs, agent, open, day, stored, kills>>

\* The write-ahead files stay.
Kill ==
  /\ kills < MaxKills
  /\ kills' = kills + 1
  /\ agent' = [a \in Resolvers |-> Idle]
  /\ open' = [a \in Resolvers |-> NoDir]
  /\ UNCHANGED <<dirs, present, day, stored, moves>>

StoreNext ==
  \/ \E r \in Roots : StartScan(r) \/ RequestThumb(r) \/ RootMoves(r)
  \/ \E a \in Resolvers : Look(a) \/ Choose(a) \/ WriteRecord(a) \/ RenameRecord(a)
                          \/ CloseSide(a)
  \/ OpenIndex \/ EndScan \/ ThumbServed \/ NextDay \/ Kill

StoreSpec == StoreInit /\ [][StoreNext]_storeVars

(***************************************************************************)
(* Properties.                                                              *)
(***************************************************************************)

\* The index of r was last opened or renewed less than StaleDays ago.
Young(r) == stored[r].dir # NoDir /\ day - stored[r].day < StaleDays
Survives(r) == stored[r].dir \in DOMAIN dirs /\ r \in dirs[stored[r].dir].rows

\* What a scan stored less than StaleDays ago is still on disk, whatever the
\* sweeps of other scans met: an unplugged root, a scan killed before it could
\* renew its record, a record that was never written (index_janitor.h: removal
\* needs all of root gone, old record and old directory).  That is so of a scan
\* that renewed the record, and of one that did not provided that it found no
\* write-ahead files of another that was killed.
YoungIndexKept == \A r \in Roots : Young(r) /\ stored[r].fresh => Survives(r)

\* "any live scan refreshes" the directory (index_janitor.h:13): what any scan
\* stored less than StaleDays ago is on disk.
LiveScanRefreshes == \A r \in Roots : Young(r) => Survives(r)
=============================================================================
