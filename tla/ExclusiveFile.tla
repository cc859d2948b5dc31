--------------------------- MODULE ExclusiveFile ---------------------------
(***************************************************************************)
(* The lock files of Marver, one file operation at a time, between         *)
(* processes that may be stopped or killed between any two:                *)
(*                                                                         *)
(*   "dev"    dev.lock and the slot files: takeExclusive, releaseExclusive *)
(*            (src/server/exclusive.ts)                                    *)
(*   "jam"    jam.lock: acquireLock, releaseLock (jam/journal.ts)          *)
(*   "listen" the listener's lock of one Claude Code process:              *)
(*            claimListener, releaseListener, writeListener                *)
(*            (jam/listener.ts), called by listenCommand (src/cli/jam.ts)  *)
(*                                                                         *)
(* A process is one start of a program.  Old is one that ended earlier and *)
(* may have left the file, or the reclaim file, behind.  A process is      *)
(* named by its instance; pid is what process.kill(pid, 0) looks at, and   *)
(* the system may give an ended process's pid to a new one.                *)
(*                                                                         *)
(* "dev" and "jam" create a file with its content (a link); "listen"       *)
(* creates it empty and writes it then.  Ages (5 s for an unreadable       *)
(* listener file, 10 s for its reclaim directory) pass at any time: a      *)
(* process can be paused longer than that.                                 *)
(*                                                                         *)
(* Left out: a file that names no holder, which takeExclusive and          *)
(* acquireLock refuse at once.                                             *)
(***************************************************************************)
EXTENDS Naturals, FiniteSets

CONSTANTS
  Process,   \* the starts
  Old,       \* a process that ended before all of them
  None,      \* no file, no process
  Kinds,     \* the lock files looked at
  MaxReuse   \* bound: how often a pid may come back

ASSUME ProcessAssumption == Process # {} /\ Old \notin Process /\ None \notin Process \cup {Old}
ASSUME KindsAssumption == Kinds \subseteq {"dev", "jam", "listen"}
ASSUME ReuseAssumption == MaxReuse \in Nat

VARIABLES
  kind,      \* which lock file this is
  file,      \* who the file names; None: no file
  written,   \* is the file's content there (a "listen" file may still be empty)
  reclaim,   \* who made <file>.reclaim; None: it is not there
  alive,     \* the processes that run
  pid,       \* the pid of each, named after its first owner
  pc,        \* where each stands
  seen,      \* the holder it read
  round,     \* takeExclusive's round
  slipped    \* "pid": one came back that a process still goes by;
             \* "leftover": a start was stopped halfway before all of these

vars == <<kind, file, written, reclaim, alive, pid, pc, seen, round, slipped>>
files == <<file, written, reclaim>>
environment == <<kind, alive, pid>>

Someone == Process \cup {Old}
Holding == {"held", "tidy", "releasing"}           \* it counts itself the holder
Answered == {"held", "refused", "left", "releasing"}
Over == {"unborn", "refused", "left", "dead"}

(* pidRuns, pidAlive: does some process run under the pid of h? *)
Runs(h) == \E p \in alive : pid[p] = pid[h]
Readable == file # None /\ written

Goto(p, where) == pc' = [pc EXCEPT ![p] = where]

-----------------------------------------------------------------------------
(* The system: starts, ends, and pids that come back.                      *)

Init ==
  /\ kind \in Kinds
  /\ file \in {None, Old} /\ written \in BOOLEAN
  /\ written = FALSE => kind = "listen" /\ file = Old
  /\ reclaim \in {None, Old}
  /\ alive = {} /\ pid = [p \in Someone |-> p]
  /\ pc = [p \in Process |-> "unborn"]
  /\ seen = [p \in Process |-> None] /\ round = [p \in Process |-> 0]
  /\ slipped = IF reclaim = Old \/ ~written THEN {"leftover"} ELSE {}

Reused == Cardinality({p \in Process : pid[p] # p})
\* A process that read this pid still goes by it.
GoneBy(i) == \E q \in Process : pc[q] \notin Over /\ seen[q] # None /\ pid[seen[q]] = i
Starts(p) ==
  /\ pc[p] = "unborn"
  /\ \E i \in {p} \cup {pid[q] : q \in Someone \ alive} :
       /\ \A q \in alive : pid[q] # i
       /\ i # p => Reused < MaxReuse /\ \A q \in Process : pc[q] = "unborn" => q # i
       /\ pid' = [pid EXCEPT ![p] = i]
       /\ slipped' = IF GoneBy(i) THEN slipped \cup {"pid"} ELSE slipped
  /\ alive' = alive \cup {p}
  /\ Goto(p, IF kind = "listen" THEN "look" ELSE "create")
  /\ UNCHANGED <<kind, files, seen, round>>

\* Killed, or simply over: whatever it has made stays.
Dies(p) ==
  /\ p \in alive /\ alive' = alive \ {p}
  /\ Goto(p, "dead")
  /\ UNCHANGED <<kind, files, pid, seen, round, slipped>>

-----------------------------------------------------------------------------
(* Taking the file.                                                        *)

Step(p, where) == p \in alive /\ pc[p] = where /\ UNCHANGED environment

\* listenCommand looks first: another listener serves this process - hand it the session.
LooksFirst(p) ==
  /\ Step(p, "look")
  /\ IF Readable /\ Runs(file) /\ pid[file] # pid[p]
       THEN seen' = [seen EXCEPT ![p] = file] /\ Goto(p, "handover")
       ELSE seen' = seen /\ Goto(p, "create")
  /\ UNCHANGED <<files, round, slipped>>

\* Unless it has that session already, writeListener reads the file again, and writes it
\* when it names the same pid.
HandsOver(p) ==
  /\ Step(p, "handover")
  /\ \/ Readable /\ pid[file] = pid[seen[p]] /\ Goto(p, "rewrite")
     \/ Goto(p, "refused")
  /\ UNCHANGED <<files, seen, round, slipped>>
Rewrites(p) ==
  /\ Step(p, "rewrite")
  /\ file' = seen[p] /\ written' = TRUE
  /\ Goto(p, "refused")
  /\ UNCHANGED <<reclaim, seen, round, slipped>>

(* createExclusive: the file with its content, or EEXIST.  `wins` is where *)
(* the holder goes on, `other` where one that met a file does.             *)
Create(p, wins, other) ==
  IF file = None
    THEN /\ file' = p /\ written' = (kind # "listen")
         /\ Goto(p, IF kind # "listen" THEN wins ELSE IF wins = "held" THEN "write" ELSE "write2")
    ELSE UNCHANGED <<file, written>> /\ Goto(p, other)

Creates(p) ==
  /\ Step(p, "create") /\ Create(p, "held", "read")
  /\ UNCHANGED <<reclaim, seen, round, slipped>>

\* The listener's content comes after its file.  A write that was overtaken goes to
\* the file it opened, which is no longer the one of that name.
Writes(p) ==
  /\ \/ Step(p, "write") /\ Goto(p, "held")
     \/ Step(p, "write2") /\ Goto(p, "tidy")
  /\ written' = (written \/ file = p)
  /\ UNCHANGED <<file, reclaim, seen, round, slipped>>

\* The file is gone again: once more, then takeExclusive looks a last time.
NextRound(p) ==
  /\ round' = [round EXCEPT ![p] = 1]
  /\ Goto(p, IF round[p] = 0 THEN "create" ELSE "last")

Reads(p) ==
  /\ Step(p, "read")
  /\ \/ file = None /\ kind = "dev" /\ NextRound(p) /\ seen' = seen
     \/ file = None /\ kind = "jam" /\ Goto(p, "refused") /\ UNCHANGED <<seen, round>>
     \/ /\ file # None \/ kind = "listen"
        /\ seen' = [seen EXCEPT ![p] = IF Readable THEN file ELSE None]
        /\ Goto(p, "check") /\ round' = round
  /\ UNCHANGED <<files, slipped>>

(* stale: nobody alive holds it.  A missing file is stale, an empty one is *)
(* when it is not new: both answers are possible.                          *)
Stale(h) == IF h # None THEN ~Runs(h) ELSE TRUE
Held(h) == IF h # None THEN Runs(h) ELSE file # None

\* Is the holder it read dead?  jam: its own pid means it has the lock already.
Checks(p) ==
  /\ Step(p, "check")
  /\ IF kind = "listen"
       THEN \/ Stale(seen[p]) /\ Goto(p, "claim")
            \/ Held(seen[p]) /\ Goto(p, "refused")
       ELSE Goto(p, IF kind = "jam" /\ pid[seen[p]] = pid[p] THEN "held"
                    ELSE IF Runs(seen[p]) THEN "refused" ELSE "claim")
  /\ UNCHANGED <<files, seen, round, slipped>>

\* <file>.reclaim, created exclusively.  dev waits a second and starts over once;
\* listen clears one it finds old, for the next start.
Claims(p) ==
  /\ Step(p, "claim")
  /\ \/ /\ reclaim = None /\ reclaim' = p
        /\ Goto(p, "again") /\ UNCHANGED round
     \/ /\ reclaim # None /\ kind = "dev" /\ round[p] = 0
        /\ NextRound(p) /\ UNCHANGED reclaim
     \/ /\ reclaim # None /\ ~(kind = "dev" /\ round[p] = 0)
        /\ Goto(p, "refused") /\ UNCHANGED <<reclaim, round>>
     \/ /\ reclaim # None /\ kind = "listen"
        /\ reclaim' = None
        /\ Goto(p, "refused") /\ UNCHANGED round
  /\ UNCHANGED <<file, written, seen, slipped>>

\* Under the reclaim file the holder is read again: dev asks for the same instance,
\* jam for the same pid, listen for anything stale.
Same(p) == IF kind = "dev" THEN file = seen[p] ELSE file # None /\ pid[file] = pid[seen[p]]
\* Mutant: the holder read before is trusted under the reclaim file.
AgainUnread(p) ==
  /\ Step(p, "again") /\ Goto(p, "unlink")
  /\ UNCHANGED <<files, seen, round, slipped>>
Again(p) ==
  /\ Step(p, "again")
  /\ IF kind = "listen"
       THEN LET h == IF Readable THEN file ELSE None IN
            \/ Stale(h) /\ Goto(p, "unlink")
            \/ Held(h) /\ Goto(p, "tidyLost")
       ELSE Goto(p, IF Same(p) THEN "unlink" ELSE "tidyLost")
  /\ UNCHANGED <<files, seen, round, slipped>>

\* Mutant: the dead file is cleared for the next start to take.
UnlinksOnly(p) ==
  /\ Step(p, "unlink")
  /\ file' = None /\ written' = TRUE
  /\ Goto(p, "refused") /\ UNCHANGED <<reclaim, seen, round, slipped>>
\* Mutant: an empty file's name goes, and what was to be written into it does not.
UnlinksOpen(p) ==
  /\ Step(p, "unlink")
  /\ file' = None /\ Goto(p, "recreate")
  /\ UNCHANGED <<written, reclaim, seen, round, slipped>>
Unlinks(p) ==
  /\ Step(p, "unlink")
  /\ file' = None /\ written' = TRUE
  /\ Goto(p, IF file = None /\ kind # "listen" THEN "tidyLost" ELSE "recreate")
  /\ UNCHANGED <<reclaim, seen, round, slipped>>

\* Mutant: the new file is written in place of whatever has the name.
RecreatesOver(p) ==
  /\ Step(p, "recreate") /\ file' = p /\ written' = TRUE
  /\ Goto(p, "tidy")
  /\ UNCHANGED <<reclaim, seen, round, slipped>>
Recreates(p) ==
  /\ Step(p, "recreate") /\ Create(p, "tidy", "tidyLost")
  /\ UNCHANGED <<reclaim, seen, round, slipped>>

\* finally: the reclaim file goes, whoever's it is by now.
Tidies(p) ==
  /\ Step(p, "tidy") /\ reclaim' = None
  /\ Goto(p, "held")
  /\ UNCHANGED <<file, written, seen, round, slipped>>
TidiesLost(p) ==
  /\ Step(p, "tidyLost") /\ reclaim' = None
  /\ IF kind = "dev" THEN NextRound(p) ELSE Goto(p, "refused") /\ UNCHANGED round
  /\ UNCHANGED <<file, written, seen, slipped>>

\* takeExclusive's last look only chooses the words: held, or stuck.
LooksLast(p) ==
  /\ Step(p, "last") /\ Goto(p, "refused")
  /\ UNCHANGED <<files, seen, round, slipped>>

-----------------------------------------------------------------------------
(* Holding it and giving it back.                                          *)

Mine(p) == Readable /\ IF kind = "dev" THEN file = p ELSE pid[file] = pid[p]

\* release: read whose it is, then unlink it.
Releases(p) ==
  /\ Step(p, "held")
  /\ Goto(p, IF Mine(p) THEN "releasing" ELSE "left")
  /\ UNCHANGED <<files, seen, round, slipped>>
Removes(p) ==
  /\ Step(p, "releasing")
  /\ file' = None /\ written' = TRUE
  /\ Goto(p, "left")
  /\ UNCHANGED <<reclaim, seen, round, slipped>>

\* A listener looks every second: the lock names another, so it goes.
Yields(p) ==
  /\ Step(p, "held") /\ kind = "listen"
  /\ Readable /\ pid[file] # pid[p]
  /\ Goto(p, "left")
  /\ UNCHANGED <<files, seen, round, slipped>>

Takes(p) ==
  \/ LooksFirst(p) \/ HandsOver(p) \/ Rewrites(p) \/ Creates(p) \/ Writes(p)
  \/ Reads(p) \/ Checks(p) \/ Claims(p) \/ Again(p) \/ Unlinks(p) \/ Recreates(p)
  \/ Tidies(p) \/ TidiesLost(p) \/ LooksLast(p)

Next == \E p \in Process : Starts(p) \/ Dies(p) \/ Takes(p) \/ Releases(p) \/ Removes(p) \/ Yields(p)

Spec == Init /\ [][Next]_vars

-----------------------------------------------------------------------------
(* Properties.                                                             *)

Where == {"unborn", "look", "handover", "rewrite", "create", "write", "write2", "read",
          "check", "claim", "again", "unlink", "recreate", "tidy", "tidyLost", "last",
          "held", "releasing", "refused", "left", "dead"}

\* The types, and what every lock file has: a missing file has nothing left to write.
TypeOK ==
  /\ kind \in Kinds
  /\ file \in Someone \cup {None} /\ written \in BOOLEAN /\ reclaim \in Someone \cup {None}
  /\ alive \subseteq Process /\ pid \in [Someone -> Someone]
  /\ pc \in [Process -> Where] /\ seen \in [Process -> Someone \cup {None}]
  /\ round \in [Process -> {0, 1}]
  /\ slipped \subseteq {"pid", "leftover"}
  /\ file = None => written

Holders == {p \in alive : pc[p] \in Holding}

\* dev.lock and the slot files stand whatever pids come back, as they compare the
\* instance; jam.lock, which compares pids, as long as none came back that a start
\* still goes by.
Sound == kind = "dev" \/ (kind = "jam" /\ "pid" \notin slipped)

\* "Two starts at once can never both reclaim it": one holder at a time, whatever
\* stops between the file operations of several starts.  A holder's file is never
\* unlinked or replaced under it: it names the holder for as long as the holder goes by
\* it, so the next start sees who runs.
OneHolder ==
  Sound => /\ Cardinality(Holders) <= 1
           /\ \A p \in Holders : file # None /\ pid[file] = pid[p]

\* Starts never turn each other away all at once: when each has its answer, nobody
\* died and no start was stopped halfway before, one of them had the lock.  (A pid that
\* came back is a holder that runs, as far as the files tell.)
SomeoneWins ==
  "leftover" \notin slipped /\ (\A p \in Process : pid[p] = p /\ pc[p] \in Answered)
    => \E p \in Process : pc[p] # "refused"

\* The lock of exclusive.ts implements the abstract one.
Lock == INSTANCE ExclusiveLock WITH holders <- IF kind = "dev" THEN Holders ELSE {}
ImplementsLock == Lock!LockSpec

\* "One listener per Claude Code process" (jam/listener.ts).
OneListener == kind = "listen" => Cardinality(Holders) <= 1
=============================================================================
