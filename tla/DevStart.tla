------------------------------ MODULE DevStart ------------------------------
(***************************************************************************)
(* marver dev from its first step to its last: one lock per folder, one of *)
(* the fixed slots, Vite's server, a restart of that server, and every way *)
(* out (src/server/dev.ts with startup.ts, dev-lock.ts, slots.ts).  Starts *)
(* are processes; everything one does between two awaits is one step.      *)
(*                                                                         *)
(* The lock and the slot files are taken in one step: ExclusiveFile shows  *)
(* that takeExclusive does that, whatever interleaves.  Left out: a port   *)
(* outside the slots, --recover, and the preferred slot (any order of the  *)
(* slots is allowed here), which change which file is asked for first; and *)
(* takeDevLock's look at the dev.json of a canvas from before dev.lock.    *)
(***************************************************************************)
EXTENDS Naturals, FiniteSets

CONSTANTS
  Start,        \* the processes that run marver dev
  Folder,       \* projects
  Placements,   \* who starts where: folders of the starts
  Slot,         \* the fixed ports
  None,         \* nobody
  Other,        \* another program, which may hold a port
  MaxOthers,    \* bound: how often another program takes a port
  MaxRestarts   \* bound: restarts of Vite's server in all

ASSUME StartAssumption == None \notin Start /\ Other \notin Start \cup {None}
ASSUME PlacementsAssumption == Placements \subseteq [Start -> Folder]
ASSUME SlotAssumption == Slot \subseteq Nat \ {0}
ASSUME LimitsAssumption == MaxOthers \in Nat /\ MaxRestarts \in Nat

VARIABLES
  folder,    \* which project each start is for
  alive,     \* the starts whose process runs
  sig,       \* those of them a signal ends
  \* files
  lock,      \* design/.local/dev.lock of each folder: who it names
  slot,      \* running/slot-<n>.json: who it names, and its state
  info,      \* dev.json: who it names
  traces,    \* the folder has what every marver dev writes (changes.json, ...)
  \* sockets
  port,      \* who listens on each slot's port
  \* each start
  pc,        \* where it stands
  tried,     \* the slots it was refused
  at,        \* the slot it holds, or 0
  first,     \* it found the folder without traces (~ranBefore)
  served,    \* it reached the end of its start
  cur,       \* the server in the start's place: "none", "made" or "bound"
  new,       \* a restart's new server, until the restart settles it
  cleaning,  \* constructions a restart still closes
  late,      \* one of them got its socket bound
  ending,    \* a close has been asked for
  \* history
  ran,       \* a canvas served in this folder
  tidy,      \* no start of this folder was killed on its way
  others, restarts   \* the bounds' counters

files == <<lock, slot, info, traces>>
place == <<tried, at>>
server == <<cur, new, cleaning, late>>
history == <<ran, tidy>>
counters == <<others, restarts>>
vars == <<folder, alive, sig, files, port, pc, place, first, served, server, ending, history, counters>>

NoClaim == [by |-> None, state |-> "none"]
Returning == {"info", "slot", "traces", "lock"}
Leaving == {"ending", "awaiting", "raise"} \cup Returning
Goto(p, where) == pc' = [pc EXCEPT ![p] = where]
At(p, where) == p \in alive /\ pc[p] = where /\ UNCHANGED <<folder, alive, sig>>

Init ==
  /\ folder \in Placements /\ alive = {} /\ sig = {}
  /\ lock = [f \in Folder |-> None] /\ slot = [n \in Slot |-> NoClaim]
  /\ info = [f \in Folder |-> None] /\ traces \in [Folder -> BOOLEAN]
  /\ port = [n \in Slot |-> None]
  /\ pc = [p \in Start |-> "unborn"] /\ tried = [p \in Start |-> {}] /\ at = [p \in Start |-> 0]
  /\ first = [p \in Start |-> FALSE] /\ served = [p \in Start |-> FALSE]
  /\ cur = [p \in Start |-> "none"] /\ new = [p \in Start |-> "none"]
  /\ cleaning = [p \in Start |-> 0] /\ late = [p \in Start |-> FALSE]
  /\ ending = [p \in Start |-> FALSE]
  /\ ran = traces /\ tidy = [f \in Folder |-> TRUE]
  /\ others = 0 /\ restarts = 0

-----------------------------------------------------------------------------
(* The start.                                                              *)

Begins(p) ==
  /\ pc[p] = "unborn" /\ alive' = alive \cup {p} /\ Goto(p, "locking")
  /\ UNCHANGED <<folder, sig, files, port, place, first, served, server, ending, history, counters>>

Takeable(who) == who = None \/ who \notin alive

\* dev.lock first; then, the folder this start's alone, whether a canvas ran here before.
Locks(p) ==
  /\ At(p, "locking")
  /\ LET f == folder[p] IN
     IF Takeable(lock[f])
       THEN /\ lock' = [lock EXCEPT ![f] = p]
            /\ first' = [first EXCEPT ![p] = ~traces[f]]
            /\ Goto(p, "placing")
       ELSE Goto(p, "over") /\ UNCHANGED <<lock, first>>
  /\ UNCHANGED <<slot, info, traces, port, place, served, server, ending, history, counters>>

\* A slot's file, before its port is looked at.  All taken: the start fails.
Places(p) ==
  /\ At(p, "placing")
  /\ \/ \E n \in Slot \ tried[p] :
          IF Takeable(slot[n].by)
            THEN /\ slot' = [slot EXCEPT ![n] = [by |-> p, state |-> "starting"]]
                 /\ at' = [at EXCEPT ![p] = n] /\ Goto(p, "checking") /\ tried' = tried
            ELSE /\ tried' = [tried EXCEPT ![p] = @ \cup {n}]
                 /\ UNCHANGED <<slot, at, pc>>
     \/ tried[p] = Slot /\ Goto(p, "ending") /\ UNCHANGED <<slot, place>>
  /\ UNCHANGED <<lock, info, traces, port, first, served, server, ending, history, counters>>

\* Mutant: the slot it was refused stays its slot.
ChecksPortKept(p) ==
  /\ At(p, "checking")
  /\ IF port[at[p]] = None
       THEN Goto(p, "building") /\ UNCHANGED <<slot, place>>
       ELSE /\ slot' = [slot EXCEPT ![at[p]] = NoClaim]
            /\ tried' = [tried EXCEPT ![p] = @ \cup {at[p]}] /\ at' = at
            /\ Goto(p, "placing")
  /\ UNCHANGED <<lock, info, traces, port, first, served, server, ending, history, counters>>

\* Holding the file: another program has the port, so the file goes and the next is tried.
ChecksPort(p) ==
  /\ At(p, "checking")
  /\ LET n == at[p] IN
     IF port[n] = None
       THEN Goto(p, "building") /\ UNCHANGED <<slot, place>>
       ELSE /\ slot' = [slot EXCEPT ![n] = NoClaim]
            /\ tried' = [tried EXCEPT ![p] = @ \cup {n}] /\ at' = [at EXCEPT ![p] = 0]
            /\ Goto(p, "placing")
  /\ UNCHANGED <<lock, info, traces, port, first, served, server, ending, history, counters>>

\* The slot file is written again only while it names this start, and never from closing.
Rewrites(p, state) ==
  slot' = [slot EXCEPT ![at[p]] = IF @.by = p /\ @.state # "closing"
                                    THEN [by |-> p, state |-> state] ELSE @]

\* Vite's server, whose hooks leave the folder's traces; building it may fail half way.
Builds(p) ==
  /\ At(p, "building")
  /\ traces' = [traces EXCEPT ![folder[p]] = TRUE]
  /\ cur' = [cur EXCEPT ![p] = "made"]
  /\ \/ Goto(p, "listening") /\ slot' = slot
     \/ Goto(p, "ending") /\ Rewrites(p, "closing")
  /\ UNCHANGED <<lock, info, port, place, first, served, new, cleaning, late, ending, history, counters>>

\* On exactly that port.  A failure ends the start: its claims say closing first.
Listens(p) ==
  /\ At(p, "listening")
  /\ IF port[at[p]] = None
       THEN /\ port' = [port EXCEPT ![at[p]] = p] /\ cur' = [cur EXCEPT ![p] = "bound"]
            /\ Goto(p, "publishing") /\ slot' = slot
       ELSE /\ Rewrites(p, "closing")
            /\ Goto(p, "ending") /\ UNCHANGED <<port, cur>>
  /\ UNCHANGED <<lock, info, traces, place, first, served, new, cleaning, late, ending, history, counters>>

\* The slot file says ready and dev.json names this start; a watcher that failed by now ends it.
Publishes(p) ==
  /\ At(p, "publishing")
  /\ info' = [info EXCEPT ![folder[p]] = p]
  /\ \/ Rewrites(p, "ready") /\ Goto(p, "finishing")
     \/ Rewrites(p, "closing") /\ Goto(p, "ending")
  /\ UNCHANGED <<lock, traces, port, place, first, served, server, ending, history, counters>>

Serves(p) ==
  /\ At(p, "finishing")
  /\ \/ /\ served' = [served EXCEPT ![p] = TRUE] /\ ran' = [ran EXCEPT ![folder[p]] = TRUE]
        /\ Goto(p, "serving") /\ slot' = slot
     \/ /\ Rewrites(p, "closing") /\ Goto(p, "ending")
        /\ UNCHANGED <<served, ran>>
  /\ UNCHANGED <<lock, info, traces, port, place, first, server, ending, tidy, counters>>

-----------------------------------------------------------------------------
(* A restart: Vite makes a new server, closes the old one, puts the new    *)
(* one in place and has it listen on the same port.                        *)

\* The new server is the restart's to close; restarts are not over before it is.
Drop(p, bound) ==
  /\ new' = [new EXCEPT ![p] = "none"]
  /\ cleaning' = [cleaning EXCEPT ![p] = @ + 1]
  /\ late' = [late EXCEPT ![p] = @ \/ bound]

Restarts(p) ==
  /\ At(p, "serving") /\ ~ending[p] /\ new[p] = "none" /\ restarts < MaxRestarts
  /\ new' = [new EXCEPT ![p] = "making"] /\ restarts' = restarts + 1
  /\ UNCHANGED <<files, port, pc, place, first, served, cur, cleaning, late, ending, history, others>>

Restarting(p, phase) ==
  /\ p \in alive \ sig /\ new[p] = phase
  /\ UNCHANGED <<folder, alive, sig, lock, info, traces, place, first, served, history, counters>>

\* It could not be made: the old server serves on.
MakeFails(p) ==
  /\ Restarting(p, "making") /\ Drop(p, FALSE)
  /\ UNCHANGED <<slot, port, pc, cur, ending>>

\* Made: Vite closes the old server - which is refused once the start has ended.
Made(p) ==
  /\ Restarting(p, "making")
  /\ IF ending[p] THEN Drop(p, FALSE)
     ELSE new' = [new EXCEPT ![p] = "closing"] /\ UNCHANGED <<cleaning, late>>
  /\ UNCHANGED <<slot, port, pc, cur, ending>>

\* Mutant: once a close is under way the old server is left to it.
OldClosesLeft(p) ==
  /\ Restarting(p, "closing") /\ ~ending[p]
  /\ cur' = [cur EXCEPT ![p] = "none"]
  /\ port' = [port EXCEPT ![at[p]] = IF @ = p THEN None ELSE @]
  /\ new' = [new EXCEPT ![p] = "asked"]
  /\ UNCHANGED <<cleaning, late, slot, pc, ending>>

\* The old one closed; the new one is in place and asks to listen - once the start has
\* ended that fails.
OldCloses(p) ==
  /\ Restarting(p, "closing")
  /\ cur' = [cur EXCEPT ![p] = "none"]
  /\ port' = [port EXCEPT ![at[p]] = IF @ = p THEN None ELSE @]
  /\ IF ending[p] THEN Drop(p, FALSE)
     ELSE new' = [new EXCEPT ![p] = "asked"] /\ UNCHANGED <<cleaning, late>>
  /\ UNCHANGED <<slot, pc, ending>>

\* A listen on its way cannot be called back: it binds, and the restart of a start that
\* has ended closes it.
NewBinds(p) ==
  /\ Restarting(p, "asked") /\ port[at[p]] = None
  /\ port' = [port EXCEPT ![at[p]] = p]
  /\ IF ending[p] THEN Drop(p, TRUE) /\ cur' = cur
     ELSE /\ cur' = [cur EXCEPT ![p] = "bound"]
          /\ new' = [new EXCEPT ![p] = "none"] /\ UNCHANGED <<cleaning, late>>
  /\ UNCHANGED <<slot, pc, ending>>

\* Mutant: the slot file goes on saying ready.
ClosingUnsaid(p) ==
  /\ ending' = [ending EXCEPT ![p] = TRUE]
  /\ slot' = slot
  /\ Goto(p, "ending")
Closing(p) ==
  /\ ending' = [ending EXCEPT ![p] = TRUE]
  /\ Rewrites(p, "closing")
  /\ Goto(p, "ending")

\* Another program took the port in between: the canvas is down, and the restart ends
\* the start - an end that does not wait for this restart.
NewFails(p) ==
  /\ Restarting(p, "asked") /\ port[at[p]] = Other
  /\ IF ending[p] THEN Drop(p, FALSE) /\ UNCHANGED <<slot, pc, cur, ending>>
     ELSE /\ Closing(p)
          /\ new' = [new EXCEPT ![p] = "none"] /\ cur' = [cur EXCEPT ![p] = "made"]
          /\ UNCHANGED <<cleaning, late>>
  /\ UNCHANGED port

Disposes(p) ==
  /\ p \in alive \ sig /\ cleaning[p] > 0
  /\ cleaning' = [cleaning EXCEPT ![p] = @ - 1]
  /\ late' = [late EXCEPT ![p] = FALSE]
  /\ port' = IF late[p] THEN [port EXCEPT ![at[p]] = None] ELSE port
  /\ UNCHANGED <<folder, alive, sig, files, pc, place, first, served, cur, new, ending, history, counters>>

-----------------------------------------------------------------------------
(* The ways out.                                                           *)

\* server.close, whoever asks: the slot file says closing before anything closes.
CloseAsked(p) ==
  /\ At(p, "serving") /\ Closing(p)
  /\ UNCHANGED <<lock, info, traces, port, place, first, served, server, history, counters>>

\* What runs closes - the server serving (an old one Vite is closing: that close).
Closes(p) ==
  /\ At(p, "ending") /\ ~(cur[p] = "bound" /\ new[p] = "closing")
  /\ cur' = [cur EXCEPT ![p] = "none"]
  /\ port' = IF cur[p] = "bound" THEN [port EXCEPT ![at[p]] = None] ELSE port
  /\ Goto(p, "awaiting")
  /\ UNCHANGED <<files, place, first, served, new, cleaning, late, ending, history, counters>>

\* Then every restart, to its last cleanup.
RestartsOver(p) == new[p] = "none" /\ cleaning[p] = 0
\* Mutant: the end does not wait for the restarts.
AwaitsNot(p) ==
  /\ At(p, "awaiting") /\ Goto(p, "info")
  /\ UNCHANGED <<files, port, place, first, served, server, ending, history, counters>>
Awaits(p) ==
  /\ At(p, "awaiting") /\ RestartsOver(p)
  /\ Goto(p, "info")
  /\ UNCHANGED <<files, port, place, first, served, server, ending, history, counters>>

(* The claims go back newest first, each only while it names this start.   *)
Returns(p, where, next) == At(p, where) /\ Goto(p, next)
ReturnsInfo(p) ==
  /\ Returns(p, "info", "slot")
  /\ info' = [info EXCEPT ![folder[p]] = IF @ = p THEN None ELSE @]
  /\ UNCHANGED <<lock, slot, traces, port, place, first, served, server, ending, history, counters>>
ReturnsSlot(p) ==
  /\ Returns(p, "slot", "traces")
  /\ slot' = [n \in Slot |-> IF slot[n].by = p THEN NoClaim ELSE slot[n]]
  /\ UNCHANGED <<lock, info, traces, port, place, first, served, server, ending, history, counters>>
\* Mutant: a start that did not serve takes the folder's traces, whoever left them.
ReturnsTracesOfAll(p) ==
  /\ Returns(p, "traces", "lock")
  /\ traces' = [traces EXCEPT ![folder[p]] = @ /\ served[p]]
  /\ UNCHANGED <<lock, slot, info, port, place, first, served, server, ending, history, counters>>
\* A start that never served, in a folder no canvas ran in, takes its traces back.
ReturnsTraces(p) ==
  /\ Returns(p, "traces", "lock")
  /\ traces' = [traces EXCEPT ![folder[p]] = @ /\ (served[p] \/ ~first[p])]
  /\ UNCHANGED <<lock, slot, info, port, place, first, served, server, ending, history, counters>>
ReturnsLock(p) ==
  /\ Returns(p, "lock", IF p \in sig THEN "raise" ELSE "over")
  /\ lock' = [lock EXCEPT ![folder[p]] = IF @ = p THEN None ELSE @]
  /\ UNCHANGED <<slot, info, traces, port, place, first, served, server, ending, history, counters>>

\* A signal gives back what is held by then, in one turn, and is raised again; the
\* process ends with it.  Nothing says closing first.
Signal(p) ==
  /\ p \in alive \ sig /\ pc[p] # "over"
  /\ sig' = sig \cup {p}
  /\ Goto(p, IF pc[p] = "locking" THEN "raise" ELSE IF pc[p] \in Returning THEN pc[p] ELSE "info")
  /\ UNCHANGED <<folder, alive, files, port, place, first, served, server, ending, history, counters>>

\* The process is gone, and its sockets with it; its files stay.
Dies(p) ==
  /\ p \in alive /\ p \in sig => pc[p] = "raise"
  /\ alive' = alive \ {p} /\ sig' = sig \ {p} /\ Goto(p, "dead")
  /\ port' = [n \in Slot |-> IF port[n] = p THEN None ELSE port[n]]
  /\ cur' = [cur EXCEPT ![p] = "none"] /\ new' = [new EXCEPT ![p] = "none"]
  /\ cleaning' = [cleaning EXCEPT ![p] = 0] /\ late' = [late EXCEPT ![p] = FALSE]
  /\ tidy' = [tidy EXCEPT ![folder[p]] = @ /\ pc[p] \in {"locking", "raise", "over"}]
  /\ UNCHANGED <<folder, files, place, first, served, ending, ran, counters>>

\* Another program takes a free port, or gives it up.
OtherTakes(n) ==
  /\ port[n] = None /\ others < MaxOthers
  /\ port' = [port EXCEPT ![n] = Other] /\ others' = others + 1
  /\ UNCHANGED <<folder, alive, sig, files, pc, place, first, served, server, ending, history, restarts>>
OtherLeaves(n) ==
  /\ port[n] = Other /\ port' = [port EXCEPT ![n] = None]
  /\ UNCHANGED <<folder, alive, sig, files, pc, place, first, served, server, ending, history, counters>>

-----------------------------------------------------------------------------
Starting(p) ==
  Locks(p) \/ Places(p) \/ ChecksPort(p) \/ Builds(p) \/ Listens(p) \/ Publishes(p) \/ Serves(p)
RestartSteps(p) ==
  MakeFails(p) \/ Made(p) \/ OldCloses(p) \/ NewBinds(p) \/ NewFails(p)
Ending(p) ==
  Closes(p) \/ Awaits(p) \/ ReturnsInfo(p) \/ ReturnsSlot(p) \/ ReturnsTraces(p) \/ ReturnsLock(p)

Next ==
  \/ \E p \in Start :
       \/ Begins(p) \/ Starting(p) \/ Restarts(p) \/ RestartSteps(p) \/ Disposes(p)
       \/ CloseAsked(p) \/ Ending(p) \/ Signal(p) \/ Dies(p)
  \/ \E n \in Slot : OtherTakes(n) \/ OtherLeaves(n)

Spec == Init /\ [][Next]_vars

\* A process that runs goes on; nobody need ask for a restart, a close, or end it.
Fairness ==
  \A p \in Start :
    /\ WF_vars(Starting(p)) /\ WF_vars(RestartSteps(p)) /\ WF_vars(Disposes(p))
    /\ WF_vars(Ending(p)) /\ WF_vars(pc[p] = "raise" /\ Dies(p))
FairSpec == Spec /\ Fairness

-----------------------------------------------------------------------------
(* Properties.                                                             *)

\* The types, and that a start's slot is one it was not refused.
TypeOK ==
  /\ folder \in [Start -> Folder] /\ sig \subseteq alive /\ alive \subseteq Start
  /\ lock \in [Folder -> Start \cup {None}] /\ info \in [Folder -> Start \cup {None}]
  /\ slot \in [Slot -> [by : Start, state : {"starting", "ready", "closing"}] \cup {NoClaim}]
  /\ traces \in [Folder -> BOOLEAN] /\ ran \in [Folder -> BOOLEAN] /\ tidy \in [Folder -> BOOLEAN]
  /\ port \in [Slot -> Start \cup {None, Other}]
  /\ pc \in [Start -> {"unborn", "locking", "placing", "checking", "building", "listening", "publishing",
                        "finishing", "serving", "over", "dead"} \cup Leaving]
  /\ tried \in [Start -> SUBSET Slot] /\ at \in [Start -> Slot \cup {0}]
  /\ \A p \in Start : at[p] \notin tried[p]
  /\ first \in [Start -> BOOLEAN] /\ served \in [Start -> BOOLEAN]
  /\ cur \in [Start -> {"none", "made", "bound"}]
  /\ new \in [Start -> {"none", "making", "closing", "asked"}]
  /\ cleaning \in [Start -> 0 .. MaxRestarts] /\ late \in [Start -> BOOLEAN] /\ ending \in [Start -> BOOLEAN]
  /\ others \in 0 .. MaxOthers /\ restarts \in 0 .. MaxRestarts

\* "While anything of the start could still bind or serve, its lock, slot file and
\* dev.json stay" (dev.ts): no socket, and nothing a restart made, outlives the claims.
\* A signal gives the claims back first, and the process takes the rest with it.
ClaimsOutlastServers ==
  \A p \in alive \ sig :
    /\ \A n \in Slot : port[n] = p => slot[n].by = p /\ lock[folder[p]] = p
    /\ (cur[p] # "none" \/ ~RestartsOver(p)) => lock[folder[p]] = p /\ slot[at[p]].by = p

\* "Never ready for a canvas that has stopped serving" (slots.ts): a ready slot whose
\* process runs, and no signal ends, serves - or a restart is putting a server there.
ReadyServes ==
  \A n \in Slot : slot[n].state = "ready" /\ slot[n].by \in alive \ sig =>
    LET p == slot[n].by IN ~ending[p] /\ (port[n] = p \/ new[p] = "asked")

\* dev.json, by which the command line finds the canvas, names the start that has the
\* folder: two starts in a row never remove or leave each other's.  Once a folder is free
\* it looks as if a canvas ran there exactly when one did, unless a start was killed on
\* its way.
FolderTells ==
  \A f \in Folder :
    /\ info[f] \in alive => lock[f] = info[f]
    /\ lock[f] = None /\ tidy[f] => traces[f] = ran[f]

\* No start hangs on its way up, and no close waits on a restart that waits on it.
NeverHangs ==
  \A p \in Start : pc[p] \notin {"unborn", "serving"} ~> pc[p] \in {"serving", "over", "dead"}
=============================================================================
