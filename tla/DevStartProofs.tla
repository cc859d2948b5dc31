--------------------------- MODULE DevStartProofs ---------------------------
(* What holds of marver dev for any number of starts, projects, slots and  *)
(* restarts: no claim goes back while something of the start could bind or *)
(* serve, a slot that says ready has a server or gets one, dev.json names  *)
(* the start that has the folder, and a free folder's traces tell the      *)
(* truth.                                                                  *)
EXTENDS DevStart, TLAPS

-----------------------------------------------------------------------------
(* The inductive invariant *)

\* Where a start stands while it has a slot, may have one, and has its folder.
Placed == {"checking", "building", "listening", "publishing", "finishing", "serving"}
Slotted == Placed \cup {"ending", "awaiting", "info", "slot"}
Having == {"placing", "traces", "lock"} \cup Slotted

\* A process runs from its start to its end; one a signal ends only gives back.
Running ==
  \A p \in Start :
    /\ p \in alive <=> pc[p] \notin {"unborn", "dead"}
    /\ p \in sig => pc[p] \in Returning \cup {"raise"}
    /\ pc[p] = "raise" => p \in sig
    /\ pc[p] \in {"unborn", "locking"} => ~served[p]

\* dev.lock of a folder names one that has it, while that one runs.
Locked ==
  /\ \A f \in Folder : lock[f] # None =>
       /\ folder[lock[f]] = f /\ pc[lock[f]] # "unborn"
       /\ lock[f] \in alive => pc[lock[f]] \in Having
  /\ \A p \in alive : pc[p] \in Having => lock[folder[p]] = p

\* So does dev.json.
Published ==
  \A f \in Folder : info[f] # None =>
    /\ folder[info[f]] = f /\ pc[info[f]] # "unborn"
    /\ info[f] \in alive => pc[info[f]] \in {"finishing", "serving", "ending", "awaiting", "info"}

\* A slot's file names one that has the slot, while that one runs.
InSlot ==
  /\ \A n \in Slot : slot[n].by # None =>
       /\ pc[slot[n].by] # "unborn"
       /\ slot[n].by \in alive => pc[slot[n].by] \in Slotted /\ at[slot[n].by] = n
  /\ \A n \in Slot : slot[n].state = "ready" /\ slot[n].by \in alive \ sig =>
       pc[slot[n].by] \in {"finishing", "serving"}
  /\ \A p \in Start :
       /\ pc[p] \in {"unborn", "locking", "placing"} => at[p] = 0
       /\ p \in alive /\ pc[p] \in Slotted /\ at[p] # 0 => slot[at[p]].by = p
       /\ pc[p] \in Placed => at[p] # 0

\* What listens is the server in place, or one that came up after the end had begun.
Sockets ==
  /\ \A n \in Slot : port[n] \in Start => port[n] \in alive /\ at[port[n]] = n
  /\ \A n \in Slot : port[n] \in Start => cur[port[n]] = "bound" \/ late[port[n]]
  /\ \A p \in Start :
       /\ cur[p] = "bound" \/ late[p] => at[p] # 0 /\ port[at[p]] = p
       /\ late[p] => cur[p] # "bound" /\ new[p] = "none" /\ ending[p] /\ cleaning[p] > 0

\* A start that has not come so far, or that is over, has no server.
Bare == {"unborn", "locking", "placing", "checking", "building", "dead"}
Over == {"info", "slot", "traces", "lock", "over"}

\* The server in place, by where the start and its restart stand.
Served(p) ==
  /\ pc[p] \in {"publishing", "finishing"} => cur[p] = "bound"
  /\ pc[p] = "listening" => cur[p] = "made"
  /\ pc[p] = "serving" => cur[p] = IF new[p] = "asked" THEN "none" ELSE "bound"
  /\ pc[p] = "awaiting" => cur[p] = "none"
  /\ new[p] = "asked" => cur[p] = "none"

\* Where a start and its restart stand together.
Restarted ==
  \A p \in Start :
    /\ pc[p] \in Bare => cur[p] = "none"
    /\ p \notin sig /\ (new[p] # "none" \/ cleaning[p] > 0) => pc[p] = "serving" \/ ending[p]
    /\ ending[p] => pc[p] \in Leaving \cup {"over", "dead"}
    /\ p \notin sig /\ pc[p] \in Over \cup {"dead"} => cur[p] = "none" /\ RestartsOver(p)
    /\ cur[p] # "none" \/ new[p] # "none" \/ cleaning[p] > 0 => at[p] # 0
    /\ p \in alive \ sig => Served(p)
\* Every restart under way is counted.
Counted ==
  \A p \in Start : cleaning[p] + (IF new[p] = "none" THEN 0 ELSE 1) <= restarts

\* While no start of the folder was killed on its way: the one that has it knows from its
\* first look whether a canvas had run there, and whether it did itself.
Told ==
  \A f \in Folder : tidy[f] =>
    /\ lock[f] = None => traces[f] = ran[f]
    /\ lock[f] # None =>
         /\ lock[f] \in alive
         /\ ran[f] <=> (served[lock[f]] \/ ~first[lock[f]])
         /\ ran[f] => traces[f]
         /\ pc[lock[f]] \in {"listening", "publishing", "finishing", "serving"} => traces[f]
         /\ pc[lock[f]] = "lock" => traces[f] = ran[f]

IInv ==
  /\ TypeOK /\ Running /\ Locked /\ Published /\ InSlot
  /\ Sockets /\ Restarted /\ Counted /\ Told
-----------------------------------------------------------------------------
\* No start has begun, and no file names one.
LEMMA Initially == Init => IInv
<1> SUFFICES ASSUME Init PROVE IInv
  OBVIOUS
<1> USE StartAssumption, PlacementsAssumption, SlotAssumption, LimitsAssumption
        DEF Init, NoClaim, RestartsOver
<1>1. TypeOK
  BY DEF TypeOK, Leaving, Returning
<1>2. Running /\ Locked /\ Published
  BY DEF Running, Locked, Published
<1>3. InSlot
  BY DEF InSlot, Placed, Slotted
<1>4. Sockets /\ Restarted
  BY DEF Sockets, Restarted, Served, Bare, Over, Leaving, Returning
<1>5. Counted /\ Told
  BY DEF Counted, Told
<1> QED
  BY <1>1, <1>2, <1>3, <1>4, <1>5 DEF IInv

-----------------------------------------------------------------------------
(* Types, in the parts that steps change together. *)
Named ==
  /\ folder \in [Start -> Folder] /\ sig \subseteq alive /\ alive \subseteq Start
  /\ lock \in [Folder -> Start \cup {None}] /\ info \in [Folder -> Start \cup {None}]
  /\ traces \in [Folder -> BOOLEAN] /\ ran \in [Folder -> BOOLEAN] /\ tidy \in [Folder -> BOOLEAN]
  /\ port \in [Slot -> Start \cup {None, Other}]
Claim == [by : Start, state : {"starting", "ready", "closing"}] \cup {NoClaim}
Claimed == slot \in [Slot -> Claim]
Where == {"unborn", "locking", "placing", "checking", "building", "listening", "publishing",
          "finishing", "serving", "over", "dead"} \cup Leaving
Stands ==
  /\ pc \in [Start -> Where]
  /\ tried \in [Start -> SUBSET Slot] /\ at \in [Start -> Slot \cup {0}]
  /\ \A p \in Start : at[p] \notin tried[p]
Flags ==
  /\ first \in [Start -> BOOLEAN] /\ served \in [Start -> BOOLEAN]
  /\ late \in [Start -> BOOLEAN] /\ ending \in [Start -> BOOLEAN]
Servers ==
  /\ cur \in [Start -> {"none", "made", "bound"}]
  /\ new \in [Start -> {"none", "making", "closing", "asked"}]
Counts ==
  /\ cleaning \in [Start -> 0 .. MaxRestarts]
  /\ others \in 0 .. MaxOthers /\ restarts \in 0 .. MaxRestarts

\* TypeOK is these parts.
LEMMA TypeParts == TypeOK <=> Named /\ Claimed /\ Stands /\ Flags /\ Servers /\ Counts
BY DEF TypeOK, Named, Claimed, Claim, Where, Stands, Flags, Servers, Counts

\* No step leaves the names in locks, infos and ports undefined.
LEMMA NamedKept == Named /\ [Next]_vars => Named'
<1> SUFFICES ASSUME Named, [Next]_vars PROVE Named'
  OBVIOUS
<1> USE DEF Named, Goto, At, files, place, server, history, counters
<1>1. ASSUME NEW p \in Start, Begins(p) \/ Locks(p) PROVE Named'
  BY <1>1 DEF Begins, Locks
<1>2. ASSUME NEW p \in Start, Places(p) \/ ChecksPort(p) PROVE Named'
  BY <1>2 DEF Places, ChecksPort
<1>3. ASSUME NEW p \in Start, Builds(p) \/ Listens(p) PROVE Named'
  BY <1>3 DEF Builds, Listens
<1>4. ASSUME NEW p \in Start, Publishes(p) PROVE Named'
  BY <1>4 DEF Publishes
<1>5. ASSUME NEW p \in Start, Serves(p) PROVE Named'
  BY <1>5 DEF Serves
<1>6. ASSUME NEW p \in Start, Restarts(p) \/ MakeFails(p) \/ Made(p) PROVE Named'
  BY <1>6 DEF Restarts, MakeFails, Made, Restarting, Drop
<1>7. ASSUME NEW p \in Start, OldCloses(p) \/ NewBinds(p) \/ NewFails(p) PROVE Named'
  BY <1>7 DEF OldCloses, NewBinds, NewFails, Restarting, Drop, Closing
<1>8. ASSUME NEW p \in Start, Disposes(p) \/ CloseAsked(p) \/ Closes(p) PROVE Named'
  BY <1>8 DEF Disposes, CloseAsked, Closes, Closing
<1>9. ASSUME NEW p \in Start, Awaits(p) \/ ReturnsInfo(p) \/ ReturnsSlot(p) PROVE Named'
  BY <1>9 DEF Awaits, ReturnsInfo, ReturnsSlot, Returns
<1>10. ASSUME NEW p \in Start, ReturnsTraces(p) \/ ReturnsLock(p) PROVE Named'
  BY <1>10 DEF ReturnsTraces, ReturnsLock, Returns
<1>11. ASSUME NEW p \in Start, Signal(p) PROVE Named'
  BY <1>11 DEF Signal
<1>12. ASSUME NEW p \in Start, Dies(p) PROVE Named'
  BY <1>12 DEF Dies
<1>13. ASSUME NEW n \in Slot, OtherTakes(n) \/ OtherLeaves(n) PROVE Named'
  BY <1>13 DEF OtherTakes, OtherLeaves
<1>14. CASE UNCHANGED vars
  BY <1>14 DEF vars
<1> QED
  BY <1>1, <1>2, <1>3, <1>4, <1>5, <1>6, <1>7, <1>8, <1>9, <1>10, <1>11, <1>12, <1>13, <1>14
     DEF Next, Starting, RestartSteps, Ending

\* No step leaves a start nowhere; a slot it tried is not the one it is in.
LEMMA StandsKept == Stands /\ InSlot /\ [Next]_vars => Stands'
<1> SUFFICES ASSUME Stands, InSlot, [Next]_vars PROVE Stands'
  OBVIOUS
<1> USE SlotAssumption
        DEF Stands, Where, Leaving, Returning, Goto, At, files, place, server, history, counters
<1>1. ASSUME NEW p \in Start, Begins(p) \/ Locks(p) PROVE Stands'
  BY <1>1 DEF Begins, Locks
<1>2. ASSUME NEW p \in Start, Places(p) PROVE Stands'
  BY <1>2 DEF Places, InSlot
<1>3. ASSUME NEW p \in Start, ChecksPort(p) PROVE Stands'
  <2>1. /\ pc' \in [Start -> Where] /\ tried' \in [Start -> SUBSET Slot]
        /\ at' \in [Start -> Slot \cup {0}]
    BY <1>3 DEF ChecksPort, InSlot, Placed
  <2>2. ASSUME NEW q \in Start PROVE at'[q] \notin tried'[q]
    <3>1. CASE q = p
      <4>1. 0 \notin tried'[p]
        BY <2>1
      <4>2. at'[p] = 0 \/ (at'[p] = at[p] /\ tried'[p] = tried[p])
        BY <1>3 DEF ChecksPort
      <4> QED
        BY <3>1, <4>1, <4>2
    <3>2. CASE q # p
      BY <1>3, <3>2 DEF ChecksPort
    <3> QED
      BY <3>1, <3>2
  <2> QED
    BY <2>1, <2>2
<1>4. ASSUME NEW p \in Start, Builds(p) \/ Listens(p) PROVE Stands'
  BY <1>4 DEF Builds, Listens
<1>5. ASSUME NEW p \in Start, Publishes(p) \/ Serves(p) PROVE Stands'
  BY <1>5 DEF Publishes, Serves
<1>6. ASSUME NEW p \in Start, Restarts(p) \/ MakeFails(p) \/ Made(p) PROVE Stands'
  BY <1>6 DEF Restarts, MakeFails, Made, Restarting, Drop
<1>7. ASSUME NEW p \in Start, OldCloses(p) \/ NewBinds(p) \/ NewFails(p) PROVE Stands'
  BY <1>7 DEF OldCloses, NewBinds, NewFails, Restarting, Drop, Closing
<1>8. ASSUME NEW p \in Start, Disposes(p) \/ CloseAsked(p) \/ Closes(p) PROVE Stands'
  BY <1>8 DEF Disposes, CloseAsked, Closes, Closing
<1>9. ASSUME NEW p \in Start, Awaits(p) \/ ReturnsInfo(p) \/ ReturnsSlot(p) PROVE Stands'
  BY <1>9 DEF Awaits, ReturnsInfo, ReturnsSlot, Returns
<1>10. ASSUME NEW p \in Start, ReturnsTraces(p) \/ ReturnsLock(p) PROVE Stands'
  BY <1>10 DEF ReturnsTraces, ReturnsLock, Returns
<1>11. ASSUME NEW p \in Start, Signal(p) \/ Dies(p) PROVE Stands'
  BY <1>11 DEF Signal, Dies
<1>12. ASSUME NEW n \in Slot, OtherTakes(n) \/ OtherLeaves(n) PROVE Stands'
  BY <1>12 DEF OtherTakes, OtherLeaves
<1>13. CASE UNCHANGED vars
  BY <1>13 DEF vars
<1> QED
  BY <1>1, <1>2, <1>3, <1>4, <1>5, <1>6, <1>7, <1>8, <1>9, <1>10, <1>11, <1>12, <1>13
     DEF Next, Starting, RestartSteps, Ending

\* What a start remembers stays a yes or a no.
LEMMA FlagsKept == Flags /\ Named /\ [Next]_vars => Flags'
<1> SUFFICES ASSUME Flags, Named, [Next]_vars PROVE Flags'
  OBVIOUS
<1> USE DEF Flags, Named, Goto, At, files, place, server, history, counters
<1>1. ASSUME NEW p \in Start, Begins(p) \/ Locks(p) PROVE Flags'
  BY <1>1 DEF Begins, Locks
<1>2. ASSUME NEW p \in Start, Places(p) \/ ChecksPort(p) PROVE Flags'
  BY <1>2 DEF Places, ChecksPort
<1>3. ASSUME NEW p \in Start, Builds(p) \/ Listens(p) PROVE Flags'
  BY <1>3 DEF Builds, Listens
<1>4. ASSUME NEW p \in Start, Publishes(p) \/ Serves(p) PROVE Flags'
  BY <1>4 DEF Publishes, Serves
<1>5. ASSUME NEW p \in Start, Restarts(p) \/ MakeFails(p) \/ Made(p) PROVE Flags'
  BY <1>5 DEF Restarts, MakeFails, Made, Restarting, Drop
<1>6. ASSUME NEW p \in Start, OldCloses(p) \/ NewBinds(p) \/ NewFails(p) PROVE Flags'
  BY <1>6, ZenonT(30) DEF OldCloses, NewBinds, NewFails, Restarting, Drop, Closing
<1>7. ASSUME NEW p \in Start, Disposes(p) \/ CloseAsked(p) \/ Closes(p) PROVE Flags'
  BY <1>7 DEF Disposes, CloseAsked, Closes, Closing
<1>8. ASSUME NEW p \in Start, Awaits(p) \/ ReturnsInfo(p) \/ ReturnsSlot(p) PROVE Flags'
  BY <1>8 DEF Awaits, ReturnsInfo, ReturnsSlot, Returns
<1>9. ASSUME NEW p \in Start, ReturnsTraces(p) \/ ReturnsLock(p) PROVE Flags'
  BY <1>9 DEF ReturnsTraces, ReturnsLock, Returns
<1>10. ASSUME NEW p \in Start, Signal(p) \/ Dies(p) PROVE Flags'
  BY <1>10, ZenonT(30) DEF Signal, Dies
<1>11. ASSUME NEW n \in Slot, OtherTakes(n) \/ OtherLeaves(n) PROVE Flags'
  BY <1>11 DEF OtherTakes, OtherLeaves
<1>12. CASE UNCHANGED vars
  BY <1>12 DEF vars
<1> QED
  BY <1>1, <1>2, <1>3, <1>4, <1>5, <1>6, <1>7, <1>8, <1>9, <1>10, <1>11, <1>12
     DEF Next, Starting, RestartSteps, Ending

\* The servers of a start stay in the states a server has.
LEMMA ServersKept == Servers /\ [Next]_vars => Servers'
<1> SUFFICES ASSUME Servers, [Next]_vars PROVE Servers'
  OBVIOUS
<1> USE DEF Servers, Goto, At, files, place, server, history, counters
<1>1. ASSUME NEW p \in Start, Begins(p) \/ Locks(p) PROVE Servers'
  BY <1>1 DEF Begins, Locks
<1>2. ASSUME NEW p \in Start, Places(p) \/ ChecksPort(p) PROVE Servers'
  BY <1>2 DEF Places, ChecksPort
<1>3. ASSUME NEW p \in Start, Builds(p) \/ Listens(p) PROVE Servers'
  BY <1>3 DEF Builds, Listens
<1>4. ASSUME NEW p \in Start, Publishes(p) \/ Serves(p) PROVE Servers'
  BY <1>4 DEF Publishes, Serves
<1>5. ASSUME NEW p \in Start, Restarts(p) \/ MakeFails(p) \/ Made(p) PROVE Servers'
  BY <1>5 DEF Restarts, MakeFails, Made, Restarting, Drop
<1>6. ASSUME NEW p \in Start, OldCloses(p) \/ NewBinds(p) \/ NewFails(p) PROVE Servers'
  BY <1>6 DEF OldCloses, NewBinds, NewFails, Restarting, Drop, Closing
<1>7. ASSUME NEW p \in Start, Disposes(p) \/ CloseAsked(p) \/ Closes(p) PROVE Servers'
  BY <1>7 DEF Disposes, CloseAsked, Closes, Closing
<1>8. ASSUME NEW p \in Start, Awaits(p) \/ ReturnsInfo(p) \/ ReturnsSlot(p) PROVE Servers'
  BY <1>8 DEF Awaits, ReturnsInfo, ReturnsSlot, Returns
<1>9. ASSUME NEW p \in Start, ReturnsTraces(p) \/ ReturnsLock(p) PROVE Servers'
  BY <1>9 DEF ReturnsTraces, ReturnsLock, Returns
<1>10. ASSUME NEW p \in Start, Signal(p) \/ Dies(p) PROVE Servers'
  BY <1>10 DEF Signal, Dies
<1>11. ASSUME NEW n \in Slot, OtherTakes(n) \/ OtherLeaves(n) PROVE Servers'
  BY <1>11 DEF OtherTakes, OtherLeaves
<1>12. CASE UNCHANGED vars
  BY <1>12 DEF vars
<1> QED
  BY <1>1, <1>2, <1>3, <1>4, <1>5, <1>6, <1>7, <1>8, <1>9, <1>10, <1>11, <1>12
     DEF Next, Starting, RestartSteps, Ending

\* Every claim on a slot stays one by a start, or none.
LEMMA ClaimedKept == Claimed /\ Named /\ [Next]_vars => Claimed'
<1> SUFFICES ASSUME Claimed, Named, [Next]_vars PROVE Claimed'
  OBVIOUS
<1> USE DEF Claimed, Claim, NoClaim, Named, Goto, At, files, place, server, history, counters
<1>1. ASSUME NEW p \in Start, Begins(p) \/ Locks(p) PROVE Claimed'
  BY <1>1 DEF Begins, Locks
<1>2. ASSUME NEW p \in Start, Places(p) \/ ChecksPort(p) PROVE Claimed'
  BY <1>2 DEF Places, ChecksPort
<1>3. ASSUME NEW p \in Start, Builds(p) \/ Listens(p) PROVE Claimed'
  BY <1>3 DEF Builds, Listens, Rewrites
<1>4. ASSUME NEW p \in Start, Publishes(p) \/ Serves(p) PROVE Claimed'
  BY <1>4 DEF Publishes, Serves, Rewrites
<1>5. ASSUME NEW p \in Start, Restarts(p) \/ MakeFails(p) \/ Made(p) PROVE Claimed'
  BY <1>5 DEF Restarts, MakeFails, Made, Restarting, Drop
<1>6. ASSUME NEW p \in Start, OldCloses(p) \/ NewBinds(p) \/ NewFails(p) PROVE Claimed'
  BY <1>6 DEF OldCloses, NewBinds, NewFails, Restarting, Drop, Closing, Rewrites
<1>7. ASSUME NEW p \in Start, Disposes(p) \/ CloseAsked(p) \/ Closes(p) PROVE Claimed'
  BY <1>7 DEF Disposes, CloseAsked, Closes, Closing, Rewrites
<1>8. ASSUME NEW p \in Start, Awaits(p) \/ ReturnsInfo(p) \/ ReturnsSlot(p) PROVE Claimed'
  BY <1>8 DEF Awaits, ReturnsInfo, ReturnsSlot, Returns
<1>9. ASSUME NEW p \in Start, ReturnsTraces(p) \/ ReturnsLock(p) PROVE Claimed'
  BY <1>9 DEF ReturnsTraces, ReturnsLock, Returns
<1>10. ASSUME NEW p \in Start, Signal(p) \/ Dies(p) PROVE Claimed'
  BY <1>10 DEF Signal, Dies
<1>11. ASSUME NEW n \in Slot, OtherTakes(n) \/ OtherLeaves(n) PROVE Claimed'
  BY <1>11 DEF OtherTakes, OtherLeaves
<1>12. CASE UNCHANGED vars
  BY <1>12 DEF vars
<1> QED
  BY <1>1, <1>2, <1>3, <1>4, <1>5, <1>6, <1>7, <1>8, <1>9, <1>10, <1>11, <1>12
     DEF Next, Starting, RestartSteps, Ending

\* The counters stay inside their bounds, as every restart under way is counted.
LEMMA CountsKept == Counts /\ Counted /\ [Next]_vars => Counts'
<1> SUFFICES ASSUME Counts, Counted, [Next]_vars PROVE Counts'
  OBVIOUS
<1> USE LimitsAssumption DEF Counts, Counted, Goto, At, files, place, server, history, counters
<1>1. ASSUME NEW p \in Start, Begins(p) \/ Locks(p) PROVE Counts'
  BY <1>1 DEF Begins, Locks
<1>2. ASSUME NEW p \in Start, Places(p) \/ ChecksPort(p) PROVE Counts'
  BY <1>2 DEF Places, ChecksPort
<1>3. ASSUME NEW p \in Start, Builds(p) \/ Listens(p) PROVE Counts'
  BY <1>3 DEF Builds, Listens
<1>4. ASSUME NEW p \in Start, Publishes(p) \/ Serves(p) PROVE Counts'
  BY <1>4 DEF Publishes, Serves
<1>5. ASSUME NEW p \in Start, Restarts(p) \/ MakeFails(p) \/ Made(p) PROVE Counts'
  BY <1>5 DEF Restarts, MakeFails, Made, Restarting, Drop
<1>6. ASSUME NEW p \in Start, OldCloses(p) \/ NewBinds(p) \/ NewFails(p) PROVE Counts'
  BY <1>6 DEF OldCloses, NewBinds, NewFails, Restarting, Drop, Closing
<1>7. ASSUME NEW p \in Start, Disposes(p) \/ CloseAsked(p) \/ Closes(p) PROVE Counts'
  BY <1>7 DEF Disposes, CloseAsked, Closes, Closing
<1>8. ASSUME NEW p \in Start, Awaits(p) \/ ReturnsInfo(p) \/ ReturnsSlot(p) PROVE Counts'
  BY <1>8 DEF Awaits, ReturnsInfo, ReturnsSlot, Returns
<1>9. ASSUME NEW p \in Start, ReturnsTraces(p) \/ ReturnsLock(p) PROVE Counts'
  BY <1>9 DEF ReturnsTraces, ReturnsLock, Returns
<1>10. ASSUME NEW p \in Start, Signal(p) \/ Dies(p) PROVE Counts'
  BY <1>10 DEF Signal, Dies
<1>11. ASSUME NEW n \in Slot, OtherTakes(n) \/ OtherLeaves(n) PROVE Counts'
  BY <1>11 DEF OtherTakes, OtherLeaves
<1>12. CASE UNCHANGED vars
  BY <1>12 DEF vars
<1> QED
  BY <1>1, <1>2, <1>3, <1>4, <1>5, <1>6, <1>7, <1>8, <1>9, <1>10, <1>11, <1>12
     DEF Next, Starting, RestartSteps, Ending

\* Every step keeps the types.
LEMMA TypeKept == TypeOK /\ InSlot /\ Counted /\ [Next]_vars => TypeOK'
BY TypeParts, NamedKept, StandsKept, FlagsKept, ServersKept, ClaimedKept, CountsKept, PTL

-----------------------------------------------------------------------------
(* Who runs, and who is named *)

LEMMA RunningKept == Named /\ Stands /\ Flags /\ Running /\ [Next]_vars => Running'
<1> SUFFICES ASSUME Named, Stands, Flags, Running, [Next]_vars PROVE Running'
  OBVIOUS
<1> USE DEF Named, Stands, Flags, Running, Where, Leaving, Returning, Goto, At, files, place,
            server, history, counters
<1>1. ASSUME NEW p \in Start, Begins(p) \/ Locks(p) PROVE Running'
  BY <1>1 DEF Begins, Locks
<1>2. ASSUME NEW p \in Start, Places(p) \/ ChecksPort(p) PROVE Running'
  BY <1>2 DEF Places, ChecksPort
<1>3. ASSUME NEW p \in Start, Builds(p) \/ Listens(p) PROVE Running'
  BY <1>3 DEF Builds, Listens
<1>4. ASSUME NEW p \in Start, Publishes(p) \/ Serves(p) PROVE Running'
  BY <1>4 DEF Publishes, Serves
<1>5. ASSUME NEW p \in Start, Restarts(p) \/ MakeFails(p) \/ Made(p) PROVE Running'
  BY <1>5 DEF Restarts, MakeFails, Made, Restarting, Drop
<1>6. ASSUME NEW p \in Start, OldCloses(p) \/ NewBinds(p) \/ NewFails(p) PROVE Running'
  BY <1>6 DEF OldCloses, NewBinds, NewFails, Restarting, Drop, Closing
<1>7. ASSUME NEW p \in Start, Disposes(p) \/ CloseAsked(p) \/ Closes(p) PROVE Running'
  BY <1>7 DEF Disposes, CloseAsked, Closes, Closing
<1>8. ASSUME NEW p \in Start, Awaits(p) \/ ReturnsInfo(p) \/ ReturnsSlot(p) PROVE Running'
  BY <1>8 DEF Awaits, ReturnsInfo, ReturnsSlot, Returns
<1>9. ASSUME NEW p \in Start, ReturnsTraces(p) \/ ReturnsLock(p) PROVE Running'
  BY <1>9 DEF ReturnsTraces, ReturnsLock, Returns
<1>10. ASSUME NEW p \in Start, Signal(p) \/ Dies(p) PROVE Running'
  BY <1>10 DEF Signal, Dies
<1>11. ASSUME NEW n \in Slot, OtherTakes(n) \/ OtherLeaves(n) PROVE Running'
  BY <1>11 DEF OtherTakes, OtherLeaves
<1>12. CASE UNCHANGED vars
  BY <1>12 DEF vars
<1> QED
  BY <1>1, <1>2, <1>3, <1>4, <1>5, <1>6, <1>7, <1>8, <1>9, <1>10, <1>11, <1>12
     DEF Next, Starting, RestartSteps, Ending

\* A folder's lock stays with the live start that took it, until that start lets it go.
LEMMA LockedKept == Named /\ Stands /\ Running /\ Restarted /\ Locked /\ [Next]_vars => Locked'
<1> SUFFICES ASSUME Named, Stands, Running, Restarted, Locked, [Next]_vars PROVE Locked'
  OBVIOUS
<1> USE StartAssumption
        DEF Named, Stands, Running, Locked, Where, Leaving, Returning, Having, Slotted, Placed,
            Takeable, Goto, At, files, place, server, history, counters
<1>1. ASSUME NEW p \in Start, Begins(p) \/ Locks(p) PROVE Locked'
  BY <1>1 DEF Begins, Locks
<1>2. ASSUME NEW p \in Start, Places(p) \/ ChecksPort(p) PROVE Locked'
  BY <1>2 DEF Places, ChecksPort
<1>3. ASSUME NEW p \in Start, Builds(p) \/ Listens(p) PROVE Locked'
  BY <1>3 DEF Builds, Listens
<1>4. ASSUME NEW p \in Start, Publishes(p) \/ Serves(p) PROVE Locked'
  BY <1>4 DEF Publishes, Serves
<1>5. ASSUME NEW p \in Start, Restarts(p) \/ MakeFails(p) \/ Made(p) PROVE Locked'
  BY <1>5 DEF Restarts, MakeFails, Made, Restarting, Drop
<1>6. ASSUME NEW p \in Start, OldCloses(p) \/ NewBinds(p) PROVE Locked'
  BY <1>6 DEF OldCloses, NewBinds, Restarting, Drop
<1>7. ASSUME NEW p \in Start, NewFails(p) PROVE Locked'
  BY <1>7 DEF NewFails, Restarting, Drop, Closing, Restarted
<1>8. ASSUME NEW p \in Start, Disposes(p) \/ CloseAsked(p) \/ Closes(p) PROVE Locked'
  BY <1>8 DEF Disposes, CloseAsked, Closes, Closing
<1>9. ASSUME NEW p \in Start, Awaits(p) \/ ReturnsInfo(p) \/ ReturnsSlot(p) PROVE Locked'
  BY <1>9 DEF Awaits, ReturnsInfo, ReturnsSlot, Returns
<1>10. ASSUME NEW p \in Start, ReturnsTraces(p) \/ ReturnsLock(p) PROVE Locked'
  BY <1>10 DEF ReturnsTraces, ReturnsLock, Returns
<1>11. ASSUME NEW p \in Start, Signal(p) \/ Dies(p) PROVE Locked'
  BY <1>11 DEF Signal, Dies
<1>12. ASSUME NEW n \in Slot, OtherTakes(n) \/ OtherLeaves(n) PROVE Locked'
  BY <1>12 DEF OtherTakes, OtherLeaves
<1>13. CASE UNCHANGED vars
  BY <1>13 DEF vars
<1> QED
  BY <1>1, <1>2, <1>3, <1>4, <1>5, <1>6, <1>7, <1>8, <1>9, <1>10, <1>11, <1>12, <1>13
     DEF Next, Starting, RestartSteps, Ending

\* What the info file names stays the start that published it, or one that died.
LEMMA PublishedKept == Named /\ Stands /\ Running /\ Published /\ [Next]_vars => Published'
<1> SUFFICES ASSUME Named, Stands, Running, Published, [Next]_vars PROVE Published'
  OBVIOUS
<1> USE StartAssumption
        DEF Named, Stands, Running, Published, Where, Leaving, Returning, Goto, At, files, place,
            server, history, counters
<1>1. ASSUME NEW p \in Start, Begins(p) \/ Locks(p) PROVE Published'
  BY <1>1 DEF Begins, Locks
<1>2. ASSUME NEW p \in Start, Places(p) \/ ChecksPort(p) PROVE Published'
  BY <1>2 DEF Places, ChecksPort
<1>3. ASSUME NEW p \in Start, Builds(p) \/ Listens(p) PROVE Published'
  BY <1>3 DEF Builds, Listens
<1>4. ASSUME NEW p \in Start, Publishes(p) \/ Serves(p) PROVE Published'
  BY <1>4 DEF Publishes, Serves
<1>5. ASSUME NEW p \in Start, Restarts(p) \/ MakeFails(p) \/ Made(p) PROVE Published'
  BY <1>5 DEF Restarts, MakeFails, Made, Restarting, Drop
<1>6. ASSUME NEW p \in Start, OldCloses(p) \/ NewBinds(p) \/ NewFails(p) PROVE Published'
  BY <1>6 DEF OldCloses, NewBinds, NewFails, Restarting, Drop, Closing
<1>7. ASSUME NEW p \in Start, Disposes(p) \/ CloseAsked(p) \/ Closes(p) PROVE Published'
  BY <1>7 DEF Disposes, CloseAsked, Closes, Closing
<1>8. ASSUME NEW p \in Start, Awaits(p) \/ ReturnsInfo(p) \/ ReturnsSlot(p) PROVE Published'
  BY <1>8 DEF Awaits, ReturnsInfo, ReturnsSlot, Returns
<1>9. ASSUME NEW p \in Start, ReturnsTraces(p) \/ ReturnsLock(p) PROVE Published'
  BY <1>9 DEF ReturnsTraces, ReturnsLock, Returns
<1>10. ASSUME NEW p \in Start, Signal(p) \/ Dies(p) PROVE Published'
  BY <1>10 DEF Signal, Dies
<1>11. ASSUME NEW n \in Slot, OtherTakes(n) \/ OtherLeaves(n) PROVE Published'
  BY <1>11 DEF OtherTakes, OtherLeaves
<1>12. CASE UNCHANGED vars
  BY <1>12 DEF vars
<1> QED
  BY <1>1, <1>2, <1>3, <1>4, <1>5, <1>6, <1>7, <1>8, <1>9, <1>10, <1>11, <1>12
     DEF Next, Starting, RestartSteps, Ending

\* A restart that begins is counted, and one that ends is not counted again.
LEMMA CountedKept == Stands /\ Servers /\ Counts /\ Counted /\ [Next]_vars => Counted'
<1> SUFFICES ASSUME Stands, Servers, Counts, Counted, [Next]_vars PROVE Counted'
  OBVIOUS
<1> USE LimitsAssumption
        DEF Stands, Servers, Counts, Counted, Goto, At, files, place, server, history, counters
<1>1. ASSUME NEW p \in Start, Begins(p) \/ Locks(p) PROVE Counted'
  BY <1>1 DEF Begins, Locks
<1>2. ASSUME NEW p \in Start, Places(p) \/ ChecksPort(p) PROVE Counted'
  BY <1>2 DEF Places, ChecksPort
<1>3. ASSUME NEW p \in Start, Builds(p) \/ Listens(p) PROVE Counted'
  BY <1>3 DEF Builds, Listens
<1>4. ASSUME NEW p \in Start, Publishes(p) \/ Serves(p) PROVE Counted'
  BY <1>4 DEF Publishes, Serves
<1>5. ASSUME NEW p \in Start, Restarts(p) \/ MakeFails(p) \/ Made(p) PROVE Counted'
  BY <1>5 DEF Restarts, MakeFails, Made, Restarting, Drop
<1>6. ASSUME NEW p \in Start, OldCloses(p) \/ NewBinds(p) \/ NewFails(p) PROVE Counted'
  BY <1>6 DEF OldCloses, NewBinds, NewFails, Restarting, Drop, Closing
<1>7. ASSUME NEW p \in Start, Disposes(p) \/ CloseAsked(p) \/ Closes(p) PROVE Counted'
  BY <1>7 DEF Disposes, CloseAsked, Closes, Closing
<1>8. ASSUME NEW p \in Start, Awaits(p) \/ ReturnsInfo(p) \/ ReturnsSlot(p) PROVE Counted'
  BY <1>8 DEF Awaits, ReturnsInfo, ReturnsSlot, Returns
<1>9. ASSUME NEW p \in Start, ReturnsTraces(p) \/ ReturnsLock(p) PROVE Counted'
  BY <1>9 DEF ReturnsTraces, ReturnsLock, Returns
<1>10. ASSUME NEW p \in Start, Signal(p) \/ Dies(p) PROVE Counted'
  BY <1>10 DEF Signal, Dies
<1>11. ASSUME NEW n \in Slot, OtherTakes(n) \/ OtherLeaves(n) PROVE Counted'
  BY <1>11 DEF OtherTakes, OtherLeaves
<1>12. CASE UNCHANGED vars
  BY <1>12 DEF vars
<1> QED
  BY <1>1, <1>2, <1>3, <1>4, <1>5, <1>6, <1>7, <1>8, <1>9, <1>10, <1>11, <1>12
     DEF Next, Starting, RestartSteps, Ending

\* A slot's claim and the start that made it stay in step, whatever the sweep and the ends of
\* others do.
LEMMA InSlotKept ==
  Named /\ Claimed /\ Stands /\ Running /\ Restarted /\ InSlot /\ [Next]_vars
    => InSlot'
<1> SUFFICES ASSUME Named, Claimed, Stands, Running, Restarted, InSlot, [Next]_vars PROVE InSlot'
  OBVIOUS
<1> USE StartAssumption, SlotAssumption
        DEF Named, Claimed, Claim, NoClaim, Stands, Running, InSlot, Where, Leaving, Returning,
            Having, Slotted, Placed, Takeable, Goto, At, files, place, server, history, counters
<1>1. ASSUME NEW p \in Start, Begins(p) \/ Locks(p) PROVE InSlot'
  BY <1>1 DEF Begins, Locks
<1>2. ASSUME NEW p \in Start, Places(p) PROVE InSlot'
  BY <1>2, SMTT(30) DEF Places
<1>3. ASSUME NEW p \in Start, ChecksPort(p) PROVE InSlot'
  BY <1>3, SMTT(30) DEF ChecksPort
<1>4. ASSUME NEW p \in Start, Builds(p) PROVE InSlot'
  BY <1>4, SMTT(30) DEF Builds, Rewrites
<1>5. ASSUME NEW p \in Start, Listens(p) PROVE InSlot'
  BY <1>5 DEF Listens, Rewrites
<1>6. ASSUME NEW p \in Start, Publishes(p) PROVE InSlot'
  BY <1>6, SMTT(30) DEF Publishes, Rewrites
<1>7. ASSUME NEW p \in Start, Serves(p) PROVE InSlot'
  <2>1. at[p] \in Slot /\ slot[at[p]].by = p
    BY <1>7 DEF Serves
  <2>2. slot'[at[p]] = slot[at[p]] \/ slot'[at[p]] = [by |-> p, state |-> "closing"]
    BY <1>7, <2>1 DEF Serves, Rewrites
  <2>3. ~(slot'[at[p]].state = "ready" /\ pc'[p] = "ending")
    BY <1>7, <2>1, <2>2 DEF Serves, Rewrites
  <2>4. \A n \in Slot \ {at[p]} : slot'[n] = slot[n]
    BY <1>7 DEF Serves, Rewrites
  <2>5. pc'[p] \in {"serving", "ending"} /\ \A q \in Start \ {p} : pc'[q] = pc[q]
    BY <1>7 DEF Serves
  <2>6. UNCHANGED <<at, alive, sig>>
    BY <1>7 DEF Serves
  <2>7. pc[p] \in {"finishing", "serving"} /\ p \in alive
    BY <1>7 DEF Serves
  <2>8. slot'[at[p]].by = p
    BY <2>1, <2>2
  <2>9. ASSUME NEW n \in Slot
        PROVE  /\ slot'[n].by = slot[n].by
               /\ slot'[n].state = "ready" => n = at[p] \/ slot[n].state = "ready"
    BY <2>1, <2>4, <2>8
  <2>10. \A n \in Slot : slot'[n].by # None =>
           /\ pc'[slot[n].by] # "unborn"
           /\ slot[n].by \in alive => pc'[slot[n].by] \in Slotted /\ at[slot[n].by] = n
    BY <2>5, <2>7, <2>9
  <2>11. \A n \in Slot : slot'[n].state = "ready" /\ slot'[n].by \in alive \ sig =>
           pc'[slot'[n].by] \in {"finishing", "serving"}
    <3> SUFFICES ASSUME NEW n \in Slot, slot'[n].state = "ready", slot'[n].by \in alive \ sig
                 PROVE  pc'[slot'[n].by] \in {"finishing", "serving"}
      OBVIOUS
    <3>1. CASE n = at[p]
      BY <3>1, <2>3, <2>5, <2>8
    <3>2. CASE n # at[p]
      <4>1. slot[n].by # p /\ slot'[n] = slot[n] /\ slot[n].by \in Start
        <5>1. slot'[n] = slot[n]
          BY <3>2, <2>4
        <5>2. slot[n].by \in Start /\ slot[n].by # None
          BY <5>1
        <5>3. slot[n].by = p => at[p] = n
          BY <5>2, <2>7
        <5> QED
          BY <3>2, <5>1, <5>2, <5>3
      <4>2. pc[slot[n].by] \in {"finishing", "serving"}
        BY <4>1
      <4>3. pc'[slot[n].by] = pc[slot[n].by]
        BY <4>1, <2>5
      <4> QED
        BY <4>1, <4>2, <4>3
    <3> QED
      BY <3>1, <3>2
  <2>12. \A q \in Start :
           /\ pc'[q] \in {"unborn", "locking", "placing"} => at[q] = 0
           /\ q \in alive /\ pc'[q] \in Slotted /\ at[q] # 0 => slot'[at[q]].by = q
           /\ pc'[q] \in Placed => at[q] # 0
    <3> SUFFICES ASSUME NEW q \in Start
                 PROVE  /\ pc'[q] \in {"unborn", "locking", "placing"} => at[q] = 0
                        /\ q \in alive /\ pc'[q] \in Slotted /\ at[q] # 0 => slot'[at[q]].by = q
                        /\ pc'[q] \in Placed => at[q] # 0
      OBVIOUS
    <3>1. CASE q = p
      BY <3>1, <2>1, <2>5, <2>8
    <3>2. CASE q # p
      <4>1. pc'[q] = pc[q]
        BY <3>2, <2>5
      <4>2. ASSUME q \in alive, pc[q] \in Slotted, at[q] # 0 PROVE slot'[at[q]].by = q
        <5>1. at[q] \in Slot /\ slot[at[q]].by = q
          BY <4>2
        <5> QED
          BY <5>1, <2>9
      <4> QED
        BY <4>1, <4>2
    <3> QED
      BY <3>1, <3>2
  <2> QED
    BY <2>6, <2>9, <2>10, <2>11, <2>12
<1>8. ASSUME NEW p \in Start, Restarts(p) \/ MakeFails(p) \/ Made(p) PROVE InSlot'
  BY <1>8 DEF Restarts, MakeFails, Made, Restarting, Drop
<1>9. ASSUME NEW p \in Start, OldCloses(p) \/ NewBinds(p) PROVE InSlot'
  BY <1>9 DEF OldCloses, NewBinds, Restarting, Drop
<1>10. ASSUME NEW p \in Start, NewFails(p) PROVE InSlot'
  BY <1>10, SMTT(30) DEF NewFails, Restarting, Drop, Closing, Rewrites, Restarted
<1>11. ASSUME NEW p \in Start, Disposes(p) \/ Closes(p) PROVE InSlot'
  BY <1>11 DEF Disposes, Closes
<1>12. ASSUME NEW p \in Start, CloseAsked(p) PROVE InSlot'
  <2>1. at[p] \in Slot /\ slot[at[p]].by = p
    BY <1>12 DEF CloseAsked
  <2>2. slot'[at[p]] = slot[at[p]] \/ slot'[at[p]] = [by |-> p, state |-> "closing"]
    BY <1>12, <2>1 DEF CloseAsked, Closing, Rewrites
  <2>3. ~(slot'[at[p]].state = "ready" /\ pc'[p] = "ending")
    BY <1>12, <2>1, <2>2 DEF CloseAsked, Closing, Rewrites
  <2>4. \A n \in Slot \ {at[p]} : slot'[n] = slot[n]
    BY <1>12 DEF CloseAsked, Closing, Rewrites
  <2>5. pc'[p] \in {"serving", "ending"} /\ \A q \in Start \ {p} : pc'[q] = pc[q]
    BY <1>12 DEF CloseAsked, Closing
  <2>6. UNCHANGED <<at, alive, sig>>
    BY <1>12 DEF CloseAsked
  <2>7. pc[p] \in {"finishing", "serving"} /\ p \in alive
    BY <1>12 DEF CloseAsked
  <2>8. slot'[at[p]].by = p
    BY <2>1, <2>2
  <2>9. ASSUME NEW n \in Slot
        PROVE  /\ slot'[n].by = slot[n].by
               /\ slot'[n].state = "ready" => n = at[p] \/ slot[n].state = "ready"
    BY <2>1, <2>4, <2>8
  <2>10. \A n \in Slot : slot'[n].by # None =>
           /\ pc'[slot[n].by] # "unborn"
           /\ slot[n].by \in alive => pc'[slot[n].by] \in Slotted /\ at[slot[n].by] = n
    BY <2>5, <2>7, <2>9
  <2>11. \A n \in Slot : slot'[n].state = "ready" /\ slot'[n].by \in alive \ sig =>
           pc'[slot'[n].by] \in {"finishing", "serving"}
    <3> SUFFICES ASSUME NEW n \in Slot, slot'[n].state = "ready", slot'[n].by \in alive \ sig
                 PROVE  pc'[slot'[n].by] \in {"finishing", "serving"}
      OBVIOUS
    <3>1. CASE n = at[p]
      BY <3>1, <2>3, <2>5, <2>8
    <3>2. CASE n # at[p]
      <4>1. slot[n].by # p /\ slot'[n] = slot[n] /\ slot[n].by \in Start
        <5>1. slot'[n] = slot[n]
          BY <3>2, <2>4
        <5>2. slot[n].by \in Start /\ slot[n].by # None
          BY <5>1
        <5>3. slot[n].by = p => at[p] = n
          BY <5>2, <2>7
        <5> QED
          BY <3>2, <5>1, <5>2, <5>3
      <4>2. pc[slot[n].by] \in {"finishing", "serving"}
        BY <4>1
      <4>3. pc'[slot[n].by] = pc[slot[n].by]
        BY <4>1, <2>5
      <4> QED
        BY <4>1, <4>2, <4>3
    <3> QED
      BY <3>1, <3>2
  <2>12. \A q \in Start :
           /\ pc'[q] \in {"unborn", "locking", "placing"} => at[q] = 0
           /\ q \in alive /\ pc'[q] \in Slotted /\ at[q] # 0 => slot'[at[q]].by = q
           /\ pc'[q] \in Placed => at[q] # 0
    <3> SUFFICES ASSUME NEW q \in Start
                 PROVE  /\ pc'[q] \in {"unborn", "locking", "placing"} => at[q] = 0
                        /\ q \in alive /\ pc'[q] \in Slotted /\ at[q] # 0 => slot'[at[q]].by = q
                        /\ pc'[q] \in Placed => at[q] # 0
      OBVIOUS
    <3>1. CASE q = p
      BY <3>1, <2>1, <2>5, <2>8
    <3>2. CASE q # p
      <4>1. pc'[q] = pc[q]
        BY <3>2, <2>5
      <4>2. ASSUME q \in alive, pc[q] \in Slotted, at[q] # 0 PROVE slot'[at[q]].by = q
        <5>1. at[q] \in Slot /\ slot[at[q]].by = q
          BY <4>2
        <5> QED
          BY <5>1, <2>9
      <4> QED
        BY <4>1, <4>2
    <3> QED
      BY <3>1, <3>2
  <2> QED
    BY <2>6, <2>9, <2>10, <2>11, <2>12
<1>13. ASSUME NEW p \in Start, Awaits(p) \/ ReturnsInfo(p) PROVE InSlot'
  BY <1>13 DEF Awaits, ReturnsInfo, Returns
<1>14. ASSUME NEW p \in Start, ReturnsSlot(p) PROVE InSlot'
  BY <1>14 DEF ReturnsSlot, Returns
<1>15. ASSUME NEW p \in Start, ReturnsTraces(p) PROVE InSlot'
  BY <1>15 DEF ReturnsTraces, Returns
<1>16. ASSUME NEW p \in Start, ReturnsLock(p) PROVE InSlot'
  BY <1>16 DEF ReturnsLock, Returns
<1>17. ASSUME NEW p \in Start, Signal(p) PROVE InSlot'
  BY <1>17 DEF Signal
<1>18. ASSUME NEW p \in Start, Dies(p) PROVE InSlot'
  BY <1>18 DEF Dies
<1>19. ASSUME NEW n \in Slot, OtherTakes(n) \/ OtherLeaves(n) PROVE InSlot'
  BY <1>19 DEF OtherTakes, OtherLeaves
<1>20. CASE UNCHANGED vars
  BY <1>20 DEF vars
<1> QED
  BY <1>1, <1>2, <1>3, <1>4, <1>5, <1>6, <1>7, <1>8, <1>9, <1>10, <1>11, <1>12, <1>13, <1>14,
     <1>15, <1>16, <1>17, <1>18, <1>19, <1>20 DEF Next, Starting, RestartSteps, Ending

\* Whatever listens stays the server in place, or one that came up after the end had begun.
LEMMA SocketsKept ==
  Named /\ Stands /\ Flags /\ Servers /\ Counts /\ Running /\ InSlot /\ Restarted /\ Sockets /\
  [Next]_vars
    => Sockets'
<1> SUFFICES ASSUME Named, Stands, Flags, Servers, Counts, Running, InSlot, Restarted, Sockets,
                    [Next]_vars
             PROVE Sockets'
  OBVIOUS
<1> USE StartAssumption, SlotAssumption
        DEF Named, Stands, Flags, Servers, Counts, Running, InSlot, Restarted, Served,
            RestartsOver, Sockets, Where, Leaving, Returning, Having, Slotted, Placed, Bare,
            Over, Goto, At, files, place, server, history, counters
<1>1. ASSUME NEW p \in Start, Begins(p) \/ Locks(p) PROVE Sockets'
  BY <1>1 DEF Begins, Locks
<1>2. ASSUME NEW p \in Start, Places(p) PROVE Sockets'
  BY <1>2 DEF Places
<1>3. ASSUME NEW p \in Start, ChecksPort(p) PROVE Sockets'
  BY <1>3, SMTT(30) DEF ChecksPort
<1>4. ASSUME NEW p \in Start, Builds(p) PROVE Sockets'
  BY <1>4 DEF Builds
<1>5. ASSUME NEW p \in Start, Listens(p) PROVE Sockets'
  <2>1. at[p] \in Slot /\ ~late[p] /\ p \in alive
    BY <1>5 DEF Listens
  <2>2. \/ UNCHANGED <<port, cur>>
        \/ /\ port[at[p]] = None /\ port' = [port EXCEPT ![at[p]] = p]
           /\ cur' = [cur EXCEPT ![p] = "bound"]
    BY <1>5 DEF Listens
  <2>3. UNCHANGED <<alive, at, new, cleaning, late, ending>>
    BY <1>5 DEF Listens
  <2>4. CASE UNCHANGED <<port, cur>>
    BY <2>3, <2>4
  <2>5. ASSUME port[at[p]] = None, port' = [port EXCEPT ![at[p]] = p], cur' = [cur EXCEPT ![p] = "bound"]
        PROVE  Sockets'
    <3>1. /\ \A n \in Slot : port'[n] = IF n = at[p] THEN p ELSE port[n]
          /\ \A q \in Start : cur'[q] = IF q = p THEN "bound" ELSE cur[q]
      BY <2>1, <2>5
    <3>2. \A n \in Slot : port'[n] \in Start =>
            /\ port'[n] \in alive /\ at[port'[n]] = n
            /\ cur'[port'[n]] = "bound" \/ late[port'[n]]
      BY <2>1, <3>1
    <3>3. ASSUME NEW q \in Start
          PROVE  /\ cur'[q] = "bound" \/ late[q] => at[q] # 0 /\ port'[at[q]] = q
                 /\ late[q] => cur'[q] # "bound" /\ new[q] = "none" /\ ending[q] /\ cleaning[q] > 0
      BY <2>1, <2>5, <3>1
    <3> QED
      BY <2>3, <3>2, <3>3
  <2> QED
    BY <2>2, <2>4, <2>5
<1>6. ASSUME NEW p \in Start, Publishes(p) \/ Serves(p) PROVE Sockets'
  BY <1>6 DEF Publishes, Serves
<1>7. ASSUME NEW p \in Start, Restarts(p) \/ MakeFails(p) \/ Made(p) PROVE Sockets'
  BY <1>7 DEF Restarts, MakeFails, Made, Restarting, Drop
<1>8. ASSUME NEW p \in Start, OldCloses(p) PROVE Sockets'
  BY <1>8 DEF OldCloses, Restarting, Drop
<1>9. ASSUME NEW p \in Start, NewBinds(p) PROVE Sockets'
  BY <1>9, SMTT(30) DEF NewBinds, Restarting, Drop
<1>10. ASSUME NEW p \in Start, NewFails(p) PROVE Sockets'
  BY <1>10 DEF NewFails, Restarting, Drop, Closing
<1>11. ASSUME NEW p \in Start, Disposes(p) \/ CloseAsked(p) \/ Closes(p) PROVE Sockets'
  BY <1>11, SMTT(30) DEF Disposes, CloseAsked, Closes, Closing
<1>12. ASSUME NEW p \in Start, Awaits(p) \/ ReturnsInfo(p) \/ ReturnsSlot(p) PROVE Sockets'
  BY <1>12 DEF Awaits, ReturnsInfo, ReturnsSlot, Returns
<1>13. ASSUME NEW p \in Start, ReturnsTraces(p) \/ ReturnsLock(p) PROVE Sockets'
  BY <1>13 DEF ReturnsTraces, ReturnsLock, Returns
<1>14. ASSUME NEW p \in Start, Signal(p) PROVE Sockets'
  BY <1>14 DEF Signal
<1>15. ASSUME NEW p \in Start, Dies(p) PROVE Sockets'
  BY <1>15 DEF Dies
<1>16. ASSUME NEW n \in Slot, OtherTakes(n) \/ OtherLeaves(n) PROVE Sockets'
  BY <1>16 DEF OtherTakes, OtherLeaves
<1>17. CASE UNCHANGED vars
  BY <1>17 DEF vars
<1> QED
  BY <1>1, <1>2, <1>3, <1>4, <1>5, <1>6, <1>7, <1>8, <1>9, <1>10, <1>11, <1>12, <1>13, <1>14,
     <1>15, <1>16, <1>17 DEF Next, Starting, RestartSteps, Ending

\* A start and its restart stay in step: which server is in place follows from where both are.
LEMMA RestartedKept ==
  Named /\ Stands /\ Flags /\ Servers /\ Counts /\ Running /\ InSlot /\ Restarted /\
  [Next]_vars
    => Restarted'
<1> SUFFICES ASSUME Named, Stands, Flags, Servers, Counts, Running, InSlot, Restarted,
                    [Next]_vars
             PROVE Restarted'
  OBVIOUS
<1> USE StartAssumption, SlotAssumption
        DEF Named, Stands, Flags, Servers, Counts, Running, InSlot, Restarted, Served,
            RestartsOver, Where, Leaving, Returning, Slotted, Placed, Bare, Over, Goto, At,
            files, place, server, history, counters
<1>1. ASSUME NEW p \in Start, Begins(p) \/ Locks(p) PROVE Restarted'
  BY <1>1 DEF Begins, Locks
<1>2. ASSUME NEW p \in Start, Places(p) \/ ChecksPort(p) PROVE Restarted'
  BY <1>2 DEF Places, ChecksPort
<1>3. ASSUME NEW p \in Start, Builds(p) \/ Listens(p) PROVE Restarted'
  BY <1>3 DEF Builds, Listens
<1>4. ASSUME NEW p \in Start, Publishes(p) \/ Serves(p) PROVE Restarted'
  BY <1>4 DEF Publishes, Serves
<1>5. ASSUME NEW p \in Start, Restarts(p) \/ MakeFails(p) \/ Made(p) PROVE Restarted'
  BY <1>5 DEF Restarts, MakeFails, Made, Restarting, Drop
<1>6. ASSUME NEW p \in Start, OldCloses(p) \/ NewBinds(p) \/ NewFails(p) PROVE Restarted'
  BY <1>6 DEF OldCloses, NewBinds, NewFails, Restarting, Drop, Closing
<1>7. ASSUME NEW p \in Start, Disposes(p) \/ CloseAsked(p) \/ Closes(p) PROVE Restarted'
  BY <1>7 DEF Disposes, CloseAsked, Closes, Closing
<1>8. ASSUME NEW p \in Start, Awaits(p) \/ ReturnsInfo(p) \/ ReturnsSlot(p) PROVE Restarted'
  BY <1>8 DEF Awaits, ReturnsInfo, ReturnsSlot, Returns
<1>9. ASSUME NEW p \in Start, ReturnsTraces(p) \/ ReturnsLock(p) PROVE Restarted'
  BY <1>9 DEF ReturnsTraces, ReturnsLock, Returns
<1>10. ASSUME NEW p \in Start, Signal(p) \/ Dies(p) PROVE Restarted'
  BY <1>10 DEF Signal, Dies
<1>11. ASSUME NEW n \in Slot, OtherTakes(n) \/ OtherLeaves(n) PROVE Restarted'
  BY <1>11 DEF OtherTakes, OtherLeaves
<1>12. CASE UNCHANGED vars
  BY <1>12 DEF vars
<1> QED
  BY <1>1, <1>2, <1>3, <1>4, <1>5, <1>6, <1>7, <1>8, <1>9, <1>10, <1>11, <1>12
     DEF Next, Starting, RestartSteps, Ending

\* What a start knows of its folder's traces stays true while no start is killed on its way.
LEMMA ToldKept ==
  Named /\ Stands /\ Flags /\ Running /\ Locked /\ Restarted /\ Told /\ [Next]_vars
    => Told'
<1> SUFFICES ASSUME Named, Stands, Flags, Running, Locked, Restarted, Told, [Next]_vars PROVE Told'
  OBVIOUS
<1> USE StartAssumption
        DEF Named, Stands, Flags, Running, Locked, Told, Where, Leaving, Returning, Having,
            Slotted, Placed, Takeable, Goto, At, files, place, server, history, counters
<1>1. ASSUME NEW p \in Start, Begins(p) \/ Locks(p) PROVE Told'
  BY <1>1 DEF Begins, Locks
<1>2. ASSUME NEW p \in Start, Places(p) \/ ChecksPort(p) PROVE Told'
  BY <1>2 DEF Places, ChecksPort
<1>3. ASSUME NEW p \in Start, Builds(p) \/ Listens(p) PROVE Told'
  BY <1>3 DEF Builds, Listens
<1>4. ASSUME NEW p \in Start, Publishes(p) \/ Serves(p) PROVE Told'
  BY <1>4 DEF Publishes, Serves
<1>5. ASSUME NEW p \in Start, Restarts(p) \/ MakeFails(p) \/ Made(p) PROVE Told'
  BY <1>5 DEF Restarts, MakeFails, Made, Restarting, Drop
<1>6. ASSUME NEW p \in Start, OldCloses(p) \/ NewBinds(p) PROVE Told'
  BY <1>6 DEF OldCloses, NewBinds, Restarting, Drop
<1>7. ASSUME NEW p \in Start, NewFails(p) PROVE Told'
  BY <1>7 DEF NewFails, Restarting, Drop, Closing, Restarted
<1>8. ASSUME NEW p \in Start, Disposes(p) \/ CloseAsked(p) \/ Closes(p) PROVE Told'
  BY <1>8 DEF Disposes, CloseAsked, Closes, Closing
<1>9. ASSUME NEW p \in Start, Awaits(p) \/ ReturnsInfo(p) \/ ReturnsSlot(p) PROVE Told'
  BY <1>9 DEF Awaits, ReturnsInfo, ReturnsSlot, Returns
<1>10. ASSUME NEW p \in Start, ReturnsTraces(p) \/ ReturnsLock(p) PROVE Told'
  BY <1>10 DEF ReturnsTraces, ReturnsLock, Returns
<1>11. ASSUME NEW p \in Start, Signal(p) PROVE Told'
  BY <1>11 DEF Signal
<1>12. ASSUME NEW p \in Start, Dies(p) PROVE Told'
  <2> SUFFICES ASSUME NEW f \in Folder, tidy'[f], lock[f] # None
               PROVE  lock[f] \in alive'
    BY <1>12 DEF Dies
  <2>1. tidy[f] /\ lock[f] \in alive
    BY <1>12 DEF Dies
  <2>2. CASE lock[f] = p
    <3>1. folder[p] = f /\ pc[p] \in Having
      BY <2>1, <2>2
    <3>2. pc[p] \notin {"locking", "raise", "over"}
      BY <3>1
    <3>3. ~tidy'[f]
      BY <1>12, <3>1, <3>2 DEF Dies
    <3> QED
      BY <3>3
  <2>3. CASE lock[f] # p
    BY <1>12, <2>1, <2>3 DEF Dies
  <2> QED
    BY <2>2, <2>3
<1>13. ASSUME NEW n \in Slot, OtherTakes(n) \/ OtherLeaves(n) PROVE Told'
  BY <1>13 DEF OtherTakes, OtherLeaves
<1>14. CASE UNCHANGED vars
  BY <1>14 DEF vars
<1> QED
  BY <1>1, <1>2, <1>3, <1>4, <1>5, <1>6, <1>7, <1>8, <1>9, <1>10, <1>11, <1>12, <1>13, <1>14
     DEF Next, Starting, RestartSteps, Ending

-----------------------------------------------------------------------------
(* The invariant, and what it shows *)

LEMMA Inductive == IInv /\ [Next]_vars => IInv'
<1> SUFFICES ASSUME IInv, [Next]_vars PROVE IInv'
  OBVIOUS
<1>1. /\ Named /\ Claimed /\ Stands /\ Flags /\ Servers /\ Counts
      /\ Running /\ Locked /\ Published /\ InSlot /\ Sockets /\ Restarted /\ Counted /\ Told
  BY TypeParts DEF IInv
<1>2. TypeOK'
  BY TypeKept DEF IInv
<1>3. Running' /\ Locked' /\ Published'
  BY <1>1, RunningKept, LockedKept, PublishedKept
<1>4. InSlot' /\ Sockets' /\ Restarted'
  BY <1>1, InSlotKept, SocketsKept, RestartedKept
<1>5. Counted' /\ Told'
  BY <1>1, CountedKept, ToldKept
<1> QED
  BY <1>2, <1>3, <1>4, <1>5 DEF IInv

\* The invariant holds in every state that can be reached.
LEMMA Always == Spec => []IInv
BY Initially, Inductive, PTL DEF Spec

\* The types, and that a start's slot is one it was not refused (dev.ts, slots.ts).
THEOREM TypesHold == Spec => []TypeOK
<1>1. IInv => TypeOK
  BY DEF IInv
<1> QED
  BY <1>1, Always, PTL

\* While anything of a start could still bind or serve, its lock and its slot's file name
\* it (dev.ts, startup.ts): a start that is not on its way out has them, and one that is
\* gives none back before its last server is closed.
THEOREM ClaimsOutlastServersHolds == Spec => []ClaimsOutlastServers
<1>1. IInv => ClaimsOutlastServers
  <2> SUFFICES ASSUME IInv, NEW p \in alive \ sig
               PROVE  /\ \A n \in Slot : port[n] = p => slot[n].by = p /\ lock[folder[p]] = p
                      /\ (cur[p] # "none" \/ ~RestartsOver(p)) => lock[folder[p]] = p /\ slot[at[p]].by = p
    BY DEF ClaimsOutlastServers
  <2>1. p \in Start /\ Stands /\ Named /\ Servers /\ Counts
    BY TypeParts DEF IInv, Named
  <2> DEFINE Busy == cur[p] # "none" \/ ~RestartsOver(p)
  <2>2. ASSUME Busy PROVE pc[p] \in Slotted /\ at[p] # 0
    <3>1. pc[p] \notin Over \cup {"raise", "dead", "unborn"}
      BY <2>1, <2>2 DEF IInv, Running, Restarted
    <3>2. pc[p] \notin {"locking", "placing"}
      BY <2>1, <2>2 DEF IInv, Restarted, RestartsOver, Bare, Leaving, Returning, Counts
    <3>3. at[p] # 0
      BY <2>1, <2>2 DEF IInv, Restarted, RestartsOver, Counts
    <3> QED
      BY <2>1, <3>1, <3>2, <3>3 DEF Stands, Where, Slotted, Placed, Over, Leaving, Returning
  <2>3. ASSUME Busy PROVE lock[folder[p]] = p /\ slot[at[p]].by = p
    BY <2>1, <2>2, <2>3 DEF IInv, Locked, InSlot, Having
  <2>4. ASSUME NEW n \in Slot, port[n] = p PROVE Busy /\ at[p] = n
    BY <2>1, <2>4 DEF IInv, Sockets, RestartsOver, Counts
  <2> QED
    BY <2>3, <2>4
<1> QED
  BY <1>1, Always, PTL

\* A slot that says ready, of a start no signal ends, has that start's server, or a
\* restart is about to have its new server listen there (slots.ts, dev.ts).
THEOREM ReadyServesHolds == Spec => []ReadyServes
<1>1. IInv => ReadyServes
  <2> SUFFICES ASSUME IInv, NEW n \in Slot, NEW p, p = slot[n].by,
                      slot[n].state = "ready", p \in alive \ sig
               PROVE  ~ending[p] /\ (port[n] = p \/ new[p] = "asked")
    BY DEF ReadyServes
  <2>1. p \in Start /\ p # None /\ Servers
    BY TypeParts, StartAssumption DEF IInv, Named
  <2>2. pc[p] \in {"finishing", "serving"} /\ at[p] = n
    BY <2>1 DEF IInv, InSlot
  <2>3. ~ending[p]
    BY <2>1, <2>2 DEF IInv, Restarted, Leaving, Returning
  <2>4. cur[p] = "bound" \/ new[p] = "asked"
    BY <2>1, <2>2 DEF IInv, Restarted, Served
  <2> QED
    BY <2>1, <2>2, <2>3, <2>4 DEF IInv, Sockets
<1> QED
  BY <1>1, Always, PTL

\* dev.json names the start that has the folder, and a free folder looks as if a canvas
\* ran there exactly when one did, unless a start was killed on its way (work.ts, slots.ts).
THEOREM FolderTellsHolds == Spec => []FolderTells
<1>1. IInv => FolderTells
  <2> SUFFICES ASSUME IInv, NEW f \in Folder
               PROVE  /\ info[f] \in alive => lock[f] = info[f]
                      /\ lock[f] = None /\ tidy[f] => traces[f] = ran[f]
    BY DEF FolderTells
  <2>1. ASSUME info[f] \in alive PROVE lock[f] = info[f]
    <3>1. info[f] \in Start /\ info[f] # None
      BY <2>1, TypeParts, StartAssumption DEF IInv, Named
    <3>2. folder[info[f]] = f /\ pc[info[f]] \in Having
      BY <2>1, <3>1 DEF IInv, Published, Having, Slotted, Placed
    <3> QED
      BY <2>1, <3>2 DEF IInv, Locked
  <2>2. lock[f] = None /\ tidy[f] => traces[f] = ran[f]
    BY DEF IInv, Told
  <2> QED
    BY <2>1, <2>2
<1> QED
  BY <1>1, Always, PTL
=============================================================================
