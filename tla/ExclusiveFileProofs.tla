------------------------ MODULE ExclusiveFileProofs ------------------------
(* What holds of the lock files for any number of starts and of pids that  *)
(* come back: one holder, named by its file, for dev.lock and the slots and *)
(* for jam.lock; that starts do not all turn each other away; and that the  *)
(* lock of exclusive.ts implements ExclusiveLock.                           *)
EXTENDS ExclusiveFile, FiniteSetTheorems, TLAPS

-----------------------------------------------------------------------------
(* The inductive invariant *)

\* A process runs from its start to its end, under a pid no other one that runs has.
Running ==
  /\ \A p \in Process : p \in alive <=> pc[p] \notin {"unborn", "dead"}
  /\ \A p, q \in alive : pid[p] = pid[q] => p = q

\* No one has seen, and no file names, a process that has not started.
Known ==
  /\ file \in Process => pc[file] # "unborn"
  /\ \A p \in Process : seen[p] \in Process => pc[seen[p]] # "unborn"

\* Who is between making the reclaim file and removing it.
Under == {"again", "unlink", "recreate", "write2", "tidy", "tidyLost"}

\* Only listen writes a file after it has made it, or clears another's reclaim file.
Linked ==
  kind # "listen" =>
    /\ written
    /\ \A p \in Process :
         /\ pc[p] \notin {"look", "handover", "rewrite", "write", "write2"}
         /\ pc[p] \in Under => reclaim = p
         /\ pc[p] \in {"check", "claim", "again", "unlink"} => seen[p] # None

\* h is over, as far as the kind of lock can tell, and stays so.
Gone(h) == IF kind = "dev" THEN h \in Process => pc[h] = "dead" ELSE ~Runs(h)

\* The file is p's, as far as the kind of lock can tell.
Names(p) == IF kind = "dev" THEN file = p ELSE file # None /\ pid[file] = pid[p]

\* A holder is named by the file.  Who reclaims one goes by a holder that is over and
\* removes a file that still names it; who finds its own pid is named by the file too.
Claiming ==
  Sound => \A p \in Process :
    /\ pc[p] \in Holding => Names(p)
    /\ pc[p] \in {"claim", "again", "unlink"} => Gone(seen[p])
    /\ pc[p] = "unlink" => Same(p)
    /\ kind = "jam" /\ pc[p] = "check" /\ pid[seen[p]] = pid[p] => Names(p)

IInv == TypeOK /\ Running /\ Known /\ Linked /\ Claiming

-----------------------------------------------------------------------------
\* No start has done anything yet, and what lies there is Old's.
LEMMA Initially == Init => IInv
<1> SUFFICES ASSUME Init PROVE IInv
  OBVIOUS
<1> USE DEF Init, Someone
<1>1. TypeOK
  BY ProcessAssumption DEF TypeOK, Where
<1>2. Running /\ Known
  BY ProcessAssumption DEF Running, Known
<1>3. Linked
  BY DEF Linked, Under
<1>4. Claiming
  BY DEF Claiming, Holding
<1> QED
  BY <1>1, <1>2, <1>3, <1>4 DEF IInv

\* Where a process stands is all that a step changes of pc.
LEMMA TypeKept == TypeOK /\ [Next]_vars => TypeOK'
<1> SUFFICES ASSUME TypeOK, [Next]_vars PROVE TypeOK'
  OBVIOUS
<1> USE DEF TypeOK, Goto, Where, Someone, files, environment
<1>1. ASSUME NEW p \in Process, Starts(p) PROVE TypeOK'
  BY <1>1 DEF Starts
<1>2. ASSUME NEW p \in Process, Dies(p) PROVE TypeOK'
  BY <1>2 DEF Dies
<1>3. ASSUME NEW p \in Process, LooksFirst(p) PROVE TypeOK'
  BY <1>3 DEF LooksFirst, Step
<1>4. ASSUME NEW p \in Process, HandsOver(p) \/ Rewrites(p) PROVE TypeOK'
  BY <1>4 DEF HandsOver, Rewrites, Step
<1>5. ASSUME NEW p \in Process, Creates(p) \/ Recreates(p) PROVE TypeOK'
  BY <1>5, ProcessAssumption, ZenonT(30) DEF Creates, Recreates, Create, Step
<1>6. ASSUME NEW p \in Process, Writes(p) PROVE TypeOK'
  BY <1>6 DEF Writes, Step
<1>7. ASSUME NEW p \in Process, Reads(p) PROVE TypeOK'
  BY <1>7 DEF Reads, NextRound, Step
<1>8. ASSUME NEW p \in Process, Checks(p) \/ Again(p) PROVE TypeOK'
  BY <1>8 DEF Checks, Again, Step
<1>9. ASSUME NEW p \in Process, Claims(p) PROVE TypeOK'
  BY <1>9 DEF Claims, NextRound, Step
<1>10. ASSUME NEW p \in Process, Unlinks(p) \/ Removes(p) PROVE TypeOK'
  BY <1>10 DEF Unlinks, Removes, Step
<1>11. ASSUME NEW p \in Process, Tidies(p) \/ TidiesLost(p) PROVE TypeOK'
  BY <1>11 DEF Tidies, TidiesLost, NextRound, Step
<1>12. ASSUME NEW p \in Process, LooksLast(p) \/ Releases(p) \/ Yields(p) PROVE TypeOK'
  BY <1>12 DEF LooksLast, Releases, Yields, Step
<1>13. CASE UNCHANGED vars
  BY <1>13 DEF vars
<1> QED
  BY <1>1, <1>2, <1>3, <1>4, <1>5, <1>6, <1>7, <1>8, <1>9, <1>10, <1>11, <1>12, <1>13 DEF Next, Takes

\* Every other step is one of a process that runs, which goes on somewhere.
Acts(p) == Takes(p) \/ Releases(p) \/ Removes(p) \/ Yields(p)

\* A step of one process moves that process alone, a live one, and leaves the environment.
LEMMA OneMoves ==
  ASSUME TypeOK, NEW p \in Process, Acts(p)
  PROVE  /\ p \in alive /\ UNCHANGED environment
         /\ \E w \in Where \ {"unborn", "dead"} : pc' = [pc EXCEPT ![p] = w]
<1> USE DEF Where, TypeOK, Goto, Step
<1>1. CASE Releases(p) \/ Removes(p) \/ Yields(p)
  BY <1>1 DEF Releases, Removes, Yields
<1>2. CASE LooksFirst(p) \/ HandsOver(p) \/ Rewrites(p) \/ LooksLast(p)
  BY <1>2 DEF LooksFirst, HandsOver, Rewrites, LooksLast
<1>3. CASE Creates(p) \/ Recreates(p)
  BY <1>3 DEF Creates, Recreates, Create
<1>4. CASE Writes(p) \/ Unlinks(p)
  BY <1>4 DEF Writes, Unlinks
<1>5. CASE Reads(p)
  BY <1>5 DEF Reads, NextRound
<1>6. CASE Checks(p) \/ Again(p)
  BY <1>6 DEF Checks, Again
<1>7. CASE Claims(p)
  BY <1>7 DEF Claims, NextRound
<1>8. CASE Tidies(p) \/ TidiesLost(p)
  BY <1>8 DEF Tidies, TidiesLost, NextRound
<1> QED
  BY <1>1, <1>2, <1>3, <1>4, <1>5, <1>6, <1>7, <1>8 DEF Acts, Takes

\* No step leaves a live process without a place in the loop, or a dead one with one.
LEMMA RunningKept == IInv /\ [Next]_vars => Running'
<1> SUFFICES ASSUME IInv, [Next]_vars PROVE Running'
  OBVIOUS
<1> USE DEF IInv, Running, TypeOK, Goto, Someone
<1>1. ASSUME NEW p \in Process, Starts(p) PROVE Running'
  BY <1>1 DEF Starts
<1>2. ASSUME NEW p \in Process, Dies(p) PROVE Running'
  BY <1>2 DEF Dies
<1>3. ASSUME NEW p \in Process, Acts(p) PROVE Running'
  BY <1>3, OneMoves DEF environment
<1>4. CASE UNCHANGED vars
  BY <1>4 DEF vars
<1> QED
  BY <1>1, <1>2, <1>3, <1>4 DEF Next, Acts

\* A file is given the name of who writes it or of one seen before; what is seen is
\* what the file names.
LEMMA KnownKept == IInv /\ [Next]_vars => Known'
<1> SUFFICES ASSUME IInv, [Next]_vars PROVE Known'
  OBVIOUS
<1> USE DEF IInv, Running, Known, TypeOK, Goto, Someone, files
<1>1. ASSUME NEW p \in Process, Starts(p) PROVE Known'
  BY <1>1 DEF Starts
<1>2. ASSUME NEW p \in Process, Dies(p) PROVE Known'
  BY <1>2 DEF Dies
<1>3. ASSUME NEW p \in Process, Acts(p) PROVE Known'
  <2>1. /\ p \in alive /\ UNCHANGED environment
        /\ \E w \in Where \ {"unborn", "dead"} : pc' = [pc EXCEPT ![p] = w]
    BY <1>3, OneMoves
  <2>2. /\ file' \in {file, None, p, seen[p]}
        /\ seen' = seen \/ \E h \in {file, None} : seen' = [seen EXCEPT ![p] = h]
    BY <1>3 DEF Acts, Takes, LooksFirst, HandsOver, Rewrites, LooksLast, Creates, Recreates,
       Create, Writes, Unlinks, Reads, NextRound, Checks, Again, Claims, Tidies, TidiesLost,
       Releases, Removes, Yields
  <2>3. \A q \in Process : pc'[q] = "unborn" => pc[q] = "unborn" /\ q # p
    BY <2>1
  <2>4. file' \in Process => pc'[file'] # "unborn"
    BY <2>2, <2>3, ProcessAssumption
  <2>5. \A q \in Process : seen'[q] \in Process => pc'[seen'[q]] # "unborn"
    BY <2>2, <2>3, ProcessAssumption
  <2> QED
    BY <2>4, <2>5
<1>4. CASE UNCHANGED vars
  BY <1>4 DEF vars
<1> QED
  BY <1>1, <1>2, <1>3, <1>4 DEF Next, Acts

\* The reclaim file is made when there is none and removed by its maker, so its maker
\* is alone in between; what was read under a lock that is linked is a name.
LEMMA LinkedKept == IInv /\ [Next]_vars => Linked'
<1> SUFFICES ASSUME IInv, [Next]_vars, kind # "listen" PROVE Linked'
  <2>1. CASE \E p \in Process : Acts(p)
    BY <2>1, OneMoves DEF IInv, environment, Linked
  <2>2. CASE \E p \in Process : Starts(p) \/ Dies(p)
    BY <2>2 DEF Starts, Dies, Linked
  <2>3. CASE UNCHANGED vars
    BY <2>3 DEF vars, Linked
  <2> QED
    BY <2>1, <2>2, <2>3 DEF Next, Acts
<1> USE DEF IInv, Linked, TypeOK, Goto, Step, files, environment, Where, Under
<1>1. ASSUME NEW p \in Process, Starts(p) PROVE Linked'
  BY <1>1 DEF Starts
<1>2. ASSUME NEW p \in Process, Dies(p) PROVE Linked'
  BY <1>2 DEF Dies
<1>3. ASSUME NEW p \in Process, LooksFirst(p) \/ HandsOver(p) \/ Rewrites(p) \/ Writes(p) \/ Yields(p)
      PROVE FALSE
  BY <1>3 DEF LooksFirst, HandsOver, Rewrites, Writes, Yields
<1>4. ASSUME NEW p \in Process, Creates(p) \/ Recreates(p) PROVE Linked'
  <2>1. written'
    BY <1>4 DEF Creates, Recreates, Create
  <2>2. CASE Creates(p)
    BY <2>1, <2>2, ZenonT(30) DEF Creates, Create
  <2>3. CASE Recreates(p)
    BY <2>1, <2>3, ZenonT(30) DEF Recreates, Create
  <2> QED
    BY <1>4, <2>2, <2>3
<1>5. ASSUME NEW p \in Process, Reads(p) PROVE Linked'
  BY <1>5 DEF Reads, Readable, NextRound
<1>6. ASSUME NEW p \in Process, Checks(p) \/ Again(p) PROVE Linked'
  <2>1. CASE Checks(p)
    BY <2>1 DEF Checks
  <2>2. CASE Again(p)
    BY <2>2 DEF Again
  <2> QED
    BY <1>6, <2>1, <2>2
<1>7. ASSUME NEW p \in Process, Claims(p) PROVE Linked'
  BY <1>7, ProcessAssumption DEF Claims, NextRound
<1>8. ASSUME NEW p \in Process, Unlinks(p) \/ Removes(p) PROVE Linked'
  BY <1>8 DEF Unlinks, Removes
<1>9. ASSUME NEW p \in Process, Tidies(p) \/ TidiesLost(p) PROVE Linked'
  <2>1. \A q \in Process : pc[q] \in Under => q = p
    BY <1>9 DEF Tidies, TidiesLost
  <2>2. CASE Tidies(p)
    BY <2>1, <2>2 DEF Tidies
  <2>3. CASE TidiesLost(p)
    BY <2>1, <2>3 DEF TidiesLost, NextRound
  <2> QED
    BY <1>9, <2>2, <2>3
<1>10. ASSUME NEW p \in Process, LooksLast(p) \/ Releases(p) PROVE Linked'
  BY <1>10, ZenonT(30) DEF LooksLast, Releases
<1>11. CASE UNCHANGED vars
  BY <1>11 DEF vars
<1> QED
  BY <1>1, <1>2, <1>3, <1>4, <1>5, <1>6, <1>7, <1>8, <1>9, <1>10, <1>11 DEF Next, Takes

\* What a step by p takes care of, for another start q: the clauses of Claiming.
Goes(q) ==
  /\ pc[q] \in Holding => Names(q)
  /\ pc[q] \in {"claim", "again", "unlink"} => Gone(seen[q])
  /\ pc[q] = "unlink" => Same(q)
  /\ kind = "jam" /\ pc[q] = "check" /\ pid[seen[q]] = pid[q] => Names(q)

\* A new process is not the one anybody goes by, not even by its pid: if it has one
\* that somebody goes by, the lock of that kind is not Sound any more.
LEMMA StartKeeps ==
  ASSUME IInv, NEW p \in Process, Starts(p), Sound', NEW q \in Process
  PROVE  Goes(q)'
<1> USE DEF IInv, TypeOK, Running, Known, Linked, Someone, Goto, files
<1>1. PICK i \in {p} \cup {pid[r] : r \in Someone \ alive} :
        /\ \A r \in alive : pid[r] # i
        /\ pid' = [pid EXCEPT ![p] = i]
        /\ slipped' = IF GoneBy(i) THEN slipped \cup {"pid"} ELSE slipped
  BY DEF Starts
<1>2. /\ pc[p] = "unborn" /\ p \notin alive /\ alive' = alive \cup {p}
      /\ UNCHANGED <<kind, file, written, reclaim, seen>>
      /\ pc' = [pc EXCEPT ![p] = IF kind = "listen" THEN "look" ELSE "create"]
  BY DEF Starts
<1>3. Sound /\ kind # "listen" /\ Goes(q)
  BY <1>1, <1>2 DEF Sound, Claiming, Goes
<1>4. CASE q = p
  BY <1>2, <1>3, <1>4 DEF Goes, Holding
<1>5. CASE q # p
  <2>1. pc'[q] = pc[q] /\ seen'[q] = seen[q] /\ pid'[q] = pid[q]
    BY <1>1, <1>2, <1>5
  <2>2. file # None => file # p /\ pid'[file] = pid[file]
    BY <1>1, <1>2
  <2>3. seen[q] # None => seen[q] # p /\ pid'[seen[q]] = pid[seen[q]]
    BY <1>1, <1>2
  <2>4. Names(q)' = Names(q) /\ (seen[q] # None => Same(q)' = Same(q))
    BY <1>2, <2>1, <2>2, <2>3 DEF Names, Same
  <2>5. ASSUME pc[q] \in {"claim", "again", "unlink"}, Gone(seen[q])
        PROVE  Gone(seen[q])'
    <3>1. seen[q] # None /\ seen[q] \in Someone
      BY <1>3, <2>5
    <3>2. CASE kind = "dev"
      BY <1>2, <2>3, <2>5, <3>1, <3>2 DEF Gone
    <3>3. CASE kind # "dev"
      <4>1. pid[seen[q]] # i
        <5> SUFFICES ASSUME pid[seen[q]] = i PROVE FALSE
          OBVIOUS
        <5>1. GoneBy(i)
          BY <2>5, <3>1 DEF GoneBy, Over
        <5>2. "pid" \in slipped'
          BY <1>1, <5>1
        <5> QED
          BY <1>2, <3>3, <5>2 DEF Sound
      <4> QED
        BY <1>1, <1>2, <2>1, <2>3, <2>5, <3>1, <3>3, <4>1 DEF Gone, Runs
    <3> QED
      BY <3>2, <3>3
  <2>6. pc[q] \in {"check", "claim", "again", "unlink"} => seen[q] # None
    BY <1>3
  <2> QED
    BY <1>2, <1>3, <2>1, <2>3, <2>4, <2>5, <2>6 DEF Goes
<1> QED
  BY <1>4, <1>5

\* A process that is over stays over.
LEMMA DeathKeeps ==
  ASSUME IInv, NEW p \in Process, Dies(p), Sound', NEW q \in Process
  PROVE  Goes(q)'
<1> USE DEF IInv, TypeOK, Running, Goto, files
<1>1. /\ alive' = alive \ {p} /\ pc' = [pc EXCEPT ![p] = "dead"]
      /\ UNCHANGED <<kind, file, written, reclaim, pid, seen, slipped>>
  BY DEF Dies
<1>2. Goes(q)
  BY <1>1 DEF Sound, Claiming, Goes
<1>3. Names(q)' = Names(q) /\ Same(q)' = Same(q)
  BY <1>1 DEF Names, Same
<1>4. Gone(seen[q]) => Gone(seen[q])'
  BY <1>1 DEF Gone, Runs
<1> QED
  BY <1>1, <1>2, <1>3, <1>4 DEF Goes, Holding

\* The file goes from under nobody: who unlinks it goes by a holder that is over, who
\* removes it is the one it names, and it is created only where there is none.
LEMMA ActKeeps ==
  ASSUME IInv, NEW p \in Process, Acts(p), Sound', NEW q \in Process
  PROVE  Goes(q)'
<1> USE DEF IInv, TypeOK
<1>1. /\ p \in alive /\ UNCHANGED environment
      /\ \E w \in Where \ {"unborn", "dead"} : pc' = [pc EXCEPT ![p] = w]
  BY OneMoves
<1>2. UNCHANGED slipped
  BY DEF Acts, Takes, LooksFirst, HandsOver, Rewrites, LooksLast, Creates, Recreates,
     Writes, Unlinks, Reads, Checks, Again, Claims, Tidies, TidiesLost, Releases, Removes, Yields
<1>3. Sound /\ kind \in {"dev", "jam"} /\ kind' = kind /\ alive' = alive /\ pid' = pid
  BY <1>1, <1>2 DEF Sound, environment
<1>4. \A r \in Process : Goes(r)
  BY <1>3 DEF Claiming, Goes
<1>5. \A h : Gone(h) => Gone(h)'
  BY <1>1, <1>3 DEF Gone, Runs, Running
<1>6. \A r \in Process : /\ pc[r] \notin {"look", "handover", "rewrite", "write", "write2"}
                         /\ pc[r] \in Under => reclaim = r
                         /\ pc[r] \in {"check", "claim", "again", "unlink"} => seen[r] # None
  BY <1>3 DEF Linked
<1>7. ~(LooksFirst(p) \/ HandsOver(p) \/ Rewrites(p) \/ Writes(p) \/ Yields(p))
  BY <1>3, <1>6 DEF LooksFirst, HandsOver, Rewrites, Writes, Yields, Step
<1>8. CASE q # p
  <2>1. pc'[q] = pc[q] /\ seen'[q] = seen[q]
    BY <1>1, <1>8 DEF Acts, Takes, LooksFirst, HandsOver, Rewrites, LooksLast, Creates, Recreates,
       Writes, Unlinks, Reads, NextRound, Checks, Again, Claims, Tidies, TidiesLost, Releases,
       Removes, Yields
  <2> SUFFICES ASSUME file' # file
               PROVE  /\ ~Names(q) \/ pc[q] \notin Holding \cup {"check"}
                      /\ pc[q] # "unlink"
    BY <1>3, <1>4, <1>5, <2>1 DEF Goes, Names, Same
  <2>2. q \in alive \/ pc[q] \notin Holding \cup {"check"}
    BY DEF IInv, Running, Holding
  <2>3. CASE Creates(p) \/ Recreates(p)
    <3>1. file = None
      BY <2>3 DEF Creates, Recreates, Create
    <3> QED
      BY <1>3, <1>4, <1>6, <3>1, ProcessAssumption DEF Goes, Names, Same
  <2>4. CASE Unlinks(p)
    <3>1. pc[p] = "unlink" /\ Gone(seen[p]) /\ Same(p)
      BY <1>4, <2>4 DEF Unlinks, Step, Goes
    <3>2. pc[q] # "unlink"
      BY <1>6, <1>8, <3>1 DEF Under
    <3>3. CASE kind = "dev"
      BY <3>1, <3>2, <3>3 DEF Gone, Same, Names, Holding
    <3>4. CASE kind = "jam"
      BY <2>2, <3>1, <3>2, <3>4 DEF Gone, Same, Names, Runs
    <3> QED
      BY <1>3, <3>3, <3>4
  <2>5. CASE Removes(p)
    <3>1. pc[p] = "releasing" /\ Names(p)
      BY <1>4, <2>5 DEF Removes, Step, Goes, Holding
    <3>2. CASE kind = "dev"
      <4>1. pc[q] # "unlink"
        BY <1>4, <3>1, <3>2 DEF Goes, Names, Same, Gone
      <4> QED
        BY <1>8, <3>1, <3>2, <4>1 DEF Names
    <3>3. CASE kind = "jam"
      <4>1. pc[q] # "unlink"
        BY <1>1, <1>4, <3>1, <3>3 DEF Goes, Names, Same, Gone, Runs
      <4> QED
        BY <1>1, <1>8, <2>2, <3>1, <3>3, <4>1 DEF IInv, Running, Names
    <3> QED
      BY <1>3, <3>2, <3>3
  <2>6. Creates(p) \/ Recreates(p) \/ Unlinks(p) \/ Removes(p)
    BY <1>7 DEF Acts, Takes, Reads, Checks, Claims, Again, Tidies, TidiesLost, LooksLast, Releases, files
  <2> QED
    BY <2>3, <2>4, <2>5, <2>6
<1>9. CASE q = p
  <2> USE <1>9 DEF Goes, Step, Goto, files
  <2>1. CASE Creates(p) \/ Recreates(p)
    BY <1>3, <2>1, ProcessAssumption DEF Creates, Recreates, Create, Holding, Names
  <2>2. CASE Reads(p)
    <3>1. CASE file = None
      BY <1>3, <2>2, <3>1 DEF Reads, NextRound, Holding
    <3>2. CASE file # None
      <4>1. Readable
        BY <1>3, <3>2 DEF IInv, Linked, Readable
      <4>2. /\ UNCHANGED file /\ seen'[p] = file
            /\ pc'[p] = "check"
        BY <1>3, <2>2, <3>2, <4>1 DEF Reads
      <4> QED
        BY <1>3, <3>2, <4>2 DEF Holding, Names
    <3> QED
      BY <3>1, <3>2
  <2>3. CASE Checks(p)
    <3>1. UNCHANGED <<file, seen>> /\ pc[p] = "check"
      BY <2>3 DEF Checks
    <3>2. CASE kind = "jam" /\ pid[seen[p]] = pid[p]
      BY <1>3, <1>4, <2>3, <3>1, <3>2 DEF Checks, Holding, Names
    <3>3. CASE ~(kind = "jam" /\ pid[seen[p]] = pid[p]) /\ Runs(seen[p])
      BY <1>3, <2>3, <3>3 DEF Checks, Holding
    <3>4. CASE ~(kind = "jam" /\ pid[seen[p]] = pid[p]) /\ ~Runs(seen[p])
      <4>1. Gone(seen[p])
        BY <1>3, <3>4 DEF Gone, Runs, IInv, Known, Running
      <4> QED
        BY <1>3, <1>5, <2>3, <3>1, <3>4, <4>1 DEF Checks, Holding
    <3> QED
      BY <3>2, <3>3, <3>4
  <2>4. CASE Claims(p)
    <3>1. Gone(seen[p]) /\ Gone(seen[p])' /\ pc[p] = "claim"
      BY <1>4, <1>5, <2>4 DEF Claims
    <3> QED
      BY <1>3, <2>4, <3>1 DEF Claims, NextRound, Holding
  <2>5. CASE Again(p)
    <3>1. Gone(seen[p]) /\ Gone(seen[p])' /\ UNCHANGED <<file, seen>>
      BY <1>4, <1>5, <2>5 DEF Again
    <3> QED
      BY <1>3, <2>5, <3>1 DEF Again, Same, Holding
  <2>6. CASE Unlinks(p) \/ Removes(p)
    BY <1>3, <2>6 DEF Unlinks, Removes, Holding
  <2>7. CASE Tidies(p) \/ Releases(p)
    <3>1. Names(p)
      BY <1>4, <2>7 DEF Tidies, Releases, Holding
    <3> QED
      BY <1>3, <2>7, <3>1 DEF Tidies, Releases, Holding, Names
  <2>8. CASE TidiesLost(p) \/ LooksLast(p)
    BY <1>3, <2>8 DEF TidiesLost, LooksLast, NextRound, Holding
  <2> QED
    BY <1>7, <2>1, <2>2, <2>3, <2>4, <2>5, <2>6, <2>7, <2>8 DEF Acts, Takes
<1> QED
  BY <1>8, <1>9

\* No step breaks what is known of a process's own claim file.
LEMMA ClaimingKept == IInv /\ [Next]_vars => Claiming'
<1>1. CASE UNCHANGED vars
  BY <1>1 DEF vars, IInv, Claiming, Sound, Names, Gone, Same, Runs
<1> QED
  BY <1>1, StartKeeps, DeathKeeps, ActKeeps DEF Next, Acts, Claiming, Goes

\* Every step preserves the inductive invariant.
LEMMA Inductive == IInv /\ [Next]_vars => IInv'
  BY TypeKept, RunningKept, KnownKept, LinkedKept, ClaimingKept DEF IInv

\* The invariant holds of every state of every run, the slow create and the death included.
LEMMA InvariantHolds == Spec => []IInv
  BY Initially, Inductive, PTL DEF Spec

-----------------------------------------------------------------------------
(* One holder *)

(* The state of the lock files is what TypeOK says (exclusive.ts, journal.ts, listener.ts). *)
THEOREM TypesHold == Spec => []TypeOK
  BY InvariantHolds, PTL DEF IInv

\* The holder is the one the file names, so there is one.
LEMMA HoldersAgree ==
  ASSUME IInv, Sound, NEW p \in Holders, NEW q \in Holders
  PROVE  p = q
<1>1. p \in alive /\ q \in alive /\ Names(p) /\ Names(q)
  BY DEF Holders, IInv, TypeOK, Claiming
<1> QED
  BY <1>1 DEF Names, IInv, Running

\* Two holders would be the two names of one file, which the invariant rules out.
LEMMA OneHolderKept == IInv => OneHolder
<1> SUFFICES ASSUME IInv, Sound
             PROVE  /\ Cardinality(Holders) <= 1
                    /\ \A p \in Holders : file # None /\ pid[file] = pid[p]
  BY DEF OneHolder
<1>1. Cardinality(Holders) <= 1
  <2>1. CASE Holders = {}
    BY <2>1, FS_EmptySet
  <2>2. CASE Holders # {}
    <3>1. PICK p \in Holders : TRUE
      BY <2>2
    <3>2. Holders = {p}
      BY <3>1, HoldersAgree
    <3> QED
      BY <3>2, FS_Singleton
  <2> QED
    BY <2>1, <2>2
<1>2. ASSUME NEW p \in Holders PROVE file # None /\ pid[file] = pid[p]
  <2>1. Names(p) /\ p \in Process
    BY DEF Holders, IInv, TypeOK, Claiming
  <2> QED
    BY <2>1, ProcessAssumption DEF Names
<1> QED
  BY <1>1, <1>2

(* takeExclusive and acquireLock: "two starts at once can never both        *)
(* reclaim it".  Any number of starts, stopped between any two of their      *)
(* file operations, have one holder between them, and the file names it.    *)
THEOREM OneHolderHolds == Spec => []OneHolder
  BY InvariantHolds, OneHolderKept, PTL

-----------------------------------------------------------------------------
(* The abstract lock *)

Mapped == IF kind = "dev" THEN Holders ELSE {}

\* A start that joins the holders is alone; all else leaves them as they are or fewer by one.
LEMMA StepIsLock == IInv /\ IInv' /\ [Next]_vars => [Lock!LockNext]_Mapped
<1> SUFFICES ASSUME IInv, IInv', [Next]_vars, Mapped' # Mapped PROVE Lock!LockNext
  BY DEF Lock!LockNext
<1> USE DEF IInv, TypeOK, Running
<1>1. CASE UNCHANGED vars
  BY <1>1 DEF vars, Mapped, Holders
<1>2. ASSUME NEW p \in Process, Starts(p) \/ Dies(p) \/ Acts(p)
      PROVE  Lock!LockNext
  <2>1. /\ kind' = kind
        /\ \A q \in Process \ {p} : q \in Holders' <=> q \in Holders
        /\ Holders \subseteq Process /\ Holders' \subseteq Process
    <3>1. CASE Acts(p)
      BY <3>1, OneMoves DEF environment, Holders
    <3>2. CASE Starts(p) \/ Dies(p)
      BY <3>2 DEF Starts, Dies, Goto, Holders
    <3> QED
      BY <1>2, <3>1, <3>2
  <2>2. kind = "dev" /\ Holders' # Holders
    BY <2>1 DEF Mapped
  <2>3. CASE p \in Holders
    <3>1. p \notin Holders'
      <4> SUFFICES ASSUME p \in Holders' PROVE Holders' = Holders
        BY <2>2
      <4>1. \A q \in Process : q \in Holders' <=> q \in Holders
        BY <2>1, <2>3
      <4> QED
        BY <2>1, <4>1
    <3>2. Holders' = Holders \ {p}
      BY <2>1, <2>3, <3>1
    <3> QED
      BY <2>1, <2>2, <2>3, <3>2 DEF Lock!LockNext, Lock!Leave
  <2>4. CASE p \notin Holders
    <3>1. p \in Holders'
      <4> SUFFICES ASSUME p \notin Holders' PROVE Holders' = Holders
        BY <2>2
      <4>1. \A q \in Process : q \in Holders' <=> q \in Holders
        BY <2>1, <2>4
      <4> QED
        BY <2>1, <4>1
    <3>2. \A q \in Holders' : q = p
      BY <2>1, <2>2, <3>1 DEF Sound, Holders, Claiming, Names
    <3>3. Holders = {} /\ Holders' = {p}
      BY <2>1, <2>4, <3>1, <3>2
    <3> QED
      BY <2>1, <2>2, <3>3 DEF Lock!LockNext, Lock!Take
  <2> QED
    BY <2>3, <2>4
<1> QED
  BY <1>1, <1>2 DEF Next, Acts

(* src/server/exclusive.ts implements ExclusiveLock: dev.lock and the slots *)
(* are taken when nobody holds them and left by their holder, step by step. *)
THEOREM FileImplementsLock == Spec => ImplementsLock
<1>1. Init => Lock!LockInit
  BY DEF Init, Lock!LockInit, Holders
<1>2. IInv /\ IInv' /\ [Next]_vars => [Lock!LockNext]_(IF kind = "dev" THEN Holders ELSE {})
  BY StepIsLock DEF Mapped
<1> QED
  BY <1>1, <1>2, InvariantHolds, PTL DEF Spec, ImplementsLock, Lock!LockSpec

-----------------------------------------------------------------------------
(* Someone wins *)

\* Nothing was left lying, no pid came back and nobody died: what SomeoneWins asks.
Calm == "leftover" \notin slipped /\ \A p \in Process : pid[p] = p /\ pc[p] # "dead"

\* Some start has had the file; for as long as nobody dies it stays so.
Won == \E p \in Process : pc[p] \in {"write", "write2", "tidy", "held", "releasing", "left"}

\* Some start is about to remove the dead file, or has and makes its own.
Reclaiming == \E p \in Process : pc[p] \in {"again", "unlink", "recreate"}
Renewing == \E p \in Process : pc[p] = "recreate"

\* Until then the file is Old's or gone, and gone only when a start is about to make it
\* anew: none is turned away but for one that reclaims and will have it.
Pending(p) ==
  /\ seen[p] \in {None, Old}
  /\ pc[p] \notin {"handover", "rewrite", "tidyLost"}
  /\ pc[p] = "recreate" => file = None
  /\ pc[p] \in {"again", "unlink"} /\ kind # "listen" => file = Old
  /\ pc[p] = "check" /\ seen[p] = None => file = None
  /\ pc[p] \in {"last", "refused"} => Reclaiming
  /\ pc[p] \notin {"unborn", "look", "create"} /\ file = None => Renewing

Race ==
  /\ pid[Old] = Old /\ \A p \in Process : pc[p] = "unborn" => pid[p] = p
  /\ Calm /\ reclaim # None => reclaim \in Process /\ pc[reclaim] \in Under
  /\ Calm /\ ~Won => file \in {None, Old} /\ written /\ \A p \in Process : Pending(p)

\* Before the first step the race is calm: no file, nobody in it.
LEMMA RaceInitially == Init => Race
<1> SUFFICES ASSUME Init PROVE Race
  OBVIOUS
<1>1. Calm => reclaim = None /\ written
  BY DEF Init, Calm
<1> QED
  BY <1>1 DEF Init, Race, Someone, Pending

\* Who is not calm never was before, and a winner is one until it dies.
LEMMA CalmBefore ==
  ASSUME IInv, Race, [Next]_vars, Calm'
  PROVE  Calm /\ (Won => Won')
<1> USE DEF IInv, TypeOK, Running, Race, Calm, Someone
<1>1. CASE UNCHANGED vars
  BY <1>1 DEF vars, Won
<1>2. ASSUME NEW p \in Process, Starts(p) PROVE Calm /\ (Won => Won')
  BY <1>2 DEF Starts, Goto, Won
<1>3. ASSUME NEW p \in Process, Dies(p) PROVE FALSE
  BY <1>3 DEF Dies, Goto
<1>4. ASSUME NEW p \in Process, Acts(p) PROVE Calm /\ (Won => Won')
  <2>1. /\ p \in alive /\ UNCHANGED environment
        /\ \E w \in Where \ {"unborn", "dead"} : pc' = [pc EXCEPT ![p] = w]
    BY <1>4, OneMoves
  <2>2. UNCHANGED slipped
    BY <1>4 DEF Acts, Takes, LooksFirst, HandsOver, Rewrites, LooksLast, Creates, Recreates,
       Writes, Unlinks, Reads, Checks, Again, Claims, Tidies, TidiesLost, Releases, Removes, Yields
  <2>3. Calm
    BY <2>1, <2>2 DEF environment
  <2> DEFINE W == {"write", "write2", "tidy", "held", "releasing", "left"}
  <2>4. pc[p] \in W => pc'[p] \in W
    BY <1>4 DEF Acts, Takes, LooksFirst, HandsOver, Rewrites, LooksLast, Creates, Recreates,
       Writes, Unlinks, Reads, Checks, Again, Claims, Tidies, TidiesLost, Releases, Removes,
       Yields, Step, Goto
  <2> QED
    BY <2>1, <2>3, <2>4 DEF Won
<1> QED
  BY <1>1, <1>2, <1>3, <1>4 DEF Next, Acts

\* The reclaim file is there while its maker is at work under it.
LEMMA ReclaimersStand ==
  ASSUME IInv, Race, [Next]_vars, Calm', reclaim' # None
  PROVE  reclaim' \in Process /\ pc'[reclaim'] \in Under
<1> USE DEF IInv, TypeOK, Running, Race, Goto, Step, Under
<1>1. Calm
  BY CalmBefore
<1>2. CASE UNCHANGED vars
  BY <1>1, <1>2 DEF vars
<1>3. ASSUME NEW p \in Process, Starts(p) \/ Dies(p)
      PROVE  reclaim' \in Process /\ pc'[reclaim'] \in Under
  BY <1>1, <1>3 DEF Starts, Dies, files, Calm
<1>4. ASSUME NEW p \in Process, Claims(p)
      PROVE  reclaim' \in Process /\ pc'[reclaim'] \in Under
  BY <1>1, <1>4 DEF Claims, NextRound
<1>5. ASSUME NEW p \in Process, Acts(p), ~Claims(p)
      PROVE  reclaim' \in Process /\ pc'[reclaim'] \in Under
  <2>1. ~Tidies(p) /\ ~TidiesLost(p)
    BY DEF Tidies, TidiesLost
  <2>2. UNCHANGED reclaim
    BY <1>5, <2>1 DEF Acts, Takes, LooksFirst, HandsOver, Rewrites, LooksLast, Creates, Recreates,
       Writes, Unlinks, Reads, Checks, Again, Releases, Removes, Yields, files
  <2>3. \E w \in Where : pc' = [pc EXCEPT ![p] = w]
    BY <1>5, OneMoves
  <2>4. pc[p] \in Under => pc'[p] \in Under
    BY <1>5, <2>1 DEF Acts, Takes, LooksFirst, HandsOver, Rewrites, LooksLast, Creates, Recreates,
       Create, Writes, Unlinks, Reads, Checks, Again, Releases, Removes, Yields
  <2> QED
    BY <1>1, <2>2, <2>3, <2>4
<1> QED
  BY <1>2, <1>3, <1>4, <1>5 DEF Next, Acts

\* While nobody has won, the file changes from Old's to none, by one who makes it anew.
LEMMA RacersStand ==
  ASSUME IInv, Race, [Next]_vars, Calm', ~Won'
  PROVE  file' \in {None, Old} /\ written' /\ \A r \in Process : Pending(r)'
<1> USE DEF TypeOK, Someone
<1> DEFINE Stand == file' \in {None, Old} /\ written' /\ \A r \in Process : Pending(r)'
<1>1. TypeOK /\ Calm /\ ~Won
  BY CalmBefore DEF IInv
<1>2. file \in {None, Old} /\ written /\ \A r \in Process : Pending(r)
  BY <1>1 DEF Race
<1>3. ~Runs(Old) /\ pid[Old] = Old /\ \A r \in Process : pid[r] = r
  BY <1>1, ProcessAssumption DEF Race, Calm, Runs
<1>4. CASE UNCHANGED vars
  BY <1>2, <1>4 DEF vars, Pending, Reclaiming, Renewing
<1>5. ASSUME NEW p \in Process, Starts(p) PROVE Stand
  BY <1>1, <1>2, <1>5 DEF Starts, Goto, files, Pending, Reclaiming, Renewing
<1>6. ASSUME NEW p \in Process, Dies(p) PROVE Stand
  BY <1>1, <1>6 DEF Dies, Goto, Calm
<1>7. ASSUME NEW p \in Process, Acts(p) PROVE Stand
  <2>1. /\ p \in alive /\ UNCHANGED environment
        /\ \E w \in Where : pc' = [pc EXCEPT ![p] = w]
    BY <1>1, <1>7, OneMoves
  <2>2. pc[p] \notin {"write", "write2", "tidy", "held", "releasing", "left", "handover",
                     "rewrite", "tidyLost"}
    BY <1>1, <1>2 DEF Won, Pending
  <2>3. pc'[p] \notin {"write", "write2", "tidy", "held", "releasing", "left"}
    BY <1>1, <2>1 DEF Won
  <2>4. ~(Recreates(p) \/ Writes(p) \/ Tidies(p) \/ TidiesLost(p) \/ Releases(p)
          \/ Removes(p) \/ Yields(p) \/ HandsOver(p) \/ Rewrites(p))
    <3>1. ~Recreates(p)
      BY <1>1, <1>2, <2>3 DEF Recreates, Create, Step, Goto, Pending
    <3> QED
      BY <2>2, <3>1 DEF Writes, Tidies, TidiesLost, Releases, Removes, Yields, HandsOver,
         Rewrites, Step
  <2>5. pc[p] # "recreate"
    BY <1>7, <2>2, <2>4 DEF Acts, Takes, LooksFirst, Creates, Reads, Checks, Claims, Again, Unlinks,
       LooksLast, Step
  <2>6. Renewing => Renewing'
    BY <1>1, <2>1, <2>5 DEF Renewing
  <2>7. pc[p] \notin {"again", "unlink"} => (Reclaiming => Reclaiming')
    BY <1>1, <2>1, <2>5 DEF Reclaiming
  <2>8. \A r \in Process \ {p} : pc'[r] = pc[r] /\ seen'[r] = seen[r]
    BY <1>1, <1>7, <2>1, <2>4 DEF Acts, Takes, LooksFirst, Creates, Reads, NextRound, Checks, Claims,
       Again, Unlinks, LooksLast
  <2>9. ASSUME UNCHANGED <<file, written>>, Reclaiming => Reclaiming', Pending(p)' PROVE Stand
    <3>1. ASSUME NEW r \in Process \ {p} PROVE Pending(r)'
      <4>1. Pending(r) /\ pc'[r] = pc[r] /\ seen'[r] = seen[r] /\ file' = file /\ kind' = kind
        BY <1>2, <2>1, <2>8, <2>9 DEF environment
      <4> QED
        BY <2>6, <2>9, <4>1 DEF Pending
    <3> QED
      BY <1>2, <2>9, <3>1
  <2>10. Pending(p)
    BY <1>2
  <2> USE DEF Step, Goto, files
  <2>11. CASE LooksFirst(p)
    <3>1. /\ pc[p] = "look" /\ pc'[p] = "create" /\ UNCHANGED <<file, written, seen>>
      BY <1>1, <1>2, <1>3, <2>2, <2>11, ProcessAssumption DEF LooksFirst, Readable
    <3> QED
      BY <2>7, <2>9, <2>10, <3>1 DEF Pending
  <2>12. CASE Creates(p)
    <3>1. /\ pc[p] = "create" /\ pc'[p] = "read" /\ UNCHANGED <<file, written, seen>>
          /\ file = Old
      BY <1>1, <1>2, <2>3, <2>12 DEF Creates, Create
    <3> QED
      BY <2>7, <2>9, <2>10, <3>1, ProcessAssumption DEF Pending
  <2>13. CASE Reads(p)
    <3>1. /\ pc[p] = "read" /\ UNCHANGED <<file, written>>
          /\ \/ pc'[p] \in {"create", "last", "refused"} /\ file = None /\ seen' = seen
             \/ pc'[p] = "check" /\ seen'[p] = file
      BY <1>1, <1>2, <2>13 DEF Reads, NextRound, Readable
    <3>2. file = None => Renewing /\ Reclaiming
      BY <2>10, <3>1 DEF Pending, Renewing, Reclaiming
    <3> QED
      BY <1>2, <2>6, <2>7, <2>9, <2>10, <3>1, <3>2 DEF Pending
  <2>14. CASE Checks(p)
    <3>1. pc[p] = "check" /\ UNCHANGED <<file, written, seen>>
      BY <2>14 DEF Checks
    <3>2. pc'[p] = "claim"
      BY <1>1, <1>2, <1>3, <2>1, <2>3, <2>10, <2>14, <3>1, ProcessAssumption
         DEF Checks, Stale, Held, Pending, IInv, Linked
    <3> QED
      BY <2>6, <2>7, <2>9, <2>10, <3>1, <3>2 DEF Pending
  <2>15. CASE Claims(p)
    <3>1. pc[p] = "claim" /\ UNCHANGED <<file, written, seen>>
      BY <2>15 DEF Claims
    <3>2. CASE reclaim = None
      <4>1. pc'[p] = "again"
        BY <1>1, <2>15, <3>2 DEF Claims
      <4>2. kind # "listen" => file = Old
        <5>1. kind # "listen" => ~Renewing
          BY <3>2, ProcessAssumption DEF IInv, Linked, Under, Renewing
        <5> QED
          BY <1>2, <2>10, <3>1, <5>1 DEF Pending
      <4> QED
        BY <2>1, <2>6, <2>7, <2>9, <2>10, <3>1, <4>1, <4>2 DEF Pending, environment
    <3>3. CASE reclaim # None
      <4>1. pc'[p] \in {"create", "last", "refused"}
        BY <1>1, <2>15, <3>3 DEF Claims, NextRound
      <4>2. reclaim \in Process /\ pc[reclaim] \in {"again", "unlink", "recreate"}
        BY <1>1, <1>2, <3>3 DEF Race, Under, Won, Pending
      <4>3. Reclaiming'
        BY <2>7, <3>1, <4>2 DEF Reclaiming
      <4> QED
        BY <2>6, <2>9, <2>10, <3>1, <4>1, <4>3 DEF Pending
    <3> QED
      BY <3>2, <3>3
  <2>16. CASE Again(p)
    <3>1. pc[p] = "again" /\ UNCHANGED <<file, written, seen>>
      BY <2>16 DEF Again
    <3>2. pc'[p] = "unlink"
      <4>1. CASE kind = "listen"
        BY <1>1, <1>2, <1>3, <2>16, <4>1, ProcessAssumption DEF Again, Stale, Held, Readable
      <4>2. CASE kind # "listen"
        <5>1. file = Old /\ seen[p] = Old
          BY <2>10, <3>1, <4>2 DEF Pending, IInv, Linked
        <5> QED
          BY <1>1, <2>16, <4>2, <5>1, ProcessAssumption DEF Again, Same
      <4> QED
        BY <4>1, <4>2
    <3>3. Reclaiming'
      BY <1>1, <2>1, <3>2 DEF Reclaiming
    <3> QED
      BY <2>1, <2>6, <2>9, <2>10, <3>1, <3>2, <3>3 DEF Pending, environment
  <2>17. CASE Unlinks(p)
    <3>1. /\ pc[p] = "unlink" /\ pc'[p] = "recreate" /\ UNCHANGED seen /\ file' = None
          /\ written'
      BY <1>1, <2>10, <2>17, ProcessAssumption DEF Unlinks, Pending
    <3>2. Renewing' /\ Reclaiming'
      BY <1>1, <2>1, <3>1 DEF Renewing, Reclaiming
    <3>3. ASSUME NEW r \in Process PROVE Pending(r)'
      <4>1. pc'[r] \in {"again", "unlink"} => kind' = "listen"
        BY <2>1, <2>8, <3>1 DEF IInv, Linked, Under, environment
      <4>2. seen'[r] \in {None, Old} /\ pc'[r] \notin {"handover", "rewrite", "tidyLost"}
        BY <1>2, <2>8, <3>1 DEF Pending
      <4> QED
        BY <3>1, <3>2, <4>1, <4>2 DEF Pending
    <3> QED
      BY <3>1, <3>3
  <2>18. CASE LooksLast(p)
    <3>1. pc[p] = "last" /\ pc'[p] = "refused" /\ UNCHANGED <<file, written, seen>>
      BY <1>1, <2>18 DEF LooksLast
    <3> QED
      BY <2>6, <2>7, <2>9, <2>10, <3>1 DEF Pending
  <2> QED
    BY <1>7, <2>4, <2>11, <2>12, <2>13, <2>14, <2>15, <2>16, <2>17, <2>18 DEF Acts, Takes
<1> QED
  BY <1>4, <1>5, <1>6, <1>7 DEF Next, Acts

\* A pid is the system's to give only to a new process.
LEMMA PidsKept ==
  ASSUME IInv, Race, [Next]_vars
  PROVE  pid'[Old] = Old /\ \A p \in Process : pc'[p] = "unborn" => pid'[p] = p
<1> USE DEF IInv, TypeOK, Race, Someone
<1>1. ASSUME NEW p \in Process, Acts(p)
      PROVE  pid'[Old] = Old /\ \A q \in Process : pc'[q] = "unborn" => pid'[q] = q
  BY <1>1, OneMoves DEF environment
<1>2. ASSUME NEW p \in Process, Starts(p) \/ Dies(p)
      PROVE  pid'[Old] = Old /\ \A q \in Process : pc'[q] = "unborn" => pid'[q] = q
  BY <1>2, ProcessAssumption DEF Starts, Dies, Goto
<1> QED
  BY <1>1, <1>2 DEF Next, Acts, vars

\* The file goes round from calm to won, reclaimed, renewed and pending, and every step stays
\* on that round.
LEMMA RaceKept == IInv /\ Race /\ [Next]_vars => Race'
  BY PidsKept, ReclaimersStand, RacersStand DEF Race

\* When each has its answer and none has won, all were turned away, so one reclaims still.
LEMMA RaceWon == IInv /\ Race => SomeoneWins
<1> SUFFICES ASSUME IInv, Race, "leftover" \notin slipped,
                    \A p \in Process : pid[p] = p /\ pc[p] \in Answered,
                    \A p \in Process : pc[p] = "refused"
             PROVE  FALSE
  BY DEF SomeoneWins
<1>1. Calm /\ ~Won /\ ~Reclaiming
  BY DEF Calm, Won, Reclaiming
<1>2. PICK p \in Process : Pending(p)
  BY <1>1, ProcessAssumption DEF Race
<1> QED
  BY <1>1, <1>2 DEF Pending

(* takeExclusive, acquireLock and claimListener never turn all of the starts *)
(* away at once: when every one has its answer, some one had the lock.        *)
THEOREM SomeoneWinsHolds == Spec => []SomeoneWins
<1>1. Init => IInv /\ Race
  BY Initially, RaceInitially
<1>2. IInv /\ Race /\ [Next]_vars => (IInv /\ Race)'
  BY Inductive, RaceKept
<1> QED
  BY <1>1, <1>2, RaceWon, PTL DEF Spec
=============================================================================
