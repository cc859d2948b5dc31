--------------------------- MODULE TabGuardProofs ---------------------------
(* What holds of the Mac app's guard for any number of tabs and of events:  *)
(* no document is asked to go unless it is clean or the person agreed to    *)
(* exactly it, an unload owns its tab, the tab in front comes to wait       *)
(* unloaded in one way only, and an app that ends leaves no document behind *)
EXTENDS TabGuard, TLAPS

-----------------------------------------------------------------------------
(* The inductive invariant *)

\* The operation of a tab.  A quit has bound documents only while it asks or closes; a tab
\* it closed holds another document or none; who is asked about the document bound was
\* asked about the one the tab holds, and who said yes to it said yes to that one.
OpOK(t) ==
  /\ op[t].kind = "none" => op[t] = NoOp
  /\ op[t].kind = "unload" => op[t].stage = "act"
  /\ InSweep(t) => sweep.phase \in {"sheet", "closing"} /\ op[t].stage # "none"
  /\ InSweep(t) /\ op[t].stage = "closed" => ~op[t].same
  /\ op[t].consent /\ op[t].stage = "sheet" => InSweep(t) /\ sweep.phase = "closing"
  /\ op[t].same /\ op[t].stage = "sheet" /\ ~op[t].consent => answered[t] = "asked"
  /\ op[t].same /\ op[t].consent => answered[t] = "yes"

\* The page of a tab.  A document lives in a webContents; an unloaded tab has none and
\* nothing at work; a page an unload closes is the unload's.
ViewOK(t) ==
  /\ Kept(t) \/ loading[t] => wc[t] # "none"
  /\ unload[t] = "unloaded" => wc[t] = "none" /\ op[t] = NoOp
  /\ UnloadClosing(t) => op[t].kind = "unload" /\ wc[t] \in {"closing", "ending"}

\* A tab comes to wait where the same instance is told again: no invariant, but what every
\* step is shown to keep beside it.
FrontStays(t) == Waits(t)' => Waits(t) \/ ToldAgain(t)

\* TypeOK but for its last conjunct, which is ViewOK's first.
OpRec == [kind : Kinds \cup Shutdowns \cup {"unload", "none"}, same : BOOLEAN, consent : BOOLEAN,
          stage : {"none", "sheet", "bound", "act", "closed", "refused"}]
Pages ==
  /\ active \in Tab \cup {Home} /\ ready \in [Tab -> BOOLEAN] /\ loading \in [Tab -> BOOLEAN]
  /\ wc \in [Tab -> {"none", "open", "closing", "ending"}]
  /\ word \in [Tab -> {"none", "unknown", "stale", "clean", "unsaved"}]
  /\ unload \in [Tab -> {"no", "closing", "unsure", "unloaded", "reopening"}]
  /\ due \in [Tab -> BOOLEAN]
Guards ==
  /\ op \in [Tab -> OpRec] /\ queue \in [Tab -> SUBSET Kinds]
  /\ answered \in [Tab -> {"none", "asked", "yes"}]
App ==
  /\ sweep \in [phase : {"unloads", "start", "sheet", "closing"}, kind : Shutdowns] \cup {NoSweep}
  /\ stuck \in [kind : Shutdowns, tabs : (SUBSET Tab) \ {{}}] \cup {NoSheet}
  /\ end \in {"no", "restarting", "failed", "quit", "over"} /\ update \in {"none", "ready"} \cup Tab
  /\ events \in 0..MaxEvents
Types == Pages /\ Guards /\ App

IInv ==
  /\ Types
  /\ \A t \in Tab : OpOK(t) /\ ViewOK(t)
  /\ QuitLeavesNothing

\* What each step is shown to do.
Moves == IInv' /\ \A t \in Tab : FrontStays(t)

-----------------------------------------------------------------------------
\* No tab holds a document, and nothing is under way.
LEMMA Initially == Init => IInv
<1> SUFFICES ASSUME Init PROVE IInv
  OBVIOUS
<1>1. Types
  BY EventsAssumption DEF Init, Types, Pages, Guards, App, OpRec, NoOp
<1>2. ASSUME NEW t \in Tab PROVE OpOK(t) /\ ViewOK(t)
  BY KindsAssumption DEF Init, OpOK, ViewOK, NoOp, InSweep, Kept, UnloadClosing
<1>3. QuitLeavesNothing
  BY DEF Init, QuitLeavesNothing, Quitting
<1> QED
  BY <1>1, <1>2, <1>3 DEF IInv, Moves

\* An operation that goes on is one.
LEMMA Goes ==
  ASSUME NEW o \in OpRec
  PROVE  /\ \A s \in {"act", "refused", "closed"} : [o EXCEPT !.stage = s] \in OpRec
         /\ \A b \in BOOLEAN : [o EXCEPT !.same = b] \in OpRec /\ [o EXCEPT !.consent = b] \in OpRec
         /\ \A b \in BOOLEAN, s \in {"closed", o.stage} : [o EXCEPT !.same = b, !.stage = s] \in OpRec
BY DEF OpRec

\* An operation that begins is one, and so is none.
LEMMA Bounds ==
  /\ NoOp \in OpRec
  /\ \A k \in Kinds \cup Shutdowns \cup {"unload"}, s \in {"sheet", "bound", "act", "closed"} : Bound(k, s) \in OpRec
BY DEF OpRec, NoOp, Bound

-----------------------------------------------------------------------------
(* Types *)

\* What a tab's own steps change.
LEMMA LoadTypes == ASSUME Pages, NEW t \in Tab, NEW yes, LoadIf(t, yes)
                   PROVE  /\ loading' \in [Tab -> BOOLEAN]
                          /\ wc' \in [Tab -> {"none", "open", "closing", "ending"}]
                          /\ unload' \in [Tab -> {"no", "closing", "unsure", "unloaded", "reopening"}]
<1>1. CASE yes
  BY <1>1 DEF Pages, LoadIf, Load
<1>2. CASE ~yes
  BY <1>2 DEF Pages, LoadIf
<1> QED
  BY <1>1, <1>2

LEMMA NewTypes == ASSUME Guards, NEW t \in Tab, NewDocument(t)
                  PROVE  op' \in [Tab -> OpRec] /\ answered' \in [Tab -> {"none", "asked", "yes"}]
<1>1. op[t] \in OpRec
  BY DEF Guards
<1>2. NoOp \in OpRec /\ [op[t] EXCEPT !.same = FALSE] \in OpRec
  BY <1>1, Bounds, Goes
<1> QED
  BY <1>2 DEF NewDocument, Guards

LEMMA DocumentTypes ==
  ASSUME Types, NEW t \in Tab,
         \/ Activates(t) \/ (\E a \in BOOLEAN : Commits(t, a)) \/ (\E e \in BOOLEAN : Fails(t, e))
         \/ (\E says \in {"clean", "unsaved"} : Reports(t, says)) \/ Stops(t) \/ Rebinds(t) \/ ToldAgain(t) \/ Crashes(t)
         \/ LinkOpens(t) \/ Unsure(t) \/ Reopens(t) \/ NavStarts(t) \/ UpdateFreed(t)
  PROVE  Pages' /\ Guards' /\ (events' \in 0..MaxEvents => App')
<1> USE DEF Types, Pages, tab, guards, coordinator
<1>1. CASE Activates(t) \/ Rebinds(t) \/ Reopens(t)
  BY <1>1, LoadTypes DEF Activates, Rebinds, Reopens, Guards, App
<1>2. CASE \E a \in BOOLEAN : Commits(t, a)
  BY <1>2, NewTypes DEF Commits, Guards, App
<1>3. CASE \E e \in BOOLEAN : Fails(t, e)
  BY <1>3, NewTypes DEF Fails, Guards, App
<1>4. CASE \E says \in {"clean", "unsaved"} : Reports(t, says)
  BY <1>4 DEF Reports, Guards, App
<1>5. CASE Stops(t) \/ ToldAgain(t) \/ LinkOpens(t) \/ Unsure(t) \/ UpdateFreed(t)
  BY <1>5 DEF Stops, ToldAgain, LinkOpens, Unsure, UpdateFreed, Guards, App
<1>6. CASE Crashes(t)
  <2>1. CASE UnloadClosing(t)
    BY <1>6, <2>1 DEF Crashes, Guards, App
  <2>2. CASE ~UnloadClosing(t)
    BY <1>6, <2>2, NewTypes DEF Crashes, Guards, App
  <2> QED
    BY <2>1, <2>2
<1>7. CASE NavStarts(t)
  BY <1>7, Bounds DEF NavStarts, Guards, App
<1> QED
  BY <1>1, <1>2, <1>3, <1>4, <1>5, <1>6, <1>7

LEMMA ActTypes ==
  ASSUME Types, NEW t \in Tab, NEW o \in OpRec, Act(t, o)
  PROVE  op' \in [Tab -> OpRec] /\ wc' \in [Tab -> {"none", "open", "closing", "ending"}]
<1>1. [o EXCEPT !.stage = "act"] \in OpRec
  BY Goes
<1> QED
  BY <1>1 DEF Act, Types, Pages, Guards

LEMMA BeginsTypes ==
  ASSUME Types, NEW t \in Tab, NEW k \in Kinds, Begins(t, k)
  PROVE  Pages' /\ op' \in [Tab -> OpRec] /\ answered' \in [Tab -> {"none", "asked", "yes"}]
<1> USE DEF Types, Pages, Guards, coordinator
<1>1. CASE ViewlessAct(t, k)
  <2>1. op' \in [Tab -> OpRec] /\ UNCHANGED <<active, ready, word, due, answered>>
    BY <1>1, Bounds DEF Begins, ViewlessAct
  <2>2. /\ loading' \in [Tab -> BOOLEAN]
        /\ wc' \in [Tab -> {"none", "open", "closing", "ending"}]
        /\ unload' \in [Tab -> {"no", "closing", "unsure", "unloaded", "reopening"}]
    <3>1. CASE EndsUnload(t) /\ (Opens(t) \/ UNCHANGED <<loading, wc>>)
      BY <3>1 DEF EndsUnload, Opens
    <3>2. CASE LoadIf(t, ready[t])
      BY <3>2, LoadTypes
    <3> QED
      BY <1>1, <3>1, <3>2 DEF ViewlessAct
  <2> QED
    BY <2>1, <2>2
<1>2. CASE Act(t, Bound(k, "act")) /\ UNCHANGED <<active, loading, unload, answered>>
  BY <1>2, Bounds, ActTypes DEF Begins
<1>3. CASE active' = t /\ UNCHANGED <<loading, unload, wc, op, answered>>
  BY <1>3 DEF Begins
<1>4. CASE /\ op' = [op EXCEPT ![t] = Bound(k, "sheet")]
           /\ answered' = [answered EXCEPT ![t] = "asked"]
           /\ UNCHANGED <<active, loading, unload, wc>>
  BY <1>4, Bounds DEF Begins
<1> QED
  BY <1>1, <1>2, <1>3, <1>4 DEF Begins

LEMMA ForgetTypes ==
  ASSUME Pages, Guards, NEW F, Forget(F), UNCHANGED <<ready, active>>
  PROVE  Pages' /\ answered' \in [Tab -> {"none", "asked", "yes"}]
  BY DEF Forget, Pages, Guards

LEMMA OperationTypes ==
  ASSUME Types, NEW t \in Tab,
         \/ (\E k \in Kinds : Asks(t, k)) \/ Resumes(t) \/ (\E yes \in BOOLEAN : Answers(t, yes))
         \/ Unloads(t) \/ Destroyed(t) \/ Closes(t) \/ PageRefuses(t) \/ TimesOut(t) \/ (~InSweep(t) /\ Refuses(t))
  PROVE  Pages' /\ Guards' /\ (events' \in 0..MaxEvents => App')
<1> USE DEF Types, tab, guards, coordinator
<1>0. op[t] \in OpRec
  BY DEF Guards
<1>1. ASSUME NEW k \in Kinds, Asks(t, k) PROVE Pages' /\ Guards' /\ (events' \in 0..MaxEvents => App')
  <2>1. CASE op[t] = NoOp /\ Begins(t, k) /\ queue' = queue
    BY <2>1, BeginsTypes DEF Begins, Guards, App
  <2>2. CASE /\ op[t].kind = "unload" /\ queue' = [queue EXCEPT ![t] = @ \cup {k}]
             /\ active' = IF k = "load" THEN t ELSE active
             /\ UNCHANGED <<tab, op, answered, coordinator>>
    BY <2>2 DEF Pages, Guards, App
  <2> QED
    BY <1>1, <2>1, <2>2 DEF Asks
<1>2. CASE Resumes(t)
  <2>1. PICK k \in queue[t] : Begins(t, k)
    BY <1>2 DEF Resumes
  <2>2. k \in Kinds
    BY <2>1 DEF Guards
  <2>3. queue' \in [Tab -> SUBSET Kinds]
    BY <1>2 DEF Resumes, Guards
  <2> QED
    BY <2>1, <2>2, <2>3, BeginsTypes DEF Begins, Guards, App
<1>3. ASSUME NEW yes \in BOOLEAN, Answers(t, yes)
      PROVE Pages' /\ Guards' /\ (events' \in 0..MaxEvents => App')
  <2> DEFINE o == [op[t] EXCEPT !.consent = TRUE]
  <2>1. o \in OpRec
    BY <1>0, Goes
  <2>2. UNCHANGED <<ready, word, due, queue, coordinator>>
    BY <1>3 DEF Answers
  <2>3. \/ answered' = [answered EXCEPT ![t] = Yes(t)] /\ Act(t, o) /\ UNCHANGED <<active, loading, unload>>
        \/ /\ op' = [op EXCEPT ![t] = NoOp] /\ answered' = [answered EXCEPT ![t] = "none"]
           /\ active' = IF yes /\ Unsaved(t) THEN t ELSE active
           /\ UNCHANGED <<wc, loading, unload>>
    BY <1>3 DEF Answers
  <2> HIDE DEF o
  <2>4. CASE answered' = [answered EXCEPT ![t] = Yes(t)] /\ Act(t, o) /\ UNCHANGED <<active, loading, unload>>
    BY <2>1, <2>2, <2>4, ActTypes DEF Pages, Guards, App, Yes
  <2>5. CASE /\ op' = [op EXCEPT ![t] = NoOp] /\ answered' = [answered EXCEPT ![t] = "none"]
             /\ active' = IF yes /\ Unsaved(t) THEN t ELSE active
             /\ UNCHANGED <<wc, loading, unload>>
    BY <2>2, <2>5, Bounds DEF Pages, Guards, App
  <2> QED
    BY <2>3, <2>4, <2>5
<1>4. CASE Unloads(t)
  BY <1>4, Bounds, ActTypes DEF Unloads, Pages, Guards, App
<1>5. CASE Destroyed(t)
  <2>1. op' \in [Tab -> OpRec]
    <3>1. /\ NoOp \in OpRec /\ [op[t] EXCEPT !.same = FALSE, !.stage = "closed"] \in OpRec
          /\ [op[t] EXCEPT !.same = FALSE, !.stage = op[t].stage] \in OpRec
      BY <1>0, Bounds, Goes
    <3> QED
      BY <1>5, <3>1 DEF Destroyed, Guards, Asked
  <2>2. Pages' /\ answered' \in [Tab -> {"none", "asked", "yes"}]
    BY <1>5, ForgetTypes DEF Destroyed
  <2> QED
    BY <1>5, <2>1, <2>2 DEF Destroyed, Guards, App
<1>6. ASSUME Refused(t) PROVE op' \in [Tab -> OpRec]
  <2>1. [op[t] EXCEPT !.stage = "refused"] \in OpRec
    BY <1>0, Goes
  <2> QED
    BY <1>6, <2>1 DEF Refused, Guards
<1>7. CASE PageRefuses(t)
  BY <1>6, <1>7, Bounds DEF PageRefuses, Pages, Guards, App
<1>8. CASE TimesOut(t)
  BY <1>6, <1>8 DEF TimesOut, Pages, Guards, App
<1>9. CASE ~InSweep(t) /\ Refuses(t)
  BY <1>9, Bounds DEF Refuses, Pages, Guards, App
<1>10. CASE Closes(t)
  <2>1. op' \in [Tab -> OpRec] /\ UNCHANGED <<ready, word, due, queue, answered, coordinator>>
    BY <1>10, Bounds DEF Closes, Guards
  <2>2. CASE UNCHANGED <<active, loading, wc, unload>>
    BY <2>1, <2>2 DEF Pages, Guards, App
  <2>3. ASSUME NEW next \in (Tab \ {t}) \cup {Home}, active' = next, Shows(next)
        PROVE  Pages' /\ Guards' /\ (events' \in 0..MaxEvents => App')
    BY <2>1, <2>3, TabAssumption, LoadTypes DEF Shows, Pages, Guards, App
  <2> QED
    BY <1>10, <2>2, <2>3 DEF Closes
<1> QED
  BY <1>1, <1>2, <1>3, <1>4, <1>5, <1>7, <1>8, <1>9, <1>10

\* A shutdown refused takes the quit's operations away.
LEMMA RefusedTypes ==
  ASSUME Types, NEW t \in Tab \cup {Home}, NEW unsaved \in BOOLEAN, SweepRefused(t, unsaved),
         unsaved => t \in Tab, events' \in 0..MaxEvents
  PROVE  Types'
<1> USE DEF Types
<1>1. Pages'
  <2>1. CASE t = Home
    BY <2>1 DEF SweepRefused, SweepEnds, Pages
  <2>2. CASE t \in Tab
    BY <2>2, TabAssumption, LoadTypes DEF SweepRefused, SweepEnds, Pages
  <2> QED
    BY <2>1, <2>2
<1>2. Guards'
  BY Bounds DEF SweepRefused, EndedOps, Guards
<1>3. App'
  BY DEF SweepRefused, SweepEnds, RefusedUpdate, App
<1> QED
  BY <1>1, <1>2, <1>3

LEMMA ShutdownTypes ==
  ASSUME Types, events' \in 0..MaxEvents,
         \/ ShowsHome \/ Downloaded \/ (\E k \in Shutdowns : Requests(k)) \/ UnloadsOver \/ UnloadsStuck
         \/ (\E force \in BOOLEAN : StuckAnswered(force)) \/ SweepBinds
         \/ (\E yes \in BOOLEAN : SweepAnswered(yes)) \/ SweepCloses \/ Ending
         \/ (\E t \in Tab : InSweep(t) /\ Refuses(t))
  PROVE  Types'
<1> USE DEF Types, tab, guards, coordinator
<1>1. CASE ShowsHome \/ Downloaded \/ Ending
  BY <1>1 DEF ShowsHome, Downloaded, Ending, RestartFails, AlertAnswered, Exits, Pages, Guards, App
<1>2. CASE (\E k \in Shutdowns : Requests(k)) \/ UnloadsOver
  BY <1>2 DEF Requests, UnloadsOver, Phase, Pages, Guards, App, NoSweep
<1>3. CASE UnloadsStuck
  <2>1. Pages' /\ sweep' = NoSweep
    <3>1. CASE active = Home
      BY <1>3, <3>1 DEF UnloadsStuck, SweepEnds, Pages
    <3>2. CASE active \in Tab
      BY <1>3, <3>2, TabAssumption, LoadTypes DEF UnloadsStuck, SweepEnds, Pages
    <3> QED
      BY <3>1, <3>2 DEF Pages
  <2>2. Guards'
    BY <1>3 DEF UnloadsStuck, Guards
  <2>3. sweep.kind \in Shutdowns /\ Unloading \in (SUBSET Tab) \ {{}}
    BY <1>3 DEF UnloadsStuck, App, NoSweep, Unloading
  <2>4. App'
    BY <1>3, <2>1, <2>3 DEF UnloadsStuck, App
  <2> QED
    BY <2>1, <2>2, <2>4
<1>4. ASSUME NEW force \in BOOLEAN, StuckAnswered(force) PROVE Types'
  <2>1. CASE ~force
    BY <1>4, <2>1 DEF StuckAnswered, Pages, Guards, App
  <2>2. CASE force
    <3> DEFINE F == {t \in stuck.tabs : UnloadClosing(t)}
    <3>1. /\ Forget(F) /\ UNCHANGED <<active, ready, queue, end, update>> /\ stuck' = NoSheet
          /\ op' = [t \in Tab |-> IF t \in F THEN NoOp ELSE op[t]]
          /\ sweep' = IF Heard(stuck.kind) THEN [phase |-> Phase, kind |-> stuck.kind] ELSE sweep
      BY <1>4, <2>2 DEF StuckAnswered
    <3> HIDE DEF F
    <3>2. Pages' /\ Guards'
      BY <3>1, ForgetTypes, Bounds DEF Guards
    <3>3. stuck.kind \in Shutdowns /\ Phase \in {"unloads", "start"}
      BY <1>4 DEF StuckAnswered, App, Phase
    <3>4. App'
      BY <3>1, <3>3 DEF App
    <3> QED
      BY <3>2, <3>4
  <2> QED
    BY <2>1, <2>2
<1>5. CASE SweepBinds
  <2>1. CASE \E t \in Tab : SweepRefused(t, FALSE) \/ SweepRefused(t, TRUE)
    BY <2>1, RefusedTypes
  <2>2. CASE ~\E t \in Tab : SweepRefused(t, FALSE) \/ SweepRefused(t, TRUE)
    <3>1. sweep.kind \in Shutdowns
      BY <1>5 DEF SweepBinds, App, NoSweep
    <3> DEFINE list == {t \in Tab : Kept(t)}
               ask == {t \in list : ~Clean(t)}
    <3>2. /\ UNCHANGED <<active, tab, queue, stuck, end, update>>
          /\ sweep' = [sweep EXCEPT !.phase = IF ask = {} THEN "closing" ELSE "sheet"]
          /\ op' = [t \in Tab |-> IF t \in list THEN Bound(sweep.kind, IF t \in ask THEN "sheet" ELSE "bound")
                                     ELSE NoOp]
          /\ answered' = [t \in Tab |-> IF t \in ask THEN "asked" ELSE answered[t]]
      BY <1>5, <2>2, Zenon DEF SweepBinds
    <3> HIDE DEF list, ask
    <3>3. Guards'
      BY <3>1, <3>2, Bounds DEF Guards
    <3>4. Pages' /\ App'
      BY <1>5, <3>2 DEF SweepBinds, Pages, App, NoSweep
    <3> QED
      BY <3>3, <3>4
  <2> QED
    BY <2>1, <2>2
<1>6. ASSUME NEW yes \in BOOLEAN, SweepAnswered(yes) PROVE Types'
  <2>1. CASE \E t \in Tab \cup {Home}, u \in BOOLEAN : (u => t \in Tab) /\ SweepRefused(t, u)
    BY <2>1, RefusedTypes
  <2>2. CASE ~\E t \in Tab \cup {Home}, u \in BOOLEAN : (u => t \in Tab) /\ SweepRefused(t, u)
    <3> DEFINE ops == [t \in Tab |-> [op[t] EXCEPT !.consent = op[t].stage = "sheet"]]
    <3>1. /\ op' = [t \in Tab |-> IF InSweep(t) THEN ops[t] ELSE op[t]]
          /\ answered' = [t \in Tab |-> IF InSweep(t) THEN Yes(t) ELSE answered[t]]
          /\ sweep' = [sweep EXCEPT !.phase = "closing"]
          /\ UNCHANGED <<active, tab, queue, stuck, end, update>>
      <4>1. active \in Tab \cup {Home} /\ \A t \in Tab : Unsaved(t) \in BOOLEAN
        BY DEF Pages, Unsaved
      <4> QED
        BY <1>6, <2>2, <4>1 DEF SweepAnswered
    <3>2. \A t \in Tab : ops[t] \in OpRec
      BY Goes DEF Guards
    <3> HIDE DEF ops
    <3>3. Guards'
      BY <3>1, <3>2 DEF Guards, Yes
    <3>4. Pages' /\ App'
      BY <1>6, <3>1 DEF SweepAnswered, Pages, App, NoSweep
    <3> QED
      BY <3>3, <3>4
  <2> QED
    BY <2>1, <2>2
<1>7. CASE SweepCloses
  <2>1. CASE \E t \in Tab, u \in BOOLEAN : SweepRefused(t, u)
    BY <2>1, RefusedTypes
  <2>2. CASE \E t \in Tab : Act(t, op[t]) /\ UNCHANGED <<active, loading, unload, sweep, update, answered>>
                            /\ UNCHANGED <<ready, word, due, queue, stuck, end>>
    <3>1. PICK t \in Tab : Act(t, op[t]) /\ UNCHANGED <<active, loading, unload, sweep, update, answered>>
                           /\ UNCHANGED <<ready, word, due, queue, stuck, end>>
      BY <2>2
    <3>2. op[t] \in OpRec
      BY DEF Guards
    <3> QED
      BY <3>1, <3>2, ActTypes DEF Pages, Guards, App
  <2>3. CASE /\ end' = IF sweep.kind = "update" THEN "restarting" ELSE "quit"
             /\ op' = EndedOps /\ sweep' = NoSweep
             /\ UNCHANGED <<active, tab, queue, answered, stuck, update>>
    BY <2>3, Bounds DEF Pages, Guards, App, EndedOps
  <2>4. \A t \in Tab : Unsaved(t) \in BOOLEAN
    BY DEF Unsaved
  <2> QED
    BY <1>7, <2>1, <2>2, <2>3, <2>4 DEF SweepCloses, Newcomers, Left
<1>8. CASE \E t \in Tab : InSweep(t) /\ Refuses(t)
  BY <1>8, RefusedTypes DEF Refuses
<1> QED
  BY <1>1, <1>2, <1>3, <1>4, <1>5, <1>6, <1>7, <1>8

\* A step on the tab t, by what it may be: of its document, or of its operation.
DocumentStep(t) ==
  \/ Activates(t) \/ (\E a \in BOOLEAN : Commits(t, a)) \/ (\E e \in BOOLEAN : Fails(t, e))
  \/ (\E says \in {"clean", "unsaved"} : Reports(t, says)) \/ Stops(t) \/ Rebinds(t) \/ ToldAgain(t) \/ Crashes(t)
  \/ LinkOpens(t) \/ Unsure(t) \/ Reopens(t) \/ NavStarts(t) \/ UpdateFreed(t)
OperationStep(t) ==
  \/ (\E k \in Kinds : Asks(t, k)) \/ Resumes(t) \/ (\E yes \in BOOLEAN : Answers(t, yes))
  \/ Unloads(t) \/ Destroyed(t) \/ Closes(t) \/ PageRefuses(t) \/ TimesOut(t) \/ (~InSweep(t) /\ Refuses(t))
ShutdownStep ==
  \/ ShowsHome \/ Downloaded \/ (\E k \in Shutdowns : Requests(k)) \/ UnloadsOver \/ UnloadsStuck
  \/ (\E force \in BOOLEAN : StuckAnswered(force)) \/ SweepBinds
  \/ (\E yes \in BOOLEAN : SweepAnswered(yes)) \/ SweepCloses
  \/ (\E t \in Tab : InSweep(t) /\ Refuses(t))

\* Next, by these kinds; once the app quits only its end goes on.
LEMMA Steps ==
  ASSUME Types, Next
  PROVE  /\ events' \in 0..MaxEvents
         /\ \/ Ending
            \/ ~Quitting /\ \E t \in Tab : DocumentStep(t) \/ OperationStep(t)
            \/ ~Quitting /\ ShutdownStep
<1> USE DEF DocumentStep, OperationStep, ShutdownStep
<1>0. events \in 0..MaxEvents /\ events \in Nat
  BY EventsAssumption DEF Types, App
<1>1. CASE Resumed
  BY <1>0, <1>1 DEF Resumed, Resume
<1>2. CASE Turn(Step)
  <2>1. Step /\ ~Quitting /\ events' = events
    BY <1>2 DEF Turn
  <2>2. CASE \E t \in Tab : Document(t) \/ Timers(t) \/ Person(t) \/ Unloads(t) \/ UpdateFreed(t)
    BY <1>0, <2>1, <2>2 DEF Document, Timers, Person
  <2>3. CASE \/ ShowsHome \/ Downloaded \/ (\E k \in Shutdowns : Requests(k)) \/ UnloadsOver \/ UnloadsStuck
             \/ \E yes \in BOOLEAN : StuckAnswered(yes) \/ SweepAnswered(yes)
    BY <1>0, <2>1, <2>3
  <2> QED
    BY <2>1, <2>2, <2>3 DEF Step
<1>3. CASE Happens
  <2>1. ~Quitting /\ events' \in 0..MaxEvents
    BY <1>0, <1>3, EventsAssumption DEF Happens
  <2>2. \E t \in Tab : DocumentStep(t) \/ OperationStep(t)
    BY <1>3 DEF Happens, Event
  <2> QED
    BY <2>1, <2>2
<1>4. CASE Ended
  BY <1>0, <1>4 DEF Ended
<1> QED
  BY <1>1, <1>2, <1>3, <1>4 DEF Next

\* The types are kept.
LEMMA TypesKept == Types /\ [Next]_vars => Types'
<1> SUFFICES ASSUME Types, [Next]_vars PROVE Types'
  OBVIOUS
<1>1. CASE UNCHANGED vars
  BY <1>1 DEF vars, tab, guards, coordinator, Types, Pages, Guards, App
<1>2. CASE Next
  BY <1>2, Steps, DocumentTypes, OperationTypes, ShutdownTypes
     DEF DocumentStep, OperationStep, ShutdownStep, Types
<1> QED
  BY <1>1, <1>2

-----------------------------------------------------------------------------
(* Steps on one tab *)

\* The tab u is left as it is.
Same(u) ==
  /\ ready'[u] = ready[u] /\ wc'[u] = wc[u] /\ loading'[u] = loading[u] /\ word'[u] = word[u]
  /\ unload'[u] = unload[u] /\ due'[u] = due[u]
  /\ op'[u] = op[u] /\ queue'[u] = queue[u] /\ answered'[u] = answered[u]

\* A step on the tab t leaves the others and the shutdown.
Alone(t) ==
  /\ \A u \in Tab \ {t} : Same(u)
  /\ active' \in {active, t, Home} /\ UNCHANGED <<sweep, end>>

\* So it keeps the invariant where it keeps what is said of t.
LEMMA OneTab ==
  ASSUME IInv, Types', ~Quitting, NEW t \in Tab, Alone(t), OpOK(t)', ViewOK(t)', FrontStays(t)
  PROVE  Moves
<1>1. ASSUME NEW u \in Tab \ {t} PROVE OpOK(u)' /\ ViewOK(u)' /\ FrontStays(u)
  <2>1. OpOK(u) /\ ViewOK(u) /\ Same(u)
    BY DEF IInv, Alone
  <2>2. OpOK(u)'
    BY <2>1 DEF Alone, Same, OpOK, InSweep
  <2>3. ViewOK(u)'
    BY <2>1 DEF Alone, Same, ViewOK, Kept, UnloadClosing
  <2>4. active' = u => active = u
    BY TabAssumption DEF Alone
  <2>5. FrontStays(u)
    BY <2>1, <2>4 DEF Alone, Same, FrontStays, Waits, Sweeping, Quitting
  <2> QED
    BY <2>2, <2>3, <2>5
<1>2. QuitLeavesNothing'
  BY DEF Alone, QuitLeavesNothing, Quitting
<1> QED
  BY <1>1, <1>2 DEF IInv, Moves

\* What is known of one tab.
LEMMA OfTab ==
  ASSUME IInv, NEW t \in Tab
  PROVE  /\ Pages /\ Guards /\ App /\ OpOK(t) /\ ViewOK(t) /\ op[t] \in OpRec
         /\ op[t].kind \notin Shutdowns \/ op[t].kind \notin Kinds \cup {"unload", "none"}
  BY KindsAssumption DEF IInv, Types, Guards

\* A load ends what kept the tab unloaded and makes its view.
LEMMA LoadsIt ==
  ASSUME IInv, NEW t \in Tab, NEW yes, LoadIf(t, yes)
  PROVE  /\ \A u \in Tab \ {t} : loading'[u] = loading[u] /\ wc'[u] = wc[u] /\ unload'[u] = unload[u]
         /\ yes => /\ wc'[t] # "none" /\ unload'[t] # "unloaded"
                   /\ wc'[t] = wc[t] \/ wc[t] = "none"
                   /\ unload'[t] = unload[t] \/ unload'[t] = "reopening"
         /\ ~yes => loading'[t] = loading[t] /\ wc'[t] = wc[t] /\ unload'[t] = unload[t]
  BY DEF IInv, Types, Pages, LoadIf, Load

\* A new document: what was bound or answered was about another.
LEMMA NewIt ==
  ASSUME IInv, NEW t \in Tab, NewDocument(t)
  PROVE  /\ \A u \in Tab \ {t} : op'[u] = op[u] /\ answered'[u] = answered[u]
         /\ answered'[t] = "none"
         /\ \/ op[t] = NoOp /\ op'[t] = NoOp
            \/ op[t] # NoOp /\ op'[t] = [op[t] EXCEPT !.same = FALSE]
  BY DEF IInv, Types, Guards, NewDocument

\* A new document keeps what is said of the operation.
LEMMA NewKeeps ==
  ASSUME IInv, NEW t \in Tab, NewDocument(t), UNCHANGED sweep
  PROVE  OpOK(t)' /\ op'[t].kind = op[t].kind /\ (op[t] = NoOp => op'[t] = NoOp)
<1>1. OpOK(t) /\ op[t] \in OpRec
  BY OfTab
<1>2. CASE op[t] = NoOp /\ op'[t] = NoOp
  BY <1>1, <1>2, KindsAssumption DEF OpOK, NoOp, InSweep
<1>3. CASE op[t] # NoOp /\ op'[t] = [op[t] EXCEPT !.same = FALSE]
  BY <1>1, <1>3 DEF OpOK, InSweep, OpRec
<1> QED
  BY <1>2, <1>3, NewIt

\* A step of a document keeps the invariant.
LEMMA DocumentKeeps ==
  ASSUME IInv, Types', ~Quitting, NEW t \in Tab, DocumentStep(t)
  PROVE  Moves
<1> USE DEF tab, guards, coordinator
<1>0. /\ Pages /\ Guards /\ App /\ OpOK(t) /\ ViewOK(t) /\ op[t] \in OpRec
      /\ op[t].kind \notin Shutdowns \/ op[t].kind \notin Kinds \cup {"unload", "none"}
  BY OfTab
<1>1. CASE Activates(t)
  <2>1. Alone(t)
    BY <1>1, LoadsIt DEF Activates, Alone, Same
  <2>2. OpOK(t)' /\ ViewOK(t)'
    BY <1>0, <1>1, LoadsIt DEF Activates, OpOK, ViewOK, InSweep, Kept, UnloadClosing, LoadsNow, WantsLoad
  <2>3. FrontStays(t)
    BY <1>0, <1>1, LoadsIt DEF Activates, FrontStays, Waits, ViewOK, LoadsNow, WantsLoad, Kept, Sweeping, Quitting
  <2> QED
    BY <2>1, <2>2, <2>3, OneTab
<1>2. ASSUME NEW a \in BOOLEAN, Commits(t, a) PROVE Moves
  <2>1. Alone(t)
    <3>1. /\ \E w \in {"unknown", "none"} : word' = [word EXCEPT ![t] = w]
          /\ \E l \in BOOLEAN : loading' = [loading EXCEPT ![t] = l]
          /\ \E n : unload' = [unload EXCEPT ![t] = n]
      BY <1>0, <1>2, Zenon DEF Commits, Pages
    <3>2. NewDocument(t) /\ UNCHANGED <<active, ready, wc, due, queue, coordinator>>
      BY <1>2 DEF Commits
    <3> QED
      BY <1>0, <3>1, <3>2, NewIt DEF Alone, Same, Pages
  <2>2. OpOK(t)' /\ op'[t].kind = op[t].kind /\ (op[t] = NoOp => op'[t] = NoOp)
    BY <1>2, NewKeeps DEF Commits
  <2>3. ViewOK(t)' /\ FrontStays(t)
    BY <1>0, <1>2, <2>2 DEF Commits, ViewOK, FrontStays, Waits, Kept, UnloadClosing, Pages, Sweeping, Quitting
  <2> QED
    BY <2>1, <2>2, <2>3, OneTab
<1>3. ASSUME NEW e \in BOOLEAN, Fails(t, e) PROVE Moves
  <2>1. Alone(t)
    <3>1. /\ \E w \in {"stale", "none"} : word' = [word EXCEPT ![t] = w]
          /\ loading' = [loading EXCEPT ![t] = FALSE]
          /\ \E n : unload' = [unload EXCEPT ![t] = n]
      BY <1>0, <1>3, Zenon DEF Fails, Pages
    <3>2. NewDocument(t) /\ UNCHANGED <<active, ready, wc, due, queue, coordinator>>
      BY <1>3 DEF Fails
    <3> QED
      BY <1>0, <3>1, <3>2, NewIt DEF Alone, Same, Pages
  <2>2. OpOK(t)' /\ op'[t].kind = op[t].kind /\ (op[t] = NoOp => op'[t] = NoOp)
    BY <1>3, NewKeeps DEF Fails
  <2>3. ViewOK(t)' /\ FrontStays(t)
    BY <1>0, <1>3, <2>2 DEF Fails, ViewOK, FrontStays, Waits, Kept, UnloadClosing, Pages, Sweeping, Quitting
  <2> QED
    BY <2>1, <2>2, <2>3, OneTab
<1>4. ASSUME NEW says \in {"clean", "unsaved"}, Reports(t, says) PROVE Moves
  <2>1. Alone(t)
    BY <1>0, <1>4 DEF Reports, Alone, Same, Pages
  <2>2. OpOK(t)' /\ ViewOK(t)' /\ FrontStays(t)
    BY <1>0, <1>4 DEF Reports, OpOK, InSweep, ViewOK, FrontStays, Waits, Kept, UnloadClosing, Pages, Sweeping, Quitting
  <2> QED
    BY <2>1, <2>2, OneTab
<1>5. CASE Stops(t)
  <2>1. Alone(t)
    BY <1>0, <1>5 DEF Stops, Alone, Same, Pages
  <2>2. OpOK(t)' /\ ViewOK(t)' /\ FrontStays(t)
    BY <1>0, <1>5 DEF Stops, OpOK, InSweep, ViewOK, FrontStays, Waits, Kept, UnloadClosing, Pages, Sweeping, Quitting
  <2> QED
    BY <2>1, <2>2, OneTab
<1>6. CASE Rebinds(t)
  <2> DEFINE yes == /\ active = t /\ ~Kept(t) /\ ~loading[t] /\ wc[t] \in {"none", "open"}
                    /\ ~(unload[t] = "unloaded" /\ Sweeping)
  <2>1. LoadIf(t, yes) /\ ready' = [ready EXCEPT ![t] = TRUE]
        /\ UNCHANGED <<active, word, due, guards, coordinator>>
    BY <1>6 DEF Rebinds
  <2>2. active = t /\ unload[t] = "unloaded" => yes \/ Sweeping
    BY <1>0 DEF ViewOK
  <2>3. yes => wc[t] \in {"none", "open"}
    OBVIOUS
  <2> HIDE DEF yes
  <2>4. Alone(t)
    BY <1>0, <2>1, LoadsIt DEF Alone, Same, Pages
  <2>5. OpOK(t)' /\ ViewOK(t)' /\ FrontStays(t)
    BY <1>0, <2>1, <2>2, <2>3, LoadsIt
       DEF OpOK, InSweep, ViewOK, FrontStays, Waits, Kept, UnloadClosing, Sweeping, Quitting
  <2> QED
    BY <2>4, <2>5, OneTab
<1>14. CASE ToldAgain(t)
  <2>1. Alone(t)
    BY <1>0, <1>14 DEF ToldAgain, Alone, Same, Pages
  <2>2. OpOK(t)' /\ ViewOK(t)' /\ FrontStays(t)
    BY <1>0, <1>14 DEF ToldAgain, OpOK, InSweep, ViewOK, FrontStays, Kept, UnloadClosing
  <2> QED
    BY <2>1, <2>2, OneTab
<1>7. CASE Crashes(t) /\ UnloadClosing(t)
  <2>1. Alone(t)
    BY <1>0, <1>7 DEF Crashes, Alone, Same, Pages
  <2>2. OpOK(t)' /\ ViewOK(t)' /\ FrontStays(t)
    BY <1>0, <1>7 DEF Crashes, OpOK, InSweep, ViewOK, FrontStays, Waits, Kept, UnloadClosing, Pages, Sweeping, Quitting
  <2> QED
    BY <2>1, <2>2, OneTab
<1>8. CASE Crashes(t) /\ ~UnloadClosing(t)
  <2>1. Alone(t)
    BY <1>0, <1>8, NewIt DEF Crashes, Alone, Same, Pages
  <2>2. OpOK(t)' /\ op'[t].kind = op[t].kind /\ (op[t] = NoOp => op'[t] = NoOp)
    BY <1>8, NewKeeps DEF Crashes
  <2>3. ViewOK(t)' /\ FrontStays(t)
    BY <1>0, <1>8, <2>2 DEF Crashes, ViewOK, FrontStays, Waits, Kept, UnloadClosing, Pages, Sweeping, Quitting
  <2> QED
    BY <2>1, <2>2, <2>3, OneTab
<1>9. CASE LinkOpens(t)
  <2>1. Alone(t)
    BY <1>0, <1>9 DEF LinkOpens, Alone, Same, Pages
  <2>2. OpOK(t)' /\ ViewOK(t)' /\ FrontStays(t)
    BY <1>0, <1>9 DEF LinkOpens, OpOK, InSweep, ViewOK, FrontStays, Waits, Kept, UnloadClosing, Pages, WantsLoad
  <2> QED
    BY <2>1, <2>2, OneTab
<1>10. CASE Unsure(t)
  <2>1. Alone(t)
    BY <1>0, <1>10 DEF Unsure, Alone, Same, Pages
  <2>2. OpOK(t)' /\ ViewOK(t)' /\ FrontStays(t)
    BY <1>0, <1>10 DEF Unsure, OpOK, InSweep, ViewOK, FrontStays, Waits, Kept, UnloadClosing, Pages
  <2> QED
    BY <2>1, <2>2, OneTab
<1>11. CASE Reopens(t)
  <2>1. Alone(t)
    BY <1>0, <1>11, LoadsIt DEF Reopens, Alone, Same, Pages
  <2>2. OpOK(t)' /\ ViewOK(t)'
    BY <1>0, <1>11, LoadsIt DEF Reopens, OpOK, ViewOK, InSweep, Kept, UnloadClosing, LoadsNow, WantsLoad
  <2>3. FrontStays(t)
    BY <1>0, <1>11, LoadsIt DEF Reopens, FrontStays, Waits, ViewOK, LoadsNow, WantsLoad, Kept, Sweeping, Quitting
  <2> QED
    BY <2>1, <2>2, <2>3, OneTab
<1>12. CASE NavStarts(t)
  <2>1. Alone(t)
    BY <1>0, <1>12 DEF NavStarts, Alone, Same, Pages, Guards
  <2>2. op'[t] = NoOp /\ answered'[t] = "none" /\ loading'[t] /\ op[t].kind = "load"
    BY <1>0, <1>12 DEF NavStarts, Pages, Guards
  <2>3. OpOK(t)'
    BY <2>2, KindsAssumption DEF OpOK, NoOp, InSweep
  <2>4. ViewOK(t)' /\ FrontStays(t)
    BY <1>0, <1>12, <2>2 DEF NavStarts, ViewOK, FrontStays, Waits, Kept, UnloadClosing, Sweeping, Quitting
  <2> QED
    BY <2>1, <2>3, <2>4, OneTab
<1>13. CASE UpdateFreed(t)
  <2>1. Alone(t)
    BY <1>13 DEF UpdateFreed, Alone, Same
  <2>2. OpOK(t)' /\ ViewOK(t)' /\ FrontStays(t)
    BY <1>0, <1>13 DEF UpdateFreed, OpOK, InSweep, ViewOK, FrontStays, Waits, Kept, UnloadClosing, Sweeping, Quitting
  <2> QED
    BY <2>1, <2>2, OneTab
<1> QED
  BY <1>1, <1>2, <1>3, <1>4, <1>5, <1>6, <1>7, <1>8, <1>9, <1>10, <1>11, <1>12, <1>13, <1>14 DEF DocumentStep

\* An act that begins takes the tab's operation, and its page is asked to close.
LEMMA Acts ==
  ASSUME IInv, NEW t \in Tab, NEW o \in OpRec, Act(t, o)
  PROVE  /\ \A u \in Tab \ {t} : op'[u] = op[u] /\ wc'[u] = wc[u]
         /\ op'[t] = [o EXCEPT !.stage = "act"]
         /\ op'[t].kind = o.kind /\ op'[t].same = o.same /\ op'[t].consent = o.consent /\ op'[t].stage = "act"
         /\ wc'[t] = wc[t] \/ (wc[t] = "open" /\ wc'[t] = "closing")
         /\ wc[t] = "open" /\ o.kind # "load" => wc'[t] = "closing"
<1>1. /\ \A u \in Tab \ {t} : op'[u] = op[u] /\ wc'[u] = wc[u]
      /\ op'[t] = [o EXCEPT !.stage = "act"]
      /\ wc'[t] = wc[t] \/ (wc[t] = "open" /\ wc'[t] = "closing")
      /\ wc[t] = "open" /\ o.kind # "load" => wc'[t] = "closing"
  BY DEF IInv, Types, Pages, Guards, Act
<1> QED
  BY <1>1 DEF OpRec

\* guard, on a tab with nothing under way (its queue as it is, or empty).
LEMMA BeginsKeeps ==
  ASSUME IInv, Types', ~Quitting, NEW t \in Tab, NEW k \in Kinds, op[t] = NoOp, Begins(t, k),
         queue' = queue \/ queue' = [queue EXCEPT ![t] = {}]
  PROVE  Moves
<1> USE DEF coordinator
<1>0. /\ Pages /\ Guards /\ App /\ OpOK(t) /\ ViewOK(t) /\ op[t] \in OpRec
      /\ k \notin Shutdowns /\ k \in {"close", "load"} /\ "none" \notin Shutdowns
  BY OfTab, KindsAssumption
<1>1. UNCHANGED <<ready, word, due, coordinator>> /\ ~UnloadClosing(t) /\ ~InSweep(t)
  BY <1>0 DEF Begins, ViewOK, NoOp, InSweep
<1>2. \A u \in Tab \ {t} : queue'[u] = queue[u]
  BY <1>0 DEF Guards
<1>3. CASE ~Kept(t) /\ wc[t] = "none" /\ ViewlessAct(t, k)
  <2>1. /\ UNCHANGED <<active, answered>> /\ ~Kept(t)'
        /\ \A u \in Tab \ {t} : /\ op'[u] = op[u] /\ loading'[u] = loading[u] /\ wc'[u] = wc[u]
                                /\ unload'[u] = unload[u]
    BY <1>0, <1>1, <1>3, LoadsIt DEF ViewlessAct, EndsUnload, Opens, Kept, Pages, Guards
  <2>2. /\ op'[t] = op[t] \/ op'[t] = Bound(k, "closed")
        /\ loading'[t] => wc'[t] # "none"
        /\ unload'[t] \notin {"closing", "unsure"}
        /\ unload'[t] = "unloaded" => unload[t] = "unloaded" /\ op'[t] = NoOp /\ wc'[t] = "none" /\ ~ready[t]
    <3>1. CASE EndsUnload(t) /\ Opens(t) /\ op' = op
      BY <1>0, <1>1, <1>3, <3>1 DEF EndsUnload, Opens, ViewOK, UnloadClosing, Pages
    <3>2. CASE LoadIf(t, ready[t]) /\ op' = op
      BY <1>0, <1>1, <1>3, <3>2 DEF LoadIf, Load, ViewOK, UnloadClosing, Pages
    <3>3. CASE op' = [op EXCEPT ![t] = Bound(k, "closed")] /\ EndsUnload(t) /\ UNCHANGED <<loading, wc>>
      BY <1>0, <1>1, <1>3, <3>3 DEF EndsUnload, ViewOK, UnloadClosing, Pages, Guards
    <3> QED
      BY <1>3, <3>1, <3>2, <3>3 DEF ViewlessAct
  <2>3. Alone(t)
    BY <1>1, <1>2, <2>1 DEF Alone, Same
  <2>4. OpOK(t)'
    BY <1>0, <1>1, <2>1, <2>2 DEF OpOK, InSweep, Bound
  <2>5. ViewOK(t)' /\ FrontStays(t)
    BY <1>0, <1>1, <2>1, <2>2 DEF ViewOK, FrontStays, Waits, UnloadClosing
  <2> QED
    BY <2>3, <2>4, <2>5, OneTab
<1>4. CASE /\ wc[t] # "none" /\ (~Kept(t) \/ Clean(t))
           /\ Act(t, Bound(k, "act")) /\ UNCHANGED <<active, loading, unload, answered>>
  <2>1. Bound(k, "act") \in OpRec
    BY Bounds
  <2>2. /\ \A u \in Tab \ {t} : op'[u] = op[u] /\ wc'[u] = wc[u]
        /\ op'[t].kind = k /\ ~op'[t].consent /\ op'[t].stage = "act"
        /\ wc'[t] # "none"
    BY <1>4, <2>1, Acts DEF Bound
  <2>3. Alone(t)
    BY <1>1, <1>2, <1>4, <2>2 DEF Alone, Same
  <2>4. OpOK(t)' /\ ViewOK(t)' /\ FrontStays(t)
    BY <1>0, <1>1, <1>4, <2>2 DEF OpOK, InSweep, ViewOK, FrontStays, Waits, UnloadClosing, Kept
  <2> QED
    BY <2>3, <2>4, OneTab
<1>5. CASE Unsaved(t) /\ active' = t /\ UNCHANGED <<loading, unload, wc, op, answered>>
  <2>1. Alone(t)
    BY <1>1, <1>2, <1>5 DEF Alone, Same
  <2>2. OpOK(t)' /\ ViewOK(t)' /\ FrontStays(t)
    BY <1>0, <1>1, <1>5 DEF OpOK, InSweep, ViewOK, FrontStays, Waits, UnloadClosing, Kept, Unsaved
  <2> QED
    BY <2>1, <2>2, OneTab
<1>6. CASE /\ Kept(t) /\ ~Clean(t) /\ ~Unsaved(t)
           /\ op' = [op EXCEPT ![t] = Bound(k, "sheet")]
           /\ answered' = [answered EXCEPT ![t] = "asked"]
           /\ UNCHANGED <<active, loading, unload, wc>>
  <2>1. Alone(t) /\ op'[t] = Bound(k, "sheet") /\ answered'[t] = "asked"
    BY <1>0, <1>1, <1>2, <1>6 DEF Alone, Same, Guards
  <2>2. OpOK(t)' /\ ViewOK(t)' /\ FrontStays(t)
    BY <1>0, <1>1, <1>6, <2>1 DEF OpOK, InSweep, ViewOK, FrontStays, Waits, UnloadClosing, Kept, Bound
  <2> QED
    BY <2>1, <2>2, OneTab
<1> QED
  BY <1>3, <1>4, <1>5, <1>6 DEF Begins

\* A closed tab hands over to its neighbour, which loads if it can.
LEMMA ClosesKeeps ==
  ASSUME IInv, Types', ~Quitting, NEW t \in Tab, Closes(t)
  PROVE  Moves
<1> USE DEF coordinator
<1>1. /\ UNCHANGED <<ready, word, due, queue, answered, coordinator>>
      /\ op[t].kind = "close" /\ op' = [op EXCEPT ![t] = NoOp]
  BY DEF Closes
<1>2. \/ UNCHANGED <<active, loading, wc, unload>>
      \/ \E next \in (Tab \ {t}) \cup {Home} : active' = next /\ Shows(next)
  BY DEF Closes
<1>3. ASSUME NEW u \in Tab PROVE OpOK(u)' /\ ViewOK(u)' /\ FrontStays(u)
  <2>0. Pages /\ Guards /\ OpOK(u) /\ ViewOK(u)
    BY OfTab
  <2>1. op'[u] = op[u] \/ (op'[u] = NoOp /\ op[u].kind = "close")
    BY <1>1, <2>0 DEF Guards
  <2>2. OpOK(u)'
    <3>1. CASE op'[u] = op[u]
      BY <1>1, <2>0, <3>1 DEF OpOK, InSweep
    <3>2. CASE op'[u] = NoOp
      BY <3>2, KindsAssumption DEF OpOK, NoOp, InSweep
    <3> QED
      BY <2>1, <3>1, <3>2
  <2>3. CASE loading'[u] = loading[u] /\ wc'[u] = wc[u] /\ unload'[u] = unload[u]
    <3>1. ViewOK(u)'
      BY <1>1, <2>0, <2>1, <2>3 DEF ViewOK, Kept, UnloadClosing, NoOp
    <3>2. active' = u => active = u \/ ~(LoadsNow(u) /\ active # u)
      <4>1. ASSUME NEW next \in (Tab \ {t}) \cup {Home}, active' = next, Shows(next), active' = u
            PROVE  ~LoadsNow(u)
        <5>1. LoadIf(u, LoadsNow(u))
          BY <4>1, TabAssumption DEF Shows
        <5> QED
          BY <2>0, <2>3, <5>1 DEF LoadIf, Load, LoadsNow, WantsLoad, Pages
      <4> QED
        BY <1>2, <4>1
    <3>3. FrontStays(u)
      BY <1>1, <2>0, <2>3, <3>2
         DEF FrontStays, Waits, ViewOK, LoadsNow, WantsLoad, Kept, Sweeping, Quitting
    <3> QED
      BY <2>2, <3>1, <3>3
  <2>4. CASE ~(loading'[u] = loading[u] /\ wc'[u] = wc[u] /\ unload'[u] = unload[u])
    <3>1. LoadIf(u, LoadsNow(u))
      BY <1>2, <2>4, LoadsIt DEF Shows
    <3>2. LoadsNow(u)
      BY <2>4, <3>1 DEF LoadIf
    <3>3. ViewOK(u)' /\ FrontStays(u)
      BY <1>1, <2>0, <2>1, <3>1, <3>2, LoadsIt
         DEF ViewOK, FrontStays, Waits, LoadsNow, WantsLoad, Kept, UnloadClosing
    <3> QED
      BY <2>2, <3>3
  <2> QED
    BY <2>3, <2>4
<1>4. QuitLeavesNothing'
  BY <1>1 DEF QuitLeavesNothing, Quitting
<1> QED
  BY <1>3, <1>4 DEF IInv, Moves

\* A step of an operation keeps the invariant.
LEMMA OperationKeeps ==
  ASSUME IInv, Types', ~Quitting, NEW t \in Tab, OperationStep(t)
  PROVE  Moves
<1> USE DEF tab, guards, coordinator
<1>0. /\ Pages /\ Guards /\ App /\ OpOK(t) /\ ViewOK(t) /\ op[t] \in OpRec
      /\ op[t].kind \notin Shutdowns \/ op[t].kind \notin Kinds \cup {"unload", "none"}
  BY OfTab
<1>1. ASSUME NEW k \in Kinds, Asks(t, k) PROVE Moves
  <2>1. CASE op[t] = NoOp /\ Begins(t, k) /\ queue' = queue
    BY <2>1, BeginsKeeps
  <2>2. CASE /\ op[t].kind = "unload" /\ queue' = [queue EXCEPT ![t] = @ \cup {k}]
             /\ active' = IF k = "load" THEN t ELSE active
             /\ UNCHANGED <<tab, op, answered, coordinator>>
    <3>1. Alone(t)
      BY <1>0, <2>2 DEF Alone, Same, Guards
    <3>2. OpOK(t)' /\ ViewOK(t)' /\ FrontStays(t)
      BY <1>0, <2>2 DEF OpOK, InSweep, ViewOK, FrontStays, Waits, UnloadClosing, Kept, NoOp
    <3> QED
      BY <3>1, <3>2, OneTab
  <2> QED
    BY <1>1, <2>1, <2>2 DEF Asks
<1>2. CASE Resumes(t)
  <2>1. PICK k \in queue[t] : Begins(t, k)
    BY <1>2 DEF Resumes
  <2>2. k \in Kinds /\ op[t] = NoOp /\ queue' = [queue EXCEPT ![t] = {}]
    BY <1>0, <1>2 DEF Resumes, Guards
  <2> QED
    BY <2>1, <2>2, BeginsKeeps
\* A tab at work in no quit whose operation ends.
<1>3. ASSUME op' = [op EXCEPT ![t] = NoOp], answered' = [answered EXCEPT ![t] = "none"],
             op[t] # NoOp, ~UnloadClosing(t), active' \in {active, t},
             UNCHANGED <<tab, queue, coordinator>>
      PROVE  Moves
  <2>1. Alone(t) /\ op'[t] = NoOp /\ answered'[t] = "none"
    BY <1>0, <1>3 DEF Alone, Same, Guards
  <2>2. OpOK(t)'
    BY <2>1, KindsAssumption DEF OpOK, NoOp, InSweep
  <2>3. ViewOK(t)' /\ FrontStays(t)
    BY <1>0, <1>3, <2>1 DEF ViewOK, FrontStays, Waits, Kept, UnloadClosing
  <2> QED
    BY <2>1, <2>2, <2>3, OneTab
<1>4. ASSUME NEW yes \in BOOLEAN, Answers(t, yes) PROVE Moves
  <2> DEFINE o == [op[t] EXCEPT !.consent = TRUE]
  <2>1. /\ op[t].stage = "sheet" /\ ~InSweep(t) /\ UNCHANGED <<ready, word, due, queue, coordinator>>
        /\ op[t] # NoOp /\ ~UnloadClosing(t)
    BY <1>0, <1>4 DEF Answers, NoOp, ViewOK, OpOK
  <2>2. \/ /\ MayGo(t, o) /\ answered' = [answered EXCEPT ![t] = Yes(t)] /\ Act(t, o)
           /\ UNCHANGED <<active, loading, unload>>
        \/ /\ op' = [op EXCEPT ![t] = NoOp] /\ answered' = [answered EXCEPT ![t] = "none"]
           /\ active' \in {active, t} /\ UNCHANGED <<wc, loading, unload>>
    BY <1>4 DEF Answers
  <2>3. o \in OpRec /\ o.kind = op[t].kind /\ o.same = op[t].same /\ o.consent
    <3>1. o \in OpRec
      BY <1>0, Goes
    <3>2. o.kind = op[t].kind /\ o.same = op[t].same /\ o.consent
      BY <1>0 DEF OpRec
    <3> QED
      BY <3>1, <3>2
  <2> HIDE DEF o
  <2>4. CASE /\ MayGo(t, o) /\ answered' = [answered EXCEPT ![t] = Yes(t)] /\ Act(t, o)
             /\ UNCHANGED <<active, loading, unload>>
    <3>1. /\ \A u \in Tab \ {t} : op'[u] = op[u] /\ wc'[u] = wc[u]
          /\ op'[t].kind = op[t].kind /\ op'[t].same /\ op'[t].stage = "act" /\ op[t].same
          /\ wc'[t] # "none" \/ wc'[t] = wc[t]
      BY <2>3, <2>4, Acts DEF MayGo
    <3>2. Alone(t) /\ answered'[t] = Yes(t)
      BY <1>0, <2>1, <2>4, <3>1 DEF Alone, Same, Guards
    <3>3. answered'[t] = "yes"
      BY <1>0, <2>1, <3>1, <3>2 DEF OpOK, Yes
    <3>4. OpOK(t)'
      BY <1>0, <2>1, <3>1, <3>3 DEF OpOK, InSweep, NoOp
    <3>5. ViewOK(t)' /\ FrontStays(t)
      BY <1>0, <2>1, <2>4, <3>1 DEF ViewOK, FrontStays, Waits, Kept, UnloadClosing
    <3> QED
      BY <3>2, <3>4, <3>5, OneTab
  <2>5. CASE /\ op' = [op EXCEPT ![t] = NoOp] /\ answered' = [answered EXCEPT ![t] = "none"]
             /\ active' \in {active, t} /\ UNCHANGED <<wc, loading, unload>>
    BY <1>3, <2>1, <2>5
  <2> QED
    BY <2>2, <2>4, <2>5
<1>5. CASE Unloads(t)
  <2>1. /\ wc[t] \in {"open", "closing", "ending"} /\ op[t] = NoOp /\ Act(t, Bound("unload", "act"))
        /\ unload' = [unload EXCEPT ![t] = "closing"]
        /\ UNCHANGED <<active, ready, loading, word, due, queue, answered, coordinator>>
    BY <1>0, <1>5 DEF Unloads, Pages
  <2>2. /\ \A u \in Tab \ {t} : op'[u] = op[u] /\ wc'[u] = wc[u]
        /\ op'[t].kind = "unload" /\ ~op'[t].consent /\ op'[t].stage = "act"
        /\ wc'[t] \in {"closing", "ending"}
    <3>1. Bound("unload", "act") \in OpRec
      BY Bounds
    <3>2. Bound("unload", "act").kind = "unload" /\ ~Bound("unload", "act").consent
      BY DEF Bound
    <3> QED
      BY <2>1, <3>1, <3>2, Acts
  <2>3. Alone(t) /\ unload'[t] = "closing"
    BY <1>0, <2>1, <2>2 DEF Alone, Same, Pages
  <2>4. OpOK(t)' /\ ViewOK(t)' /\ FrontStays(t)
    BY <1>0, <2>1, <2>2, <2>3, KindsAssumption DEF OpOK, InSweep, ViewOK, FrontStays, Waits, UnloadClosing, Kept
  <2> QED
    BY <2>3, <2>4, OneTab
<1>6. CASE Destroyed(t)
  <2> DEFINE went == [op[t] EXCEPT !.same = FALSE, !.stage = IF Asked(t) THEN "closed" ELSE op[t].stage]
             over == op[t] = NoOp \/ op[t].kind = "unload"
  <2>1. /\ Forget({t}) /\ op' = [op EXCEPT ![t] = IF over THEN NoOp ELSE went]
        /\ UNCHANGED <<active, ready, queue, coordinator>>
        /\ wc[t] \in {"closing", "ending"}
    BY <1>6 DEF Destroyed
  <2>2. /\ \A u \in Tab \ {t} : /\ wc'[u] = wc[u] /\ word'[u] = word[u] /\ loading'[u] = loading[u]
                                /\ answered'[u] = answered[u] /\ unload'[u] = unload[u] /\ due'[u] = due[u]
        /\ wc'[t] = "none" /\ word'[t] = "none" /\ ~loading'[t] /\ answered'[t] = "none"
        /\ IF UnloadClosing(t) THEN unload'[t] = "unloaded" /\ due'[t]
           ELSE unload'[t] = "no" \/ unload'[t] = unload[t]
    BY <1>0, <2>1 DEF Forget, Pages, Guards
  <2>3. /\ \A u \in Tab \ {t} : op'[u] = op[u]
        /\ op'[t] = IF over THEN NoOp ELSE went
    BY <1>0, <2>1 DEF Guards
  <2>4. /\ went.kind = op[t].kind /\ ~went.same /\ went.consent = op[t].consent
        /\ went.stage = IF Asked(t) THEN "closed" ELSE op[t].stage
    BY <1>0 DEF OpRec
  <2> HIDE DEF went
  <2>5. Alone(t)
    BY <2>1, <2>2, <2>3 DEF Alone, Same
  <2>6. OpOK(t)'
    <3>1. CASE op'[t] = NoOp
      BY <2>2, <3>1, KindsAssumption DEF OpOK, NoOp, InSweep
    <3>2. CASE op'[t] = went /\ ~over
      <4>1. op[t].kind # "unload" /\ op[t].kind # "none"
        BY <1>0, <3>2 DEF OpOK
      <4> QED
        BY <1>0, <2>1, <2>4, <3>2, <4>1 DEF OpOK, InSweep, Asked
    <3> QED
      BY <2>3, <3>1, <3>2
  <2>7. UnloadClosing(t) => op'[t] = NoOp
    BY <1>0, <2>3 DEF ViewOK
  <2>8. unload[t] # "unloaded"
    BY <1>0, <2>1 DEF ViewOK
  <2>9. ViewOK(t)' /\ FrontStays(t)
    BY <2>2, <2>7, <2>8 DEF ViewOK, FrontStays, Waits, Kept, UnloadClosing
  <2> QED
    BY <2>5, <2>6, <2>9, OneTab
<1>7. ASSUME Refused(t), op[t].kind # "unload", op[t].stage = "act",
             UNCHANGED <<active, ready, loading, word, unload, due, queue, answered, coordinator>>,
             wc' = wc \/ wc' = [wc EXCEPT ![t] = "open"]
      PROVE  Moves
  <2>1. /\ \A u \in Tab \ {t} : op'[u] = op[u] /\ wc'[u] = wc[u]
        /\ op'[t].kind = op[t].kind /\ op'[t].stage = "refused"
        /\ op'[t].same = op[t].same /\ op'[t].consent = op[t].consent
        /\ wc'[t] # "none" \/ wc'[t] = wc[t]
    <3>1. op'[t] = [op[t] EXCEPT !.stage = "refused"] /\ \A u \in Tab \ {t} : op'[u] = op[u]
      BY <1>0, <1>7 DEF Refused, Guards
    <3> QED
      BY <1>0, <1>7, <3>1 DEF OpRec, Pages
  <2>2. Alone(t)
    BY <1>7, <2>1 DEF Alone, Same
  <2>3. op[t] # NoOp
    BY <1>7 DEF NoOp
  <2>4. OpOK(t)'
    BY <1>0, <1>7, <2>1, <2>3 DEF OpOK, InSweep
  <2>5. ViewOK(t)' /\ FrontStays(t)
    BY <1>0, <1>7, <2>1, <2>3 DEF ViewOK, FrontStays, Waits, Kept, UnloadClosing, Sweeping, Quitting
  <2> QED
    BY <2>2, <2>4, <2>5, OneTab
<1>8. CASE PageRefuses(t)
  <2>1. /\ wc[t] = "closing" /\ wc' = [wc EXCEPT ![t] = "open"]
        /\ UNCHANGED <<active, ready, loading, word, due, queue, answered, coordinator>>
    BY <1>8 DEF PageRefuses
  <2>2. CASE op[t].kind = "unload" /\ op' = [op EXCEPT ![t] = NoOp] /\ unload' = [unload EXCEPT ![t] = "no"]
    <3>1. Alone(t) /\ op'[t] = NoOp /\ unload'[t] = "no" /\ wc'[t] = "open"
      BY <1>0, <2>1, <2>2 DEF Alone, Same, Pages, Guards
    <3>2. OpOK(t)'
      BY <3>1, KindsAssumption DEF OpOK, NoOp, InSweep
    <3>3. ViewOK(t)' /\ FrontStays(t)
      BY <3>1 DEF ViewOK, FrontStays, Waits, UnloadClosing
    <3> QED
      BY <3>1, <3>2, <3>3, OneTab
  <2>3. CASE op[t].kind # "unload" /\ Asked(t) /\ Refused(t) /\ UNCHANGED unload
    BY <1>7, <2>1, <2>3 DEF Asked
  <2>4. CASE op[t].kind # "unload" /\ UNCHANGED <<unload, op>>
    <3>1. Alone(t) /\ wc'[t] = "open"
      BY <1>0, <2>1, <2>4 DEF Alone, Same, Pages
    <3>2. OpOK(t)' /\ ViewOK(t)' /\ FrontStays(t)
      BY <1>0, <2>1, <2>4, <3>1 DEF OpOK, InSweep, ViewOK, FrontStays, Waits, Kept, UnloadClosing, Sweeping, Quitting
    <3> QED
      BY <3>1, <3>2, OneTab
  <2> QED
    BY <1>8, <2>2, <2>3, <2>4 DEF PageRefuses
<1>9. CASE TimesOut(t)
  BY <1>7, <1>9 DEF TimesOut
<1>10. CASE ~InSweep(t) /\ Refuses(t)
  <2>1. op[t] # NoOp /\ ~UnloadClosing(t)
    BY <1>0, <1>10 DEF Refuses, NoOp, ViewOK, OpOK
  <2> QED
    BY <1>3, <1>10, <2>1 DEF Refuses
<1>11. CASE Closes(t)
  BY <1>11, ClosesKeeps
<1> QED
  BY <1>1, <1>2, <1>4, <1>5, <1>6, <1>8, <1>9, <1>10, <1>11 DEF OperationStep

-----------------------------------------------------------------------------
(* Steps of the shutdown *)

\* Where the sweep is over the tab in front loads, if it can.
LEMMA EndsIt ==
  ASSUME IInv, Types', NEW t \in Tab \cup {Home}, SweepEnds(t), UNCHANGED <<ready, word, due, queue, end>>,
         NEW u \in Tab,
         op'[u] = op[u] \/ (InSweep(u) /\ op'[u] = NoOp)
  PROVE  ViewOK(u)' /\ FrontStays(u)
<1>0. ViewOK(u) /\ Pages
  BY DEF IInv, Types
<1>1. active' = t /\ sweep' = NoSweep
  BY DEF SweepEnds
<1>2. UnloadClosing(u) \/ unload[u] = "unloaded" => op'[u] = op[u]
  BY <1>0, KindsAssumption DEF ViewOK, InSweep, NoOp
<1>3. CASE u # t
  <2>1. loading'[u] = loading[u] /\ wc'[u] = wc[u] /\ unload'[u] = unload[u]
    BY <1>3, LoadsIt DEF SweepEnds
  <2> QED
    BY <1>0, <1>1, <1>2, <1>3, <2>1 DEF ViewOK, FrontStays, Waits, Kept, UnloadClosing
<1>4. CASE u = t
  <2>1. LoadIf(u, WantsLoad(u))
    BY <1>4, TabAssumption DEF SweepEnds
  <2>2. ViewOK(u)'
    BY <1>0, <1>2, <2>1, LoadsIt DEF ViewOK, Kept, UnloadClosing, WantsLoad
  <2>3. unload'[u] = "unloaded" => ~ready[u]
    BY <1>0, <2>1, LoadsIt DEF ViewOK, WantsLoad, Kept
  <2> QED
    BY <2>2, <2>3 DEF FrontStays, Waits
<1> QED
  BY <1>3, <1>4

\* A sweep refused leaves no operation of its own.
LEMMA RefusedKeeps ==
  ASSUME IInv, Types', ~Quitting, NEW t \in Tab \cup {Home}, NEW unsaved, SweepRefused(t, unsaved)
  PROVE  Moves
<1>1. SweepEnds(t) /\ UNCHANGED <<ready, word, due, queue, end>> /\ sweep' = NoSweep
  BY DEF SweepRefused, SweepEnds
<1>2. ASSUME NEW u \in Tab PROVE OpOK(u)' /\ ViewOK(u)' /\ FrontStays(u)
  <2>1. OpOK(u)
    BY DEF IInv
  <2>2. /\ op'[u] = IF InSweep(u) THEN NoOp ELSE op[u]
        /\ answered'[u] = IF InSweep(u) THEN "none" ELSE answered[u]
    BY DEF SweepRefused, EndedOps
  <2>3. OpOK(u)'
    <3>1. CASE InSweep(u)
      BY <2>2, <3>1, KindsAssumption DEF OpOK, NoOp, InSweep
    <3>2. CASE ~InSweep(u)
      BY <2>1, <2>2, <3>2 DEF OpOK, InSweep
    <3> QED
      BY <3>1, <3>2
  <2>4. op'[u] = op[u] \/ (InSweep(u) /\ op'[u] = NoOp)
    BY <2>2
  <2> QED
    BY <1>1, <2>3, <2>4, EndsIt
<1>3. QuitLeavesNothing'
  BY <1>1 DEF QuitLeavesNothing, Quitting
<1> QED
  BY <1>2, <1>3 DEF IInv, Moves

\* Where no quit has bound a document, its coming to start, or its end, leaves the operations.
LEMMA NoneBound ==
  ASSUME IInv, NEW t \in Tab, sweep.phase \notin {"sheet", "closing"}
  PROVE  ~InSweep(t)
  BY DEF IInv, OpOK

LEMMA SweepBindsKeeps ==
  ASSUME IInv, Types', ~Quitting, SweepBinds
  PROVE  Moves
<1> USE DEF tab
<1>1. CASE \E t \in Tab : SweepRefused(t, FALSE) \/ SweepRefused(t, TRUE)
  BY <1>1, RefusedKeeps
<1>2. CASE ~\E t \in Tab : SweepRefused(t, FALSE) \/ SweepRefused(t, TRUE)
  <2> DEFINE list == {t \in Tab : Kept(t)}
             ask == {t \in list : ~Clean(t)}
             phase == IF ask = {} THEN "closing" ELSE "sheet"
  <2>1. /\ UNCHANGED <<active, tab, queue, stuck, end, update>> /\ \A t \in Tab : op[t] = NoOp
        /\ sweep.phase = "start" /\ sweep' = [sweep EXCEPT !.phase = phase]
        /\ op' = [t \in Tab |-> IF t \in list THEN Bound(sweep.kind, IF t \in ask THEN "sheet" ELSE "bound")
                                   ELSE NoOp]
        /\ answered' = [t \in Tab |-> IF t \in ask THEN "asked" ELSE answered[t]]
    BY <1>2, Zenon DEF SweepBinds
  <2>2. sweep.kind \in Shutdowns /\ sweep'.phase \in {"sheet", "closing"} /\ sweep' # NoSweep
    BY <2>1 DEF IInv, Types, App, NoSweep
  <2>3. ASSUME NEW t \in Tab PROVE OpOK(t)' /\ ViewOK(t)' /\ FrontStays(t)
    <3>1. ViewOK(t) /\ op[t] = NoOp
      BY <2>1 DEF IInv
    <3>2. CASE t \in list
      <4>1. /\ op'[t].kind = sweep.kind /\ op'[t].stage \in {"sheet", "bound"} /\ ~op'[t].consent
            /\ op'[t].stage = "sheet" => answered'[t] = "asked"
        BY <2>1, <3>2 DEF Bound
      <4>2. OpOK(t)'
        BY <2>2, <4>1, KindsAssumption DEF OpOK, InSweep
      <4> QED
        BY <2>1, <2>2, <3>1, <3>2, <4>2, KindsAssumption
           DEF ViewOK, FrontStays, Waits, Kept, UnloadClosing, NoOp, Sweeping, NoSweep
    <3>3. CASE t \notin list
      <4>1. op'[t] = NoOp
        BY <2>1, <3>3
      <4>2. OpOK(t)'
        BY <4>1, KindsAssumption DEF OpOK, NoOp, InSweep
      <4> QED
        BY <2>1, <2>2, <3>1, <4>1, <4>2 DEF ViewOK, FrontStays, Waits, Kept, UnloadClosing, Sweeping
    <3> QED
      BY <3>2, <3>3
  <2>4. QuitLeavesNothing'
    BY <2>1 DEF QuitLeavesNothing, Quitting
  <2> QED
    BY <2>3, <2>4 DEF IInv, Moves
<1> QED
  BY <1>1, <1>2

LEMMA SweepAnsweredKeeps ==
  ASSUME IInv, Types', ~Quitting, NEW yes \in BOOLEAN, SweepAnswered(yes)
  PROVE  Moves
<1> USE DEF tab
<1>1. CASE \E t \in Tab \cup {Home}, u \in BOOLEAN : SweepRefused(t, u)
  BY <1>1, RefusedKeeps
<1>2. CASE ~\E t \in Tab \cup {Home}, u \in BOOLEAN : SweepRefused(t, u)
  <2> DEFINE ops == [t \in Tab |-> [op[t] EXCEPT !.consent = op[t].stage = "sheet"]]
  <2>1. /\ op' = [t \in Tab |-> IF InSweep(t) THEN ops[t] ELSE op[t]]
        /\ answered' = [t \in Tab |-> IF InSweep(t) THEN Yes(t) ELSE answered[t]]
        /\ sweep.phase = "sheet" /\ sweep' = [sweep EXCEPT !.phase = "closing"]
        /\ UNCHANGED <<active, tab, queue, stuck, end, update>>
    <3>1. active \in Tab \cup {Home} /\ \A t \in Tab : Unsaved(t) \in BOOLEAN
      BY DEF IInv, Types, Pages, Unsaved
    <3> QED
      BY <1>2, <3>1 DEF SweepAnswered
  <2>2. sweep'.phase = "closing" /\ Sweeping'
    BY <2>1 DEF IInv, Types, App, NoSweep, Sweeping
  <2>3. ASSUME NEW t \in Tab PROVE OpOK(t)' /\ ViewOK(t)' /\ FrontStays(t)
    <3>1. ViewOK(t) /\ OpOK(t) /\ op[t] \in OpRec
      BY DEF IInv, Types, Guards
    <3>2. CASE InSweep(t)
      <4>1. /\ op'[t].kind = op[t].kind /\ op'[t].stage = op[t].stage /\ op'[t].same = op[t].same
            /\ op'[t].consent <=> op[t].stage = "sheet"
            /\ answered'[t] = Yes(t)
        BY <2>1, <3>1, <3>2 DEF OpRec
      <4>2. op[t].kind \notin {"unload", "none"}
        BY <3>2, KindsAssumption DEF InSweep
      <4>3. OpOK(t)'
        BY <2>1, <2>2, <3>1, <3>2, <4>1, <4>2 DEF OpOK, InSweep, Yes
      <4> QED
        BY <2>1, <2>2, <3>1, <4>1, <4>2, <4>3 DEF ViewOK, FrontStays, Waits, Kept, UnloadClosing, NoOp
    <3>3. CASE ~InSweep(t)
      BY <2>1, <2>2, <3>1, <3>3 DEF OpOK, InSweep, ViewOK, FrontStays, Waits, Kept, UnloadClosing
    <3> QED
      BY <3>2, <3>3
  <2>4. QuitLeavesNothing'
    BY <2>1 DEF QuitLeavesNothing, Quitting
  <2> QED
    BY <2>3, <2>4 DEF IInv, Moves
<1> QED
  BY <1>1, <1>2

\* The next tab of the quit is asked to go; or none is left and, as nobody holds a document
\* any more, the app ends.
LEMMA SweepClosesKeeps ==
  ASSUME IInv, Types', ~Quitting, SweepCloses
  PROVE  Moves
<1> USE DEF tab
<1>1. CASE \E t \in Tab, u \in BOOLEAN : SweepRefused(t, u)
  BY <1>1, RefusedKeeps
<1>2. ASSUME NEW t \in Left, Act(t, op[t]), UNCHANGED <<active, loading, unload, sweep, update, answered>>,
             UNCHANGED <<ready, word, due, queue, stuck, end>>
      PROVE  Moves
  <2>0. /\ t \in Tab /\ InSweep(t) /\ op[t].stage \in {"sheet", "bound"}
        /\ Pages /\ Guards /\ OpOK(t) /\ ViewOK(t) /\ op[t] \in OpRec
    BY OfTab DEF Left
  <2>1. /\ \A u \in Tab \ {t} : op'[u] = op[u] /\ wc'[u] = wc[u]
        /\ op'[t].kind = op[t].kind /\ op'[t].same = op[t].same /\ op'[t].consent = op[t].consent
        /\ op'[t].stage = "act"
        /\ wc'[t] # "none" \/ wc'[t] = wc[t]
    BY <1>2, <2>0, Acts
  <2>2. Alone(t)
    BY <1>2, <2>1 DEF Alone, Same
  <2>3. op[t].kind \notin {"unload", "none"}
    BY <2>0, KindsAssumption DEF InSweep
  <2>4. OpOK(t)'
    BY <1>2, <2>0, <2>1, <2>3 DEF OpOK, InSweep
  <2>5. ViewOK(t)' /\ FrontStays(t)
    BY <1>2, <2>0, <2>1, <2>3 DEF ViewOK, FrontStays, Waits, Kept, UnloadClosing, NoOp, Sweeping, Quitting
  <2> QED
    BY <2>0, <2>2, <2>4, <2>5, OneTab
<1>3. CASE /\ Newcomers = {} /\ Left = {} /\ Acting = {} /\ \A t \in Tab : op[t].stage # "refused"
           /\ end' = IF sweep.kind = "update" THEN "restarting" ELSE "quit"
           /\ op' = EndedOps /\ sweep' = NoSweep
           /\ UNCHANGED <<active, tab, queue, answered, stuck, update>>
  <2>1. Quitting'
    BY <1>3 DEF Quitting
  <2>2. ASSUME NEW t \in Tab PROVE ~Kept(t)' /\ OpOK(t)' /\ ViewOK(t)' /\ FrontStays(t)
    <3>1. OpOK(t) /\ ViewOK(t) /\ op[t] \in OpRec
      BY DEF IInv, Types, Guards
    <3>2. ~Kept(t)
      <4>1. Kept(t) => InSweep(t) /\ op[t].same
        BY <1>3 DEF Newcomers
      <4>2. InSweep(t) => op[t].stage = "closed"
        BY <1>3, <3>1 DEF Left, Acting, OpOK, OpRec
      <4> QED
        BY <3>1, <4>1, <4>2 DEF OpOK
    <3>3. op'[t] = IF InSweep(t) THEN NoOp ELSE op[t]
      BY <1>3 DEF EndedOps
    <3>4. OpOK(t)'
      <4>1. CASE InSweep(t)
        BY <3>3, <4>1, KindsAssumption DEF OpOK, NoOp, InSweep
      <4>2. CASE ~InSweep(t)
        BY <1>3, <3>1, <3>3, <4>2 DEF OpOK, InSweep
      <4> QED
        BY <4>1, <4>2
    <3>5. UnloadClosing(t) => ~InSweep(t)
      BY <3>1, KindsAssumption DEF ViewOK, InSweep
    <3> QED
      BY <1>3, <2>1, <3>1, <3>2, <3>3, <3>4, <3>5 DEF ViewOK, FrontStays, Waits, Kept, UnloadClosing
  <2> QED
    BY <2>2 DEF IInv, Moves, QuitLeavesNothing
<1>4. \A t \in Tab : Unsaved(t) \in BOOLEAN
  BY DEF Unsaved
<1> QED
  BY <1>1, <1>2, <1>3, <1>4 DEF SweepCloses, Newcomers, Left

\* An unload that is stuck ends the shutdown, which has bound nothing.
LEMMA StuckKeeps ==
  ASSUME IInv, Types', ~Quitting, UnloadsStuck
  PROVE  Moves
<1>1. /\ active \in Tab \cup {Home} /\ SweepEnds(active) /\ sweep' = NoSweep
      /\ UNCHANGED <<ready, word, due, guards, end>>
  BY DEF UnloadsStuck, SweepEnds, IInv, Types, Pages
<1>2. ASSUME NEW t \in Tab PROVE OpOK(t)' /\ ViewOK(t)' /\ FrontStays(t)
  <2>1. OpOK(t) /\ ~InSweep(t)
    BY NoneBound DEF UnloadsStuck, IInv
  <2>2. OpOK(t)'
    BY <1>1, <2>1 DEF guards, OpOK, InSweep
  <2> QED
    BY <1>1, <2>2, EndsIt DEF guards
<1>3. QuitLeavesNothing'
  BY <1>1 DEF QuitLeavesNothing, Quitting
<1> QED
  BY <1>2, <1>3 DEF IInv, Moves

\* Force Quit Tab ends unloads only, and their tabs are to be looked at again.
LEMMA StuckAnsweredKeeps ==
  ASSUME IInv, Types', ~Quitting, NEW force \in BOOLEAN, StuckAnswered(force)
  PROVE  Moves
<1> USE DEF tab, guards
<1> DEFINE F == {t \in stuck.tabs : UnloadClosing(t)}
<1>1. /\ UNCHANGED <<active, end>>
      /\ \/ UNCHANGED <<tab, guards, sweep>>
         \/ /\ Forget(F) /\ UNCHANGED <<ready, queue>>
            /\ op' = [t \in Tab |-> IF t \in F THEN NoOp ELSE op[t]]
            /\ sweep' = IF Heard(stuck.kind) THEN [phase |-> Phase, kind |-> stuck.kind] ELSE sweep
  BY DEF StuckAnswered
<1>2. \A t \in F : UnloadClosing(t)
  OBVIOUS
<1> HIDE DEF F
<1>3. sweep' = sweep \/ (~Sweeping /\ Sweeping')
  BY <1>1 DEF Heard, Sweeping, Phase
<1>4. ASSUME NEW t \in Tab PROVE OpOK(t)' /\ ViewOK(t)' /\ FrontStays(t)
  <2>1. /\ OpOK(t) /\ ViewOK(t)
        /\ sweep' = sweep \/ (Sweeping' /\ ~InSweep(t))
    BY <1>3, NoneBound DEF IInv, Sweeping
  <2>2. CASE Same(t)
    BY <1>1, <2>1, <2>2 DEF Same, OpOK, InSweep, ViewOK, FrontStays, Waits, Kept, UnloadClosing, Sweeping, Quitting
  <2>3. CASE /\ t \in F /\ op'[t] = NoOp /\ unload'[t] = "unloaded" /\ due'[t] /\ wc'[t] = "none"
             /\ word'[t] = "none" /\ ~loading'[t] /\ answered'[t] = "none"
    <3>1. OpOK(t)'
      BY <2>3, KindsAssumption DEF OpOK, NoOp, InSweep
    <3> QED
      BY <2>3, <3>1 DEF ViewOK, FrontStays, Waits, Kept, UnloadClosing
  <2>4. CASE UNCHANGED <<tab, guards, sweep>>
    BY <2>2, <2>4 DEF Same
  <2>5. CASE /\ Forget(F) /\ UNCHANGED <<ready, queue>>
             /\ op' = [u \in Tab |-> IF u \in F THEN NoOp ELSE op[u]]
    <3>1. Pages
      BY DEF IInv, Types
    <3>2. CASE t \in F
      BY <1>2, <2>3, <2>5, <3>1, <3>2 DEF Forget, Pages
    <3>3. CASE t \notin F
      BY <2>2, <2>5, <3>1, <3>3 DEF Forget, Pages, Same
    <3> QED
      BY <3>2, <3>3
  <2> QED
    BY <1>1, <2>4, <2>5
<1>5. QuitLeavesNothing'
  BY <1>1 DEF QuitLeavesNothing, Quitting
<1> QED
  BY <1>4, <1>5 DEF IInv, Moves

\* What is left: a shutdown asked for, and what touches no tab.
LEMMA RestKeeps ==
  ASSUME IInv, Types', ~Quitting,
         ShowsHome \/ Downloaded \/ (\E k \in Shutdowns : Requests(k)) \/ UnloadsOver
  PROVE  Moves
<1> USE DEF tab, guards, coordinator
<1>1. /\ UNCHANGED <<tab, guards, end>>
      /\ active' \in {active, Home} /\ \/ sweep' = sweep
                                       \/ sweep.phase \in {"none", "unloads"} /\ Sweeping'
  BY DEF ShowsHome, Downloaded, Requests, UnloadsOver, Heard, Sweeping, Phase, IInv, Types, App, NoSweep
<1>2. ASSUME NEW t \in Tab PROVE OpOK(t)' /\ ViewOK(t)' /\ FrontStays(t)
  <2>1. /\ OpOK(t) /\ ViewOK(t)
        /\ sweep' = sweep \/ (Sweeping' /\ ~InSweep(t))
    BY <1>1, NoneBound DEF IInv
  <2>2. active' = t => active = t
    BY <1>1, TabAssumption
  <2> QED
    BY <1>1, <2>1, <2>2 DEF OpOK, InSweep, ViewOK, FrontStays, Waits, Kept, UnloadClosing, Sweeping, Quitting
<1>3. QuitLeavesNothing'
  BY <1>1 DEF QuitLeavesNothing, Quitting
<1> QED
  BY <1>2, <1>3 DEF IInv, Moves

\* Once the app quits, nothing but its end goes on.
LEMMA EndingKeeps ==
  ASSUME IInv, Types', Ending
  PROVE  Moves
<1>1. UNCHANGED <<active, tab, guards, sweep>> /\ Quitting /\ Quitting'
  BY DEF Ending, RestartFails, AlertAnswered, Exits, Quitting
<1>2. ASSUME NEW t \in Tab PROVE OpOK(t)' /\ ViewOK(t)' /\ FrontStays(t)
  <2>1. OpOK(t) /\ ViewOK(t)
    BY DEF IInv
  <2> QED
    BY <1>1, <2>1 DEF tab, guards, OpOK, InSweep, ViewOK, FrontStays, Waits, Kept, UnloadClosing
<1>3. QuitLeavesNothing'
  BY <1>1 DEF IInv, QuitLeavesNothing, tab, Kept
<1> QED
  BY <1>2, <1>3 DEF IInv, Moves

\* Every step keeps the invariant.
LEMMA Inductive == IInv /\ [Next]_vars => Moves
<1> SUFFICES ASSUME IInv, [Next]_vars PROVE Moves
  OBVIOUS
<1>1. Types /\ Types'
  BY TypesKept DEF IInv
<1>2. CASE UNCHANGED vars
  BY <1>1, <1>2 DEF vars, tab, guards, coordinator, IInv, Moves, OpOK, InSweep, ViewOK, FrontStays, Waits, Kept, UnloadClosing,
                    Sweeping, Quitting, QuitLeavesNothing
<1>3. CASE Ending
  BY <1>1, <1>3, EndingKeeps
<1>4. ASSUME NEW t \in Tab, ~Quitting, DocumentStep(t) \/ OperationStep(t) PROVE Moves
  BY <1>1, <1>4, DocumentKeeps, OperationKeeps
<1>5. CASE ~Quitting /\ ShutdownStep
  <2>1. CASE ShowsHome \/ Downloaded \/ (\E k \in Shutdowns : Requests(k)) \/ UnloadsOver
    BY <1>1, <1>5, <2>1, RestKeeps
  <2>2. CASE UnloadsStuck \/ \E force \in BOOLEAN : StuckAnswered(force)
    BY <1>1, <1>5, <2>2, StuckKeeps, StuckAnsweredKeeps
  <2>3. CASE SweepBinds \/ (\E yes \in BOOLEAN : SweepAnswered(yes)) \/ SweepCloses
    BY <1>1, <1>5, <2>3, SweepBindsKeeps, SweepAnsweredKeeps, SweepClosesKeeps
  <2>4. CASE \E t \in Tab : InSweep(t) /\ Refuses(t)
    BY <1>1, <1>5, <2>4, RefusedKeeps DEF Refuses
  <2> QED
    BY <1>5, <2>1, <2>2, <2>3, <2>4 DEF ShutdownStep
<1> QED
  BY <1>1, <1>2, <1>3, <1>4, <1>5, Steps

\* The invariant holds in every state that can be reached.
LEMMA InvariantHolds == Spec => []IInv
<1>1. IInv /\ [Next]_vars => IInv'
  BY Inductive DEF Moves
<1> QED
  BY <1>1, Initially, PTL DEF Spec

-----------------------------------------------------------------------------
(* Theorems *)

\* The state of the guard is what TypeOK says, and a tab's document lives in a webContents
\* (tabs.ts, views.ts, shutdown.ts).
THEOREM TypesHold == Spec => []TypeOK
<1>1. IInv => TypeOK
  BY DEF IInv, Types, Pages, Guards, App, OpRec, ViewOK, TypeOK
<1> QED
  BY <1>1, InvariantHolds, PTL

\* The sweep of a quit (tabs.ts) reads every tab again before each close and once more
\* before the end: the app never ends with a document in a tab, however it came there.
THEOREM QuitLeavesNothingHolds == Spec => []QuitLeavesNothing
<1>1. IInv => QuitLeavesNothing
  BY DEF IInv
<1> QED
  BY <1>1, InvariantHolds, PTL

\* A page that an unload closes (unloadOp, actUnload) is the unload's until it is gone or
\* refuses; and a tab in front waits, unloaded over a canvas that runs, only from where the
\* same instance was told again (onRegistry): every other step that could leave it so
\* loads it or is about to (activate, atReady, reopenIfShown, sweepRefused).
THEOREM UnloadKeepsTabHolds == Spec => UnloadKeepsTab
<1> DEFINE Owned == \A t \in Tab : UnloadClosing(t) => op[t].kind = "unload" /\ wc[t] \in {"closing", "ending"}
           Comes == \A t \in Tab : Waits(t)' => Waits(t) \/ ToldAgain(t)
<1>1. IInv => Owned
  BY DEF IInv, ViewOK
<1>2. IInv /\ [Next]_vars => Comes
  BY Inductive DEF Moves, FrontStays, Waits
<1>3. UnloadKeepsTab <=> []Owned /\ [][Comes]_vars
  BY DEF UnloadKeepsTab
<1> HIDE DEF Owned, Comes
<1> QED
  BY <1>1, <1>2, <1>3, InvariantHolds, PTL DEF Spec

\* No tab comes to its act in a step, or it may.
Agreed(t) == op'[t].stage = "act" /\ op[t].stage # "act" /\ Kept(t) =>
               Clean(t) \/ (answered'[t] = "yes" /\ ~Unsaved(t))

\* An act that begins with what mayGo asks is of a document that was agreed to.
LEMMA MayGoAgreed ==
  ASSUME IInv, NEW t \in Tab, MayGo(t, op[t]), UNCHANGED answered
  PROVE  Agreed(t)
  BY DEF IInv, OpOK, MayGo, Agreed

\* Steps of documents let no operation go on to its act.
LEMMA DocumentAgreed ==
  ASSUME IInv, NEW t \in Tab, DocumentStep(t)
  PROVE  \A u \in Tab : op'[u] = op[u] \/ op'[u].stage = op[u].stage \/ op'[u] = NoOp
<1> USE DEF guards
<1>0. Guards /\ op[t] \in OpRec
  BY OfTab
<1>1. CASE NewDocument(t)
  <2>1. op'[t].stage = op[t].stage \/ op'[t] = NoOp
    BY <1>0, <1>1, NewIt DEF OpRec
  <2> QED
    BY <1>1, <2>1, NewIt
<1>2. CASE UNCHANGED op \/ op' = [op EXCEPT ![t] = NoOp]
  BY <1>0, <1>2 DEF Guards
<1>3. NewDocument(t) \/ UNCHANGED op \/ op' = [op EXCEPT ![t] = NoOp]
  BY DEF DocumentStep, Activates, Commits, Fails, Reports, Stops, Rebinds, ToldAgain, Crashes, LinkOpens, Unsure,
         Reopens, NavStarts, UpdateFreed
<1> QED
  BY <1>1, <1>2, <1>3

\* guard acts at once on what is clean, and on what is no document.
LEMMA BeginsAgreed ==
  ASSUME IInv, NEW t \in Tab, NEW k \in Kinds, Begins(t, k)
  PROVE  \A u \in Tab : Agreed(u)
<1>0. Guards
  BY OfTab
<1>1. CASE UNCHANGED op
  BY <1>1 DEF Agreed
<1>2. CASE (~Kept(t) \/ Clean(t)) /\ Act(t, Bound(k, "act"))
  <2>1. \A u \in Tab \ {t} : op'[u] = op[u]
    BY <1>0, <1>2 DEF Act, Guards
  <2> QED
    BY <1>2, <2>1 DEF Agreed
<1>3. CASE op' = [op EXCEPT ![t] = Bound(k, "sheet")]
  <2>1. op'[t].stage = "sheet" /\ \A u \in Tab \ {t} : op'[u] = op[u]
    BY <1>0, <1>3 DEF Guards, Bound
  <2> QED
    BY <2>1 DEF Agreed
<1>4. CASE op' = [op EXCEPT ![t] = Bound(k, "closed")]
  <2>1. op'[t].stage = "closed" /\ \A u \in Tab \ {t} : op'[u] = op[u]
    BY <1>0, <1>4 DEF Guards, Bound
  <2> QED
    BY <2>1 DEF Agreed
<1> QED
  BY <1>1, <1>2, <1>3, <1>4 DEF Begins, ViewlessAct

LEMMA OperationAgreed ==
  ASSUME IInv, NEW t \in Tab, OperationStep(t)
  PROVE  \A u \in Tab : Agreed(u)
<1> USE DEF guards
<1>0. Guards /\ op[t] \in OpRec /\ OpOK(t)
  BY OfTab
<1>1. ASSUME NEW w, op' = [op EXCEPT ![t] = w], w.stage # "act" \/ op[t].stage = "act"
      PROVE \A u \in Tab : Agreed(u)
  BY <1>0, <1>1 DEF Guards, Agreed
<1>2. NoOp.stage # "act"
  BY DEF NoOp
<1>3. CASE UNCHANGED op \/ op' = [op EXCEPT ![t] = NoOp]
  BY <1>1, <1>2, <1>3 DEF Agreed
<1>4. ASSUME NEW k \in Kinds, Asks(t, k) PROVE \A u \in Tab : Agreed(u)
  BY <1>3, <1>4, BeginsAgreed DEF Asks
<1>5. CASE Resumes(t)
  BY <1>0, <1>5, BeginsAgreed DEF Resumes, Guards
<1>6. ASSUME NEW yes \in BOOLEAN, Answers(t, yes) PROVE \A u \in Tab : Agreed(u)
  <2> DEFINE o == [op[t] EXCEPT !.consent = TRUE]
  <2>1. \/ op' = [op EXCEPT ![t] = NoOp]
        \/ /\ MayGo(t, o) /\ answered' = [answered EXCEPT ![t] = Yes(t)]
           /\ op' = [op EXCEPT ![t] = [o EXCEPT !.stage = "act"]]
    BY <1>6 DEF Answers, Act
  <2>2. o.same = op[t].same
    BY <1>0 DEF OpRec
  <2> HIDE DEF o
  <2>3. CASE /\ MayGo(t, o) /\ answered' = [answered EXCEPT ![t] = Yes(t)]
             /\ op' = [op EXCEPT ![t] = [o EXCEPT !.stage = "act"]]
    <3>1. ~Unsaved(t) /\ op[t].same /\ op[t].stage = "sheet" /\ ~InSweep(t)
      BY <1>6, <2>2, <2>3 DEF MayGo, Answers
    <3>2. answered'[t] = "yes"
      BY <1>0, <2>3, <3>1 DEF OpOK, Guards, Yes
    <3> QED
      BY <1>0, <2>3, <3>1, <3>2 DEF Guards, Agreed
  <2> QED
    BY <1>3, <2>1, <2>3
<1>7. CASE Unloads(t)
  <2>1. Clean(t) /\ op' = [op EXCEPT ![t] = [Bound("unload", "act") EXCEPT !.stage = "act"]]
    BY <1>7 DEF Unloads, Act
  <2>2. \A u \in Tab \ {t} : op'[u] = op[u]
    BY <1>0, <2>1 DEF Guards
  <2> QED
    BY <2>1, <2>2 DEF Agreed
<1>8. CASE Destroyed(t)
  <2> DEFINE went == [op[t] EXCEPT !.same = FALSE, !.stage = IF Asked(t) THEN "closed" ELSE op[t].stage]
  <2>1. op' = [op EXCEPT ![t] = NoOp] \/ op' = [op EXCEPT ![t] = went]
    BY <1>8 DEF Destroyed
  <2>2. went.stage # "act" \/ op[t].stage = "act"
    BY <1>0 DEF OpRec
  <2> HIDE DEF went
  <2> QED
    BY <1>1, <1>3, <2>1, <2>2
<1>9. CASE Refused(t)
  <2>1. [op[t] EXCEPT !.stage = "refused"].stage # "act"
    BY <1>0 DEF OpRec
  <2> QED
    BY <1>1, <1>9, <2>1 DEF Refused
<1>10. CASE PageRefuses(t) \/ TimesOut(t)
  BY <1>3, <1>9, <1>10 DEF PageRefuses, TimesOut
<1>11. CASE (~InSweep(t) /\ Refuses(t)) \/ Closes(t)
  BY <1>3, <1>11 DEF Refuses, Closes
<1> QED
  BY <1>4, <1>5, <1>6, <1>7, <1>8, <1>10, <1>11 DEF OperationStep

LEMMA ShutdownAgreed ==
  ASSUME IInv, ShutdownStep
  PROVE  \A u \in Tab : Agreed(u)
<1> USE DEF guards
<1>0. Guards /\ NoOp.stage # "act"
  BY DEF IInv, Types, NoOp
<1>1. ASSUME \A u \in Tab : op'[u] = op[u] \/ op'[u].stage # "act" \/ op'[u].stage = op[u].stage
      PROVE  \A u \in Tab : Agreed(u)
  BY <1>1 DEF Agreed
<1>2. CASE UNCHANGED op
  BY <1>1, <1>2
<1>3. CASE op' = EndedOps
  BY <1>0, <1>1, <1>3 DEF EndedOps
<1>4. CASE ShowsHome \/ Downloaded \/ (\E k \in Shutdowns : Requests(k)) \/ UnloadsOver \/ UnloadsStuck
  BY <1>2, <1>4 DEF ShowsHome, Downloaded, Requests, UnloadsOver, UnloadsStuck
<1>5. ASSUME NEW force \in BOOLEAN, StuckAnswered(force) PROVE \A u \in Tab : Agreed(u)
  BY <1>0, <1>1, <1>5 DEF StuckAnswered
<1>6. CASE SweepBinds
  <2>1. \/ op' = EndedOps
        \/ op' = [t \in Tab |-> IF t \in {x \in Tab : Kept(x)}
                     THEN Bound(sweep.kind, IF t \in {x \in {y \in Tab : Kept(y)} : ~Clean(x)}
                                            THEN "sheet" ELSE "bound")
                     ELSE NoOp]
    BY <1>6 DEF SweepBinds, SweepRefused
  <2> QED
    BY <1>0, <1>1, <1>3, <2>1 DEF Bound
<1>7. ASSUME NEW yes \in BOOLEAN, SweepAnswered(yes) PROVE \A u \in Tab : Agreed(u)
  <2>1. \/ op' = EndedOps
        \/ op' = [t \in Tab |-> IF InSweep(t)
                     THEN [u \in Tab |-> [op[u] EXCEPT !.consent = op[u].stage = "sheet"]][t] ELSE op[t]]
    BY <1>7, Zenon DEF SweepAnswered, SweepRefused
  <2>2. ASSUME NEW u \in Tab PROVE [op[u] EXCEPT !.consent = op[u].stage = "sheet"].stage = op[u].stage
    BY <1>0 DEF Guards, OpRec
  <2> QED
    BY <1>1, <1>3, <2>1, <2>2
<1>8. CASE SweepCloses
  <2>1. CASE op' = EndedOps
    BY <1>3, <2>1
  <2>2. CASE \E t \in Left : MayGo(t, op[t]) /\ Act(t, op[t]) /\ UNCHANGED answered
    <3>1. PICK t \in Left : MayGo(t, op[t]) /\ Act(t, op[t]) /\ UNCHANGED answered
      BY <2>2
    <3>2. t \in Tab /\ Agreed(t)
      BY <3>1, MayGoAgreed DEF Left
    <3>3. \A u \in Tab \ {t} : op'[u] = op[u]
      BY <1>0, <3>1 DEF Act, Guards
    <3> QED
      BY <3>2, <3>3 DEF Agreed
  <2> QED
    BY <1>8, <2>1, <2>2 DEF SweepCloses, SweepRefused
<1>9. CASE \E t \in Tab : InSweep(t) /\ Refuses(t)
  BY <1>3, <1>9 DEF Refuses, SweepRefused
<1> QED
  BY <1>4, <1>5, <1>6, <1>7, <1>8, <1>9 DEF ShutdownStep

\* mayGo (tabs.ts) is asked in the turn of the act, of the document bound: whatever came
\* between a sheet and the act - an edit, a navigation, a crash, a tab nobody named - no
\* document is asked to go that is neither clean nor the one the person said yes to.
THEOREM NothingUnaskedHolds == Spec => NothingUnasked
<1>1. IInv /\ [Next]_vars => [\A t \in Tab : Agreed(t)]_vars
  <2> SUFFICES ASSUME IInv, Next PROVE \A t \in Tab : Agreed(t)
    OBVIOUS
  <2>1. Types /\ NoOp.stage # "act"
    BY DEF IInv, NoOp
  <2>2. CASE Ending
    BY <2>2 DEF Ending, RestartFails, AlertAnswered, Exits, guards, Agreed
  <2>3. ASSUME NEW t \in Tab, DocumentStep(t) PROVE \A u \in Tab : Agreed(u)
    BY <2>1, <2>3, DocumentAgreed DEF Agreed
  <2>4. ASSUME NEW t \in Tab, OperationStep(t) PROVE \A u \in Tab : Agreed(u)
    BY <2>4, OperationAgreed
  <2> QED
    BY <2>1, <2>2, <2>3, <2>4, Steps, ShutdownAgreed
<1>2. [\A t \in Tab : Agreed(t)]_vars =>
        [\A t \in Tab :
           op'[t].stage = "act" /\ op[t].stage # "act" /\ Kept(t) =>
             Clean(t) \/ (answered'[t] = "yes" /\ ~Unsaved(t))]_vars
  BY DEF Agreed
<1> QED
  BY <1>1, <1>2, InvariantHolds, PTL DEF Spec, NothingUnasked
=============================================================================
