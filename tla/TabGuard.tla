------------------------------ MODULE TabGuard ------------------------------
(***************************************************************************)
(* The Mac app's guard (app/src/main/tabs.ts): every way the app replaces  *)
(* a canvas's live document is one operation per tab, which asks the       *)
(* person unless the document said it is clean; the unload of a hidden tab *)
(* (tabs.ts, unload-act.ts); a quit or a Restart to Update, which goes     *)
(* through every tab (guardAll) under the shutdown coordinator             *)
(* (shutdown.ts); and the part of update-model.ts the coordinator meets.   *)
(*                                                                         *)
(* Everything runs on one JavaScript thread: a step is one task, and what  *)
(* a settled promise resumes (Hurry) goes before any other task.  The page *)
(* and Chromium are free: a page may refuse its beforeunload, answer late, *)
(* navigate or crash at any time.                                          *)
(*                                                                         *)
(* A document is known by what changes with it: op.same and answered are   *)
(* reset where tabs.ts counts a commit.  Left out: Home and Settings, that *)
(* a document which refused one unload is not asked for another,           *)
(* shared canvases (a document that never reports: "unknown" for good),    *)
(* what a tab shows, the crash latch, and the checks before a download.    *)
(***************************************************************************)
EXTENDS Naturals, FiniteSets

CONSTANTS
  Tab,       \* the local canvas tabs
  Home,      \* the Home tab
  Kinds,     \* what the person does to one tab: "close", "load" (a reload, Try Again, a link)
  Shutdowns, \* and to the app: "quit", "update"
  MaxEvents  \* bound on the events (see Event)

ASSUME TabAssumption == Home \notin Tab
ASSUME KindsAssumption == Kinds \subseteq {"close", "load"} /\ Shutdowns \subseteq {"quit", "update"}
ASSUME EventsAssumption == MaxEvents \in Nat

VARIABLES
  active,    \* the tab in front
  ready,     \* the tab's canvas runs (reg.state)
  wc,        \* its webContents: "none", "open", "closing" (its page is asked), "ending" (only destroyed ends it)
  loading,   \* a navigation of the app's is under way
  word,      \* what main knows of its document: "none" (it holds none), "unknown", "stale", "clean", "unsaved"
  unload,    \* Tab.unload: "no", "closing", "unsure", "unloaded", "reopening"
  due,       \* onUnloaded's task, which decides the reopen
  op,        \* Tab.replacing: the one operation of the tab
  queue,     \* actions that wait for its unload
  sweep,     \* guardAll: its phase and kind
  stuck,     \* the stuck sheet: for what, and the tabs it names
  end,       \* "no", "restarting" (quitAndInstall), "failed" (its alert), "quit", "over"
  update,    \* "none", "ready", or the tab a waiting update waits for
  answered,  \* history: the person was "asked" about, or said "yes" to, the document the tab holds
  events     \* how many events there were

tab == <<ready, wc, loading, word, unload, due>>
guards == <<op, queue, answered>>
coordinator == <<sweep, stuck, end, update>>
vars == <<active, tab, guards, coordinator, events>>

NoOp == [kind |-> "none", stage |-> "none", same |-> TRUE, consent |-> FALSE]
Bound(k, stage) == [kind |-> k, stage |-> stage, same |-> TRUE, consent |-> FALSE]
NoSweep == [phase |-> "none", kind |-> "none"]
NoSheet == [kind |-> "none", tabs |-> {}]

Kept(t) == word[t] # "none"                     \* keptDoc
Clean(t) == word[t] = "clean"                   \* freshClean
Unsaved(t) == word[t] = "unsaved"               \* freshUnsaved
UnloadClosing(t) == unload[t] \in {"closing", "unsure"}
Unloading == {t \in Tab : op[t].kind = "unload"}   \* stuckUnloads
Sweeping == sweep.phase # "none"
Quitting == end # "no"
InSweep(t) == op[t].kind \in Shutdowns
Acting == {t \in Tab : InSweep(t) /\ op[t].stage = "act"}

\* wantsLoad: a ready canvas and no document; an unloaded tab waits while a quit sweeps.
WantsLoad(t) == ready[t] /\ ~Kept(t) /\ ~loading[t] /\ wc[t] \in {"none", "open"}
LoadsNow(t) == WantsLoad(t) /\ ~(unload[t] = "unloaded" /\ Sweeping)

Init ==
  /\ active = Home
  /\ ready = [t \in Tab |-> TRUE] /\ wc = [t \in Tab |-> "none"] /\ loading = [t \in Tab |-> FALSE]
  /\ word = [t \in Tab |-> "none"] /\ unload = [t \in Tab |-> "no"]
  /\ due = [t \in Tab |-> FALSE]
  /\ op = [t \in Tab |-> NoOp] /\ queue = [t \in Tab |-> {}]
  /\ sweep = NoSweep /\ stuck = NoSheet /\ end = "no" /\ update = "none" /\ events = 0
  /\ answered = [t \in Tab |-> "none"]

-----------------------------------------------------------------------------
(* The documents.                                                          *)

\* load: its view made if there is none, an unloaded tab reopening.
Load(t) ==
  /\ loading' = [loading EXCEPT ![t] = TRUE]
  /\ wc' = [wc EXCEPT ![t] = IF @ = "none" THEN "open" ELSE @]
  /\ unload' = [unload EXCEPT ![t] = IF @ = "unloaded" THEN "reopening" ELSE @]
LoadIf(t, yes) == IF yes THEN Load(t) ELSE UNCHANGED <<loading, wc, unload>>

\* commits += 1: what was bound or answered was about another document.
NewDocument(t) ==
  /\ op' = [op EXCEPT ![t] = IF @ = NoOp THEN NoOp ELSE [op[t] EXCEPT !.same = FALSE]]
  /\ answered' = [answered EXCEPT ![t] = "none"]

Activates(t) ==
  /\ active' = t /\ LoadIf(t, LoadsNow(t))
  /\ UNCHANGED <<ready, word, due, guards, coordinator>>
Shows(t) == IF t = Home THEN UNCHANGED <<loading, wc, unload>> ELSE LoadIf(t, LoadsNow(t))
ShowsHome == active # Home /\ active' = Home /\ UNCHANGED <<tab, guards, coordinator>>

\* onCommit: a navigation of the app's or of the page's own; one that is not the canvas's
\* is reloaded.
Commits(t, attributed) ==
  /\ loading[t] \/ Kept(t)
  /\ attributed => ready[t]
  /\ word' = [word EXCEPT ![t] = IF attributed THEN "unknown" ELSE "none"]
  /\ loading' = [loading EXCEPT ![t] = ~attributed /\ ready[t]]
  /\ unload' = [unload EXCEPT ![t] = IF attributed /\ @ = "reopening" THEN "no" ELSE @]
  /\ NewDocument(t)
  /\ UNCHANGED <<active, ready, wc, due, queue, coordinator>>

\* onFail: an error page replaced the document, or it may be there still, heard no more.
Fails(t, errorPage) ==
  /\ loading[t]
  /\ word' = [word EXCEPT ![t] = IF errorPage \/ @ = "none" THEN "none" ELSE "stale"]
  /\ loading' = [loading EXCEPT ![t] = FALSE]
  /\ unload' = [unload EXCEPT ![t] = IF @ = "reopening" THEN "no" ELSE @]
  /\ NewDocument(t)
  /\ UNCHANGED <<active, ready, wc, due, queue, coordinator>>

\* onReport: mv:busy of the document admitted; a waiting update is ready again.
Reports(t, says) ==
  /\ word[t] \in {"unknown", "clean", "unsaved"} \ {says}
  /\ word' = [word EXCEPT ![t] = says]
  /\ update' = IF update = t /\ says = "clean" THEN "ready" ELSE update
  /\ UNCHANGED <<active, ready, wc, loading, unload, due, guards, sweep, stuck, end>>

\* onRegistry: its canvas stops - trust is revoked.
Stops(t) ==
  /\ ready[t] /\ ready' = [ready EXCEPT ![t] = FALSE]
  /\ word' = [word EXCEPT ![t] = IF @ = "none" THEN @ ELSE "stale"]
  /\ UNCHANGED <<active, wc, loading, unload, due, guards, coordinator>>
\* It runs again, as a new instance or as its own that starts (atReady): the tab in front
\* loads.  On the tab's own address that comes under an unload's close too, where another
\* address waits for the close (waitForClose).
Rebinds(t) ==
  /\ ~ready[t] /\ ready' = [ready EXCEPT ![t] = TRUE]
  /\ LoadIf(t, active = t /\ ~Kept(t) /\ ~loading[t] /\ wc[t] \in {"none", "open"}
               /\ ~(unload[t] = "unloaded" /\ Sweeping))
  /\ UNCHANGED <<active, word, due, guards, coordinator>>

\* The same instance, told again after it was told gone: nothing is loaded.
ToldAgain(t) ==
  /\ ~ready[t] /\ ready' = [ready EXCEPT ![t] = TRUE]
  /\ UNCHANGED <<active, wc, loading, word, unload, due, guards, coordinator>>

\* The renderer goes: under an unload's close that is its end; else the tab holds nothing.
Crashes(t) ==
  /\ Kept(t)
  /\ IF UnloadClosing(t)
       THEN wc' = [wc EXCEPT ![t] = "ending"] /\ UNCHANGED <<word, loading, op, answered>>
       ELSE /\ word' = [word EXCEPT ![t] = "none"]
            /\ loading' = [loading EXCEPT ![t] = ready[t] /\ active = t]
            /\ NewDocument(t) /\ wc' = wc
  /\ UNCHANGED <<active, ready, unload, due, queue, coordinator>>

-----------------------------------------------------------------------------
(* The guard on one tab.                                                   *)

\* Mutant: the document is not read again after the sheet.
MayGoUnread(t, o) == ~Unsaved(t) /\ (Clean(t) \/ o.consent)
\* mayGo: the document bound, and clean now or covered by the person's yes.
MayGo(t, o) == o.same /\ ~Unsaved(t) /\ (Clean(t) \/ o.consent)

\* act: the page is asked to close or navigate.
Act(t, o) ==
  /\ op' = [op EXCEPT ![t] = [o EXCEPT !.stage = "act"]]
  /\ wc' = [wc EXCEPT ![t] = IF o.kind # "load" /\ @ = "open" THEN "closing" ELSE @]

\* A tab that holds nothing and has no view (viewlessAct): a close ends its unload, a
\* link ends it and loads, a reload is its reopen.
EndsUnload(t) == unload' = [unload EXCEPT ![t] = IF @ = "unloaded" THEN "no" ELSE @]
Opens(t) ==
  IF ready[t] THEN loading' = [loading EXCEPT ![t] = TRUE] /\ wc' = [wc EXCEPT ![t] = "open"]
  ELSE UNCHANGED <<loading, wc>>
ViewlessAct(t, k) ==
  /\ \/ k = "close" /\ op' = [op EXCEPT ![t] = Bound(k, "closed")] /\ EndsUnload(t) /\ UNCHANGED <<loading, wc>>
     \/ k = "load" /\ op' = op /\ EndsUnload(t) /\ Opens(t)
     \/ k = "load" /\ op' = op /\ LoadIf(t, ready[t])
  /\ UNCHANGED <<active, answered>>

\* guard, up to its first wait.
Begins(t, k) ==
  /\ \/ ~Kept(t) /\ wc[t] = "none" /\ ViewlessAct(t, k)
     \/ /\ wc[t] # "none" /\ (~Kept(t) \/ Clean(t))
        /\ Act(t, Bound(k, "act")) /\ UNCHANGED <<active, loading, unload, answered>>
     \/ Unsaved(t) /\ active' = t /\ UNCHANGED <<loading, unload, wc, op, answered>>
     \/ /\ Kept(t) /\ ~Clean(t) /\ ~Unsaved(t)
        /\ op' = [op EXCEPT ![t] = Bound(k, "sheet")]
        /\ answered' = [answered EXCEPT ![t] = "asked"]
        /\ UNCHANGED <<active, loading, unload, wc>>
  /\ UNCHANGED <<ready, word, due, coordinator>>

\* Mutant: an unload under way is not waited for.
AsksAtOnce(t, k) ==
  /\ Begins(t, k) /\ queue' = queue
\* ⌘W, ⌘R, a link: an unload under way is waited for, any other operation refuses it.
Asks(t, k) ==
  /\ \/ op[t] = NoOp /\ Begins(t, k) /\ queue' = queue
     \/ /\ op[t].kind = "unload" /\ queue' = [queue EXCEPT ![t] = @ \cup {k}]
        /\ active' = IF k = "load" THEN t ELSE active
        /\ UNCHANGED <<tab, op, answered, coordinator>>

\* The unload has ended: the first that waited goes, the others find it at work.
Resumes(t) ==
  /\ op[t] = NoOp /\ \E k \in queue[t] : Begins(t, k)
  /\ queue' = [queue EXCEPT ![t] = {}]

\* A link to an unloaded tab ends its unload: it opens on what it names.
LinkOpens(t) ==
  /\ unload[t] \in {"unloaded", "reopening"}
  /\ active' = t
  /\ unload' = [unload EXCEPT ![t] = "no"]
  /\ IF WantsLoad(t) THEN loading' = [loading EXCEPT ![t] = TRUE] /\ wc' = [wc EXCEPT ![t] = "open"]
     ELSE UNCHANGED <<loading, wc>>
  /\ UNCHANGED <<ready, word, due, guards, coordinator>>

\* closeTab goes on: a closed tab that was in front hands over to its neighbour, or Home.
Closes(t) ==
  /\ op[t].kind = "close" /\ op[t].stage = "closed" /\ op' = [op EXCEPT ![t] = NoOp]
  /\ IF active = t THEN \E next \in (Tab \ {t}) \cup {Home} : active' = next /\ Shows(next)
     ELSE UNCHANGED <<active, loading, wc, unload>>
  /\ UNCHANGED <<ready, word, due, queue, answered, coordinator>>

Yes(t) == IF answered[t] = "asked" THEN "yes" ELSE "none"

\* The sheet is answered; the document is read again in the act's turn.
Answers(t, yes) ==
  /\ op[t].stage = "sheet" /\ ~InSweep(t)
  /\ LET o == [op[t] EXCEPT !.consent = TRUE] IN
     IF yes /\ MayGo(t, o)
       THEN /\ answered' = [answered EXCEPT ![t] = Yes(t)]
            /\ Act(t, o) /\ UNCHANGED <<active, loading, unload>>
       ELSE /\ op' = [op EXCEPT ![t] = NoOp] /\ answered' = [answered EXCEPT ![t] = "none"]
            /\ active' = IF yes /\ Unsaved(t) THEN t ELSE active
            /\ UNCHANGED <<wc, loading, unload>>
  /\ UNCHANGED <<ready, word, due, queue, coordinator>>
-----------------------------------------------------------------------------
(* The unload of a hidden tab, under memory pressure.                      *)

\* Its admission and its act, in one turn: a document that said it is idle, out of sight
\* (a close that timed out may be asked of its page still).
Unloads(t) ==
  /\ wc[t] # "none" /\ Clean(t) /\ active # t /\ unload[t] = "no" /\ op[t] = NoOp
  /\ ~Sweeping /\ ready[t] /\ ~loading[t]
  /\ unload' = [unload EXCEPT ![t] = "closing"]
  /\ Act(t, Bound("unload", "act"))
  /\ UNCHANGED <<active, ready, loading, word, due, queue, answered, coordinator>>

\* Past unloadActMs main ends the close itself: from then on only destroyed ends it.
Unsure(t) ==
  /\ unload[t] = "closing" /\ wc[t] = "closing"
  /\ unload' = [unload EXCEPT ![t] = "unsure"] /\ wc' = [wc EXCEPT ![t] = "ending"]
  /\ UNCHANGED <<active, ready, loading, word, due, guards, coordinator>>

\* Mutant: a canvas forgotten keeps what its document said.
ForgetViews(F) ==
  /\ wc' = [t \in Tab |-> IF t \in F THEN "none" ELSE wc[t]]
  /\ unload' = [t \in Tab |-> IF t \in F /\ UnloadClosing(t) THEN "unloaded" ELSE unload[t]]
  /\ due' = [t \in Tab |-> due[t] \/ (t \in F /\ UnloadClosing(t))]
  /\ UNCHANGED <<word, loading, answered>>
\* Their views are taken out (forgetCanvas): unloaded, or documentless.
Forget(F) ==
  /\ wc' = [t \in Tab |-> IF t \in F THEN "none" ELSE wc[t]]
  /\ word' = [t \in Tab |-> IF t \in F THEN "none" ELSE word[t]]
  /\ loading' = [t \in Tab |-> loading[t] /\ t \notin F]
  /\ answered' = [t \in Tab |-> IF t \in F THEN "none" ELSE answered[t]]
  /\ unload' = [t \in Tab |-> IF t \notin F THEN unload[t]
                              ELSE IF UnloadClosing(t) THEN "unloaded"
                              ELSE IF unload[t] = "reopening" THEN "no" ELSE unload[t]]
  /\ due' = [t \in Tab |-> due[t] \/ (t \in F /\ UnloadClosing(t))]

\* The page was asked to close.
Asked(t) == op[t].stage = "act" /\ op[t].kind # "load"
\* An unload's operation ends with it; a close goes on (Closes), a sweep's to the next tab.
Destroyed(t) ==
  /\ wc[t] \in {"closing", "ending"} /\ Forget({t})
  /\ op' = [op EXCEPT ![t] = IF @ = NoOp \/ op[t].kind = "unload" THEN NoOp
                             ELSE [op[t] EXCEPT !.same = FALSE, !.stage = IF Asked(t) THEN "closed" ELSE @]]
  /\ UNCHANGED <<active, ready, queue, coordinator>>

\* onUnloaded's task: the tab in front reopens, unless a quit sweeps.
Reopens(t) ==
  /\ due[t] /\ due' = [due EXCEPT ![t] = FALSE]
  /\ LoadIf(t, active = t /\ unload[t] = "unloaded" /\ LoadsNow(t))
  /\ UNCHANGED <<active, ready, word, guards, coordinator>>

-----------------------------------------------------------------------------
(* A quit, or Restart to Update.                                           *)

\* The sweep is refused or stuck: unloads are admitted again, and the tab in front loads.
SweepEnds(t) ==
  /\ sweep' = NoSweep /\ active' = t
  /\ IF t = Home THEN UNCHANGED <<loading, wc, unload>> ELSE LoadIf(t, WantsLoad(t))
EndedOps == [t \in Tab |-> IF InSweep(t) THEN NoOp ELSE op[t]]

\* The update goes back to ready, or waits for the tab whose unsaved work refused it.
RefusedUpdate(t, unsaved) ==
  update' = IF sweep.kind # "update" THEN update ELSE IF unsaved THEN t ELSE "ready"

\* Refused by the tab t, which comes forward.
SweepRefused(t, unsaved) ==
  /\ SweepEnds(t) /\ op' = EndedOps
  /\ answered' = [u \in Tab |-> IF InSweep(u) THEN "none" ELSE answered[u]]
  /\ RefusedUpdate(t, unsaved)
  /\ UNCHANGED <<ready, word, due, queue, stuck, end>>

\* request: one shutdown in flight, and none once quitting.
Heard(k) == ~Quitting /\ ~Sweeping /\ (k = "update" => update # "none")
Phase == IF Unloading # {} THEN "unloads" ELSE "start"
Requests(k) ==
  /\ Heard(k) /\ sweep' = [phase |-> Phase, kind |-> k]
  /\ UNCHANGED <<active, tab, guards, stuck, end, update>>

\* Unloads under way are waited for, quitWaitMs at most.
UnloadsOver ==
  /\ sweep.phase = "unloads" /\ Unloading = {}
  /\ sweep' = [sweep EXCEPT !.phase = "start"]
  /\ UNCHANGED <<active, tab, guards, stuck, end, update>>
\* 'stuck': this shutdown is over, and the person is asked about the tabs that still close.
UnloadsStuck ==
  /\ sweep.phase = "unloads" /\ Unloading # {}
  /\ SweepEnds(active)
  /\ stuck' = IF stuck = NoSheet THEN [kind |-> sweep.kind, tabs |-> Unloading] ELSE stuck
  /\ UNCHANGED <<ready, word, due, guards, end, update>>

\* Force Quit Tab ends those still closing by hand and asks again; Keep Waiting changes nothing.
StuckAnswered(force) ==
  /\ stuck # NoSheet /\ stuck' = NoSheet
  /\ IF ~force THEN UNCHANGED <<tab, guards, sweep>>
     ELSE LET F == {t \in stuck.tabs : UnloadClosing(t)} IN
          /\ Forget(F) /\ op' = [t \in Tab |-> IF t \in F THEN NoOp ELSE op[t]]
          /\ sweep' = IF Heard(stuck.kind) THEN [phase |-> Phase, kind |-> stuck.kind] ELSE sweep
          /\ UNCHANGED <<ready, queue>>
  /\ UNCHANGED <<active, end, update>>

\* sweep: a tab at work refuses it, then one with unsaved work; a sheet names those not
\* heard clean.
SweepBinds ==
  /\ sweep.phase = "start"
  /\ LET busy == {t \in Tab : op[t] # NoOp}
         list == {t \in Tab : Kept(t)}
         ask == {t \in list : ~Clean(t)} IN
     \/ \E t \in busy : SweepRefused(t, FALSE)
     \/ busy = {} /\ \E t \in list : Unsaved(t) /\ SweepRefused(t, TRUE)
     \/ /\ busy = {} /\ \A t \in list : ~Unsaved(t)
        /\ op' = [t \in Tab |-> IF t \in list THEN Bound(sweep.kind, IF t \in ask THEN "sheet" ELSE "bound")
                                    ELSE NoOp]
        /\ sweep' = [sweep EXCEPT !.phase = IF ask = {} THEN "closing" ELSE "sheet"]
        /\ answered' = [t \in Tab |-> IF t \in ask THEN "asked" ELSE answered[t]]
        /\ UNCHANGED <<active, tab, queue, stuck, end, update>>

SweepAnswered(yes) ==
  /\ sweep.phase = "sheet"
  /\ LET ops == [t \in Tab |-> [op[t] EXCEPT !.consent = op[t].stage = "sheet"]]
         late == {t \in Tab : InSweep(t) /\ ~MayGo(t, ops[t])} IN
     \/ ~yes /\ SweepRefused(active, FALSE)
     \/ yes /\ \E t \in late : SweepRefused(t, Unsaved(t))
     \/ /\ yes /\ late = {}
        /\ op' = [t \in Tab |-> IF InSweep(t) THEN ops[t] ELSE op[t]]
        /\ answered' = [t \in Tab |-> IF InSweep(t) THEN Yes(t) ELSE answered[t]]
        /\ sweep' = [sweep EXCEPT !.phase = "closing"]
        /\ UNCHANGED <<active, tab, queue, stuck, end, update>>

\* Mutant: only the documents the quit bound are read again.
NewcomersBound == {t \in Tab : InSweep(t) /\ Kept(t) /\ ~op[t].same}
\* Before each close every tab is read again: a document nobody named stops the whole.
Newcomers == {t \in Tab : Kept(t) /\ (~InSweep(t) \/ ~op[t].same)}
Left == {t \in Tab : InSweep(t) /\ op[t].stage \in {"sheet", "bound"}}
SweepCloses ==
  /\ sweep.phase = "closing" /\ Acting = {} /\ \A t \in Tab : op[t].stage # "refused"
  /\ \/ \E t \in Newcomers : SweepRefused(t, Unsaved(t))
     \/ /\ Newcomers = {}
        /\ \E t \in Left :
             IF MayGo(t, op[t])
               THEN Act(t, op[t]) /\ UNCHANGED <<active, loading, unload, sweep, update, answered>>
               ELSE SweepRefused(t, Unsaved(t))
        /\ UNCHANGED <<ready, word, due, queue, stuck, end>>
     \/ /\ Newcomers = {} /\ Left = {}
        /\ end' = IF sweep.kind = "update" THEN "restarting" ELSE "quit"
        /\ op' = EndedOps /\ sweep' = NoSweep
        /\ UNCHANGED <<active, tab, queue, answered, stuck, update>>

-----------------------------------------------------------------------------
(* How an act ends, besides destroyed.                                     *)

Refused(t) == op' = [op EXCEPT ![t] = [op[t] EXCEPT !.stage = "refused"]]

\* The page refuses its beforeunload and is kept; after an unload it is not asked again.
PageRefuses(t) ==
  /\ wc[t] = "closing" /\ wc' = [wc EXCEPT ![t] = "open"]
  /\ \/ /\ op[t].kind = "unload"
        /\ op' = [op EXCEPT ![t] = NoOp] /\ unload' = [unload EXCEPT ![t] = "no"]
     \/ op[t].kind # "unload" /\ Asked(t) /\ Refused(t) /\ UNCHANGED unload
     \/ op[t].kind # "unload" /\ ~Asked(t) /\ UNCHANGED <<unload, op>>
  /\ UNCHANGED <<active, ready, loading, word, due, queue, answered, coordinator>>

\* A reload or a link goes: its navigation starts.
NavStarts(t) ==
  /\ op[t].kind = "load" /\ op[t].stage = "act" /\ wc[t] # "none"
  /\ loading' = [loading EXCEPT ![t] = TRUE] /\ op' = [op EXCEPT ![t] = NoOp]
  /\ answered' = [answered EXCEPT ![t] = "none"]
  /\ UNCHANGED <<active, ready, wc, word, unload, due, queue, coordinator>>

\* Mutant: a quit waits for its page without end.
TimesOutAlone(t) ==
  /\ op[t].stage = "act" /\ op[t].kind # "unload" /\ ~InSweep(t)
  /\ Refused(t) /\ UNCHANGED <<active, tab, queue, answered, coordinator>>
\* The page refuses a navigation, or guardActMs passes without an outcome: refused, and a
\* close that was asked may still happen.
TimesOut(t) ==
  /\ op[t].stage = "act" /\ op[t].kind # "unload"
  /\ Refused(t) /\ UNCHANGED <<active, tab, queue, answered, coordinator>>

\* The refused act's tab comes forward; a quit or an update stops.
Refuses(t) ==
  /\ op[t].stage = "refused"
  /\ IF InSweep(t) THEN SweepRefused(t, TRUE)
     ELSE /\ op' = [op EXCEPT ![t] = NoOp] /\ active' = t
          /\ answered' = [answered EXCEPT ![t] = "none"]
          /\ UNCHANGED <<tab, queue, coordinator>>

-----------------------------------------------------------------------------
(* The update, and the end.                                                *)

Downloaded ==
  /\ update = "none" /\ update' = "ready"
  /\ UNCHANGED <<active, tab, guards, sweep, stuck, end>>
\* waitingEnds: the waiting tab's document is another, or it is closed.
UpdateFreed(t) ==
  /\ update = t /\ update' = "ready"
  /\ UNCHANGED <<active, tab, guards, sweep, stuck, end>>

\* quitAndInstall failed - an error, or no exit in restartWaitMs: its alert, once, then the quit.
RestartFails == end = "restarting" /\ end' = "failed" /\ UNCHANGED <<active, tab, guards, sweep, stuck, update>>
AlertAnswered == end = "failed" /\ end' = "quit" /\ UNCHANGED <<active, tab, guards, sweep, stuck, update>>
Exits == end \in {"restarting", "quit"} /\ end' = "over" /\ UNCHANGED <<active, tab, guards, sweep, stuck, update>>

-----------------------------------------------------------------------------
\* What a settled promise resumes, before any other task.
Hurry ==
  \/ \E t \in Tab : (op[t] = NoOp /\ queue[t] # {}) \/ op[t].stage = "refused"
                   \/ (op[t].kind = "close" /\ op[t].stage = "closed")
  \/ sweep.phase = "start" \/ (sweep.phase = "closing" /\ Acting = {})
Resume == (\E t \in Tab : Resumes(t) \/ Refuses(t) \/ Closes(t)) \/ SweepBinds \/ SweepCloses

Document(t) ==
  \/ loading[t] /\ Commits(t, TRUE)
  \/ \E says \in {"clean", "unsaved"} : Reports(t, says)
  \/ Rebinds(t) \/ ToldAgain(t) \/ PageRefuses(t) \/ NavStarts(t) \/ Destroyed(t)
\* MaxEvents times: the page goes by itself or elsewhere, a load fails, the canvas stops,
\* the renderer crashes, the person acts on one tab.
Event(t) ==
  \/ \E a \in BOOLEAN : Commits(t, a) /\ ~(a /\ loading[t])
  \/ \E e \in BOOLEAN : Fails(t, e)
  \/ Stops(t) \/ Crashes(t)
  \/ LinkOpens(t) \/ \E k \in Kinds : Asks(t, k)
Timers(t) == TimesOut(t) \/ Unsure(t) \/ Reopens(t)
Person(t) ==
  \/ Activates(t)
  \/ \E yes \in BOOLEAN : Answers(t, yes)

Step ==
  \/ \E t \in Tab : Document(t) \/ Timers(t) \/ Person(t) \/ Unloads(t) \/ UpdateFreed(t)
  \/ ShowsHome \/ Downloaded
  \/ \E k \in Shutdowns : Requests(k)
  \/ UnloadsOver \/ UnloadsStuck
  \/ \E yes \in BOOLEAN : StuckAnswered(yes) \/ SweepAnswered(yes)
Ending == RestartFails \/ AlertAnswered \/ Exits

Turn(A) == ~Quitting /\ ~Hurry /\ A /\ events' = events
Resumed == ~Quitting /\ Resume /\ events' = events
Ended == Ending /\ events' = events
Happens ==
  /\ ~Quitting /\ ~Hurry /\ events < MaxEvents /\ events' = events + 1
  /\ \E t \in Tab : Event(t)

Next == Resumed \/ Turn(Step) \/ Happens \/ Ended

Spec == Init /\ [][Next]_vars

\* A settled promise resumes, the timers fire, the person answers a quit's sheet, and a
\* restart that was asked for exits or fails.  Pages promise nothing.
Fairness ==
  /\ WF_vars(Resumed) /\ WF_vars(Ended)
  /\ \A t \in Tab : WF_vars(Turn(TimesOut(t)))
  /\ WF_vars(Turn(UnloadsOver \/ UnloadsStuck))
  /\ WF_vars(Turn(\E yes \in BOOLEAN : SweepAnswered(yes)))
FairSpec == Spec /\ Fairness

-----------------------------------------------------------------------------
(* Properties.                                                             *)

\* The types; a tab's document lives in a webContents, and an operation has one stage.
TypeOK ==
  /\ active \in Tab \cup {Home} /\ ready \in [Tab -> BOOLEAN] /\ loading \in [Tab -> BOOLEAN]
  /\ wc \in [Tab -> {"none", "open", "closing", "ending"}]
  /\ word \in [Tab -> {"none", "unknown", "stale", "clean", "unsaved"}]
  /\ unload \in [Tab -> {"no", "closing", "unsure", "unloaded", "reopening"}]
  /\ due \in [Tab -> BOOLEAN]
  /\ op \in [Tab -> [kind : Kinds \cup Shutdowns \cup {"unload", "none"}, same : BOOLEAN, consent : BOOLEAN,
                      stage : {"none", "sheet", "bound", "act", "closed", "refused"}]]
  /\ queue \in [Tab -> SUBSET Kinds]
  /\ sweep \in [phase : {"unloads", "start", "sheet", "closing"}, kind : Shutdowns] \cup {NoSweep}
  /\ stuck \in [kind : Shutdowns, tabs : (SUBSET Tab) \ {{}}] \cup {NoSheet}
  /\ end \in {"no", "restarting", "failed", "quit", "over"} /\ update \in {"none", "ready"} \cup Tab
  /\ answered \in [Tab -> {"none", "asked", "yes"}] /\ events \in 0..MaxEvents
  /\ \A t \in Tab : (Kept(t) \/ loading[t]) => wc[t] # "none"

\* No document is asked to go - closed, reloaded, unloaded or quit - unless it says it
\* is clean or the person said yes to exactly it, whatever came between the sheet and
\* the act; one that says it holds unsaved work never is.
NothingUnasked ==
  [][\A t \in Tab :
       op'[t].stage = "act" /\ op[t].stage # "act" /\ Kept(t) =>
         Clean(t) \/ (answered'[t] = "yes" /\ ~Unsaved(t))]_vars

\* When the app ends, no tab holds a document: one that came while the last close waited
\* stops the quit.
QuitLeavesNothing == Quitting => \A t \in Tab : ~Kept(t)

\* The tab in front is unloaded though its canvas runs, and nothing under way loads it.
Waits(t) ==
  /\ active = t /\ unload[t] = "unloaded" /\ ready[t]
  /\ ~(due[t] \/ Sweeping \/ Quitting \/ queue[t] # {})
\* A page an unload is closing is the unload's until it is gone or refuses: nothing else
\* works on the tab or makes a document beside it.  And the tab in front comes to wait,
\* unloaded over a canvas that runs, in one way only: it was brought forward while its
\* canvas was away, and the same instance came back.
UnloadKeepsTab ==
  /\ [](\A t \in Tab : UnloadClosing(t) => op[t].kind = "unload" /\ wc[t] \in {"closing", "ending"})
  /\ [][\A t \in Tab : Waits(t)' => Waits(t) \/ ToldAgain(t)]_vars

\* A quit or a restart that was asked for ends: the app is over, or it runs on with its
\* tabs and hears the next one.  No page that hangs, and no unload, holds it up.
ShutdownEnds == (Sweeping \/ Quitting) ~> (end = "over" \/ (~Quitting /\ ~Sweeping))
=============================================================================
