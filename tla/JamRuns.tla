------------------------------ MODULE JamRuns ------------------------------
(***************************************************************************)
(* Who runs a batch (src/server/jam/runs.ts, with the part of daemon.ts    *)
(* that calls it): the owner's chat session, which is offered a run, takes *)
(* it with a handle and hands it back or lets it go, or an agent Marver    *)
(* spawns.  The owner may move or drop a run a session holds, choose       *)
(* another session, end the Jam session; sessions end, stay silent and     *)
(* use old handles; the daemon may stop and start at any step.             *)
(*                                                                         *)
(* A session here is one incarnation of a connection: one that restarts is *)
(* another.  A request is a queued card, each of a board of its own, so    *)
(* that none joins another's batch; what cards do around a run is          *)
(* JamQueue's.                                                             *)
(***************************************************************************)
EXTENDS Naturals, FiniteSets

CONSTANTS
  Request,      \* queued cards, in run order
  Frame,
  FramesAsked,  \* the frames each request names
  Batch,        \* batch ids; finitely many bound a behaviour
  Session,
  NoSession,
  Concurrency,  \* jam.concurrency
  SessionMax,   \* jam.sessionMax
  Runners,      \* what jam.runner may say: "auto", "session"
  MaxGen,       \* bound: times a run is taken
  MaxMoves,     \* bound: times who may take work changes
  MaxCrash      \* bound: times the process stops

ASSUME RequestAssumption == Request \subseteq Nat
ASSUME FramesAssumption == FramesAsked \in [Request -> SUBSET Frame]
ASSUME NoSessionAssumption == NoSession \notin Session
ASSUME BatchAssumption == IsFiniteSet(Batch)
ASSUME LimitsAssumption ==
  /\ {Concurrency, SessionMax} \subseteq Nat \ {0}
  /\ {MaxGen, MaxMoves, MaxCrash} \subseteq Nat
  /\ Runners \subseteq {"auto", "session"}

VARIABLES
  req,      \* journal.cards: where each request is
  batch,    \* journal.batches, by id
  job,      \* where runBatch stands for a batch
  pick,     \* the session runBatch chose, before it asks for the lock
  usable,   \* connections that may take work (alive, not muted, no plan mode)
  gone,     \* sessions whose process is proven gone
  sel,      \* the session that takes the work now
  jam,      \* does a Jam session run on the canvas
  settings, \* jam.runner, and the start sheet's context: "fresh" - no session
  given,    \* every handle given out: who got which generation of a run
  working,  \* the handles sessions work under
  boot,     \* "down", "barrier" while saved results are posted, "up"
  moves,    \* changes of usable, sel, jam and settings
  crashes   \* times the process stopped

people == <<usable, gone, sel, jam, settings, moves>>
vars == <<req, batch, job, pick, people, given, working, boot, crashes>>

-----------------------------------------------------------------------------
(* Types *)

Taker == Session \cup {NoSession}
ReqRec == [st : {"new", "queued", "working", "over"}, frames : SUBSET Frame,
           alone : {"no", "back", "spawn"}]
Runner == {"", "session", "agent"}
Stop == {"", "background", "drop"}
BatchRec == [st : {"claimed", "done", "failed"}, req : Request,
             frames : SUBSET Frame, exclusive : BOOLEAN, share : Taker,
             runner : Runner, offer : Taker, handoff : {"", "spawn", "queue"},
             claim : Taker, gen : Nat, stop : Stop, result : BOOLEAN,
             dropped : BOOLEAN, saved : BOOLEAN]

(* deferred: recovered, to be launched; start: runBatch begins; asks: it   *)
(* waits for the lock to offer the run; waits: for the session; left: no   *)
(* session ran it; routes: an agent will; ran: the session's words came.   *)
Job == {"off", "deferred", "start", "asks", "waits", "left", "routes",
        "permit", "agent", "ran", "post"}
Handle == Session \X Batch \X Nat

-----------------------------------------------------------------------------
(* What the rules read *)

Running == {b \in Batch : job[b] # "off"}
Open == {b \in DOMAIN batch : batch[b].st = "claimed" /\ ~batch[b].saved}
Agents == {b \in Batch : job[b] = "agent"}
Fresh == Batch \ DOMAIN batch

SessionsOn == jam /\ settings.context = "fork"
WaitsForSession == settings.runner = "session" /\ settings.context = "fork"
Selected == IF SessionsOn THEN sel ELSE NoSession

(* kept and load: a run formed beside this session's runs has a place of   *)
(* its own until it is offered; one it must let go of takes none.          *)
Kept(b, s) ==
  /\ batch[b].share = s /\ batch[b].offer = NoSession /\ batch[b].claim = NoSession
  /\ batch[b].handoff = "" /\ batch[b].runner # "agent"
HoldsPlace(b, s) == \/ batch[b].offer = s
                    \/ batch[b].claim = s /\ batch[b].stop = ""
                    \/ Kept(b, s)
Load(s) == Cardinality({b \in Open : HoldsPlace(b, s)})
Others(b, s) == Cardinality({x \in Open \ {b} : HoldsPlace(x, s)})
Room == IF Selected # NoSession /\ Load(Selected) < SessionMax
          THEN SessionMax - Load(Selected) ELSE 0

(* heldBy: is a run this session's - or done with its frames.              *)
HeldBy(x, s) ==
  \/ batch[x].saved
  \/ /\ batch[x].handoff = "" /\ batch[x].runner # "agent"
     /\ \/ batch[x].offer = s
        \/ batch[x].claim = s /\ batch[x].stop = ""
        \/ batch[x].share = s /\ batch[x].offer = NoSession /\ batch[x].claim = NoSession

Overlap(b) == {x \in Running \ {b} : batch[x].frames \cap batch[b].frames # {}}
MayHold(b, s) == \A x \in Overlap(b) : HeldBy(x, s)

-----------------------------------------------------------------------------
(* How a run leaves its session.  Each gives the batch after it.           *)

(* letGo: an agent takes it, or it waits for a session again. *)
LetGo(x) == IF WaitsForSession THEN [x EXCEPT !.handoff = "", !.runner = "session"]
                               ELSE [x EXCEPT !.handoff = "spawn"]
\* Mutant: it waits for a session with its frames kept.
CrowdedWaits(x) == LetGo(x)
(* crowdedOut: it may not wait for a session with its frames kept. *)
CrowdedOut(x) == IF WaitsForSession
                   THEN [x EXCEPT !.handoff = "queue", !.runner = "session"]
                   ELSE [x EXCEPT !.handoff = "spawn"]
(* stopNow: the owner's choice wins over waiting for a session. *)
StopNow(x) == LET free == [x EXCEPT !.claim = NoSession, !.stop = ""]
              IN IF x.stop = "drop" THEN [free EXCEPT !.dropped = TRUE]
                                    ELSE [free EXCEPT !.handoff = "spawn"]

Puts(b, x) == batch' = [batch EXCEPT ![b] = x]
Moved(r, st) == req' = [req EXCEPT ![r] = [req[r] EXCEPT !.st = st]]

(* settle with no words: whoever waits for the run goes on without it. *)
Told(b, x) == IF job[b] \in {"asks", "waits"} /\ (x.handoff # "" \/ x.dropped)
                THEN [job EXCEPT ![b] = "left"] ELSE job

Becomes(b, x) ==
  /\ Puts(b, x)
  /\ job' = Told(b, x)

-----------------------------------------------------------------------------
(* The pass of the pump: form *)

Queued == {r \in Request : req[r].st = "queued"}
RunningFrames == UNION {batch[b].frames : b \in Running}
SessionSide(b) ==
  /\ batch[b].handoff # "spawn"
  /\ \/ batch[b].offer # NoSession \/ batch[b].claim # NoSession
     \/ batch[b].runner = "session"
Spawning == Cardinality({b \in Running : ~SessionSide(b)})
Free == IF Spawning < Concurrency + Room THEN Concurrency + Room - Spawning ELSE 0

(* runsAlone: with no frame, a request runs beside others only for the     *)
(* session that takes the work.                                            *)
RunsAlone(r) ==
  req[r].frames = {} /\ (req[r].alone # "no" \/ Selected = NoSession)
AloneQueued == {r \in Queued : RunsAlone(r)}

(* A request on frames the session's own runs hold may be formed beside    *)
(* them; S is what the pass has formed before it.                          *)
Sharable(f) ==
  \A b \in Running : f \in batch[b].frames =>
    ~batch[b].exclusive /\ HeldBy(b, Selected)
FramesIn(S) == UNION {req[r].frames : r \in S}
Joins(r) == req[r].frames = {} \/ req[r].frames \cap RunningFrames # {}
Took(S) == Cardinality({r \in S : Joins(r)})
Shares(r, S) ==
  /\ Room > Took(S)
  /\ req[r].alone = "no"
  /\ req[r].frames \cap FramesIn(S) = {}
  /\ \A f \in req[r].frames \cap RunningFrames : Sharable(f)
MayStart(r, S) ==
  IF req[r].frames = {}
    THEN Cardinality({x \in S : req[x].alone # "spawn"}) < Room
    ELSE /\ Cardinality(S) < Free
         /\ \/ req[r].frames \cap (RunningFrames \cup FramesIn(S)) = {}
            \/ Shares(r, S)

NewBatch(r, alone) ==
  [st |-> "claimed", req |-> r, frames |-> req[r].frames, exclusive |-> alone,
   share |-> IF ~alone /\ Joins(r) THEN Selected ELSE NoSession,
   runner |-> "", offer |-> NoSession,
   handoff |-> IF req[r].alone = "spawn" THEN "spawn" ELSE "",
   claim |-> NoSession, gen |-> 0, stop |-> "", result |-> FALSE,
   dropped |-> FALSE, saved |-> FALSE]

Forms(S, alone) ==
  \E new \in [S -> Fresh] :
    LET reqOf(b) == CHOOSE r \in S : new[r] = b
        news == {new[r] : r \in S}
    IN /\ \A r, q \in S : new[r] = new[q] => r = q
       /\ req' = [r \in Request |->
                   IF r \in S THEN [req[r] EXCEPT !.st = "working", !.alone = "no"]
                              ELSE req[r]]
       /\ batch' = [b \in DOMAIN batch \cup news |->
                     IF b \in news THEN NewBatch(reqOf(b), alone) ELSE batch[b]]
       /\ job' = [b \in Batch |-> IF b \in news THEN "start" ELSE job[b]]
       /\ UNCHANGED <<pick, people, given, working, boot, crashes>>

(* What was recovered is launched first.                                   *)
Pump ==
  /\ boot = "up" /\ \A b \in Batch : job[b] # "deferred"
  /\ IF AloneQueued # {}
       THEN /\ Running = {}
            /\ \E r \in AloneQueued : /\ \A q \in AloneQueued : r <= q
                                      /\ Forms({r}, TRUE)
       ELSE /\ \A b \in Running : ~batch[b].exclusive
            /\ \E S \in SUBSET Queued \ {{}} :
                 /\ \A r \in Queued : r \in S <=> MayStart(r, {q \in S : q < r})
                 /\ Forms(S, FALSE)

-----------------------------------------------------------------------------
(* runBatch: who runs it *)

Fails(b) ==
  /\ Puts(b, [batch[b] EXCEPT !.st = "failed"])
  /\ Moved(batch[b].req, "over")
  /\ job' = [job EXCEPT ![b] = "off"]
  /\ UNCHANGED <<pick, people, given, working, boot, crashes>>

DropFails(b) == job[b] \in {"start", "left"} /\ batch[b].dropped /\ Fails(b)

(* choose: the session a run goes to, "wait" for one, or none. *)
Chosen(b) ==
  LET shared == Selected # NoSession /\ batch[b].share = Selected
      has == Selected # NoSession /\ Load(Selected) < SessionMax
  IN [conn |-> IF shared \/ has THEN Selected ELSE NoSession,
      wait |-> shared \/ has \/ WaitsForSession]
SessionHeld(b) ==
  \/ batch[b].claim # NoSession \/ batch[b].offer # NoSession
  \/ batch[b].runner = "session"

Goes(b, to, s) ==
  /\ job' = [job EXCEPT ![b] = to]
  /\ pick' = [pick EXCEPT ![b] = s]
  /\ UNCHANGED <<req, batch, people, given, working, boot, crashes>>

(* The next request for the lock comes behind one that saves its runner:   *)
(* nothing formed meanwhile is offered before it.                          *)
Begins(b) ==
  /\ job[b] = "start"
  /\ \A x \in Batch : job[x] # "routes"
  /\ \/ /\ batch[b].handoff # "" \/ batch[b].runner = "agent"
        /\ Goes(b, "left", NoSession)
     \/ /\ batch[b].handoff = "" /\ batch[b].runner # "agent"
        /\ \/ batch[b].result /\ Goes(b, "ran", NoSession)
           \/ SessionHeld(b) /\ ~batch[b].result /\ Goes(b, "asks", NoSession)
           \/ /\ ~SessionHeld(b)
              /\ Goes(b, IF Chosen(b).wait THEN "asks" ELSE "left", Chosen(b).conn)

\* Mutant: the owner's drop is looked at only when a session lets go.
StartDropped(b) == Begins(b)
Start(b) == Begins(b) /\ ~batch[b].dropped

\* Mutant: the place is the one seen as the session was chosen.
NeverFull(b, s) == FALSE
Full(b, s) == s # NoSession /\ Others(b, s) >= SessionMax

(* run: the session's room and the run's frames are looked at again under  *)
(* the lock.                                                               *)
Asks(b) ==
  LET s == pick[b]
      idle == batch[b].claim = NoSession /\ batch[b].offer = NoSession
      crowded == s # NoSession /\ ~MayHold(b, s)
      Asked(x) == /\ Puts(b, x)
                  /\ job' = [job EXCEPT ![b] = IF x.handoff # "" THEN "left" ELSE "waits"]
  IN /\ job[b] = "asks"
     /\ \/ ~idle /\ Asked(batch[b])
        \/ idle /\ Full(b, s) /\ Asked(LetGo(batch[b]))
        \/ idle /\ ~Full(b, s) /\ crowded /\ Asked(CrowdedOut(batch[b]))
        \/ /\ idle /\ ~Full(b, s) /\ ~crowded
           /\ Asked([batch[b] EXCEPT !.runner = "session", !.offer = s])
     /\ UNCHANGED <<req, pick, people, given, working, boot, crashes>>

(* No session ran it.  Beside another runner of its frames it does not     *)
(* run: it goes back to the queue with what it holds, and so does one with *)
(* no frame that is not alone.                                             *)
GoesBack(b) ==
  \/ batch[b].handoff = "queue"
  \/ ~batch[b].exclusive /\ batch[b].frames = {}
  \/ Overlap(b) # {}

Back(b) ==
  /\ job[b] = "left" /\ ~batch[b].dropped /\ GoesBack(b)
  /\ LET spawn == batch[b].handoff = "spawn" \/ batch[b].runner = "agent"
     IN req' = [req EXCEPT ![batch[b].req] =
                 [st |-> "queued", frames |-> @.frames \cup batch[b].frames,
                  alone |-> IF spawn THEN "spawn" ELSE "back"]]
  /\ Puts(b, [batch[b] EXCEPT !.st = "done"])
  /\ job' = [job EXCEPT ![b] = "off"]
  /\ UNCHANGED <<pick, people, given, working, boot, crashes>>

Leaves(b) ==
  /\ job[b] = "left" /\ ~batch[b].dropped /\ ~GoesBack(b)
  /\ Goes(b, "routes", NoSession)

Routes(b) ==
  /\ job[b] = "routes"
  /\ Puts(b, [batch[b] EXCEPT !.runner = "agent", !.handoff = "", !.share = NoSession])
  /\ job' = [job EXCEPT ![b] = "permit"]
  /\ UNCHANGED <<req, pick, people, given, working, boot, crashes>>

Spawns(b) ==
  /\ job[b] = "permit" /\ Cardinality(Agents) < Concurrency
  /\ job' = [job EXCEPT ![b] = "agent"]
  /\ UNCHANGED <<req, batch, pick, people, given, working, boot, crashes>>

AgentFails(b) == job[b] = "agent" /\ Fails(b)

(* Results first, then the replies; the session's words become results as  *)
(* an agent's do.                                                          *)
Saves(b) ==
  /\ job[b] \in {"agent", "ran"}
  /\ Puts(b, [batch[b] EXCEPT !.saved = TRUE])
  /\ job' = [job EXCEPT ![b] = "post"]
  /\ UNCHANGED <<req, pick, people, given, working, boot, crashes>>

Delivers(b) ==
  /\ job[b] = "post"
  /\ Puts(b, [batch[b] EXCEPT !.st = "done"])
  /\ Moved(batch[b].req, "over")
  /\ job' = [job EXCEPT ![b] = "off"]
  /\ UNCHANGED <<pick, people, given, working, boot, crashes>>

-----------------------------------------------------------------------------
(* What a session asks of the daemon.  A session may use any handle it was *)
(* given, old ones too; one whose process is gone asks nothing.            *)

Answers == boot = "up"
Names(s, b, g) ==           \* claimOf
  /\ Answers /\ s \notin gone /\ <<s, b, g>> \in given
  /\ b \in Open /\ batch[b].claim = s /\ batch[b].gen = g

(* next: one of the runs offered to it - one it may not hold any more goes *)
(* back through the scheduler.                                             *)
Next1(s, b) ==
  /\ Answers /\ s \in usable /\ Selected = s
  /\ b \in Open /\ batch[b].offer = s

NextGen(b) == batch[b].gen + 1

Takes(s, b) ==
  LET g == NextGen(b)
  IN /\ Next1(s, b) /\ MayHold(b, s) /\ g <= MaxGen
     /\ Puts(b, [batch[b] EXCEPT !.offer = NoSession, !.handoff = "", !.runner = "session",
                                 !.claim = s, !.gen = g])
     /\ given' = given \cup {<<s, b, g>>}
     /\ working' = working \cup {<<s, b, g>>}
     /\ UNCHANGED <<req, job, pick, people, boot, crashes>>

TakesNot(s, b) ==
  /\ Next1(s, b) /\ ~MayHold(b, s)
  /\ Becomes(b, CrowdedOut([batch[b] EXCEPT !.offer = NoSession]))
  /\ UNCHANGED <<req, pick, people, given, working, boot, crashes>>

(* release: muted sessions may, too. *)
LetsGo(s, b, g) ==
  /\ Names(s, b, g)
  /\ Becomes(b, IF batch[b].stop # "" THEN StopNow(batch[b])
                ELSE LetGo([batch[b] EXCEPT !.claim = NoSession]))
  /\ working' = working \ {<<s, b, g>>}
  /\ UNCHANGED <<req, pick, people, given, boot, crashes>>

\* Mutant: a run handed back may still be let go of.
ReleaseLate(s, b, g) == LetsGo(s, b, g)
Release(s, b, g) == ~batch[b].result /\ LetsGo(s, b, g)

(* done: refused once the owner moved the run or it was handed back. *)
Done(s, b, g) ==
  /\ Names(s, b, g) /\ s \in usable
  /\ batch[b].stop = "" /\ ~batch[b].result
  /\ Puts(b, [batch[b] EXCEPT !.result = TRUE])
  /\ job' = [job EXCEPT ![b] = IF @ \in {"asks", "waits"} THEN "ran" ELSE @]
  /\ working' = working \ {<<s, b, g>>}
  /\ UNCHANGED <<req, pick, people, given, boot, crashes>>

(* own: a frame the run makes is its own before it is placed. *)
Own(s, b, g, f) ==
  /\ Names(s, b, g) /\ s \in usable
  /\ batch[b].stop = "" /\ ~batch[b].result
  /\ f \notin batch[b].frames
  /\ \A x \in Running \ {b} : f \notin batch[x].frames
  /\ Puts(b, [batch[b] EXCEPT !.frames = @ \cup {f}])
  /\ UNCHANGED <<req, job, pick, people, given, working, boot, crashes>>

-----------------------------------------------------------------------------
(* The owner: a request; a run given back, moved or dropped, from any page *)
(* that knows its generation                                               *)

Ask(r) ==
  /\ boot # "down" /\ req[r].st = "new"
  /\ Moved(r, "queued")
  /\ UNCHANGED <<batch, job, pick, people, given, working, boot, crashes>>

Held(b) == boot # "down" /\ b \in Open /\ batch[b].claim # NoSession
\* Mutant: the run moves at once, its session still at it.
ActAtOnce(b, stop) ==
  /\ Held(b) /\ ~batch[b].result /\ stop # ""
  /\ Becomes(b, StopNow([batch[b] EXCEPT !.stop = stop]))
  /\ UNCHANGED <<req, pick, people, given, working, boot, crashes>>
Act(b, stop) ==
  /\ Held(b) /\ ~batch[b].result
  /\ batch[b].stop # stop
  /\ Puts(b, [batch[b] EXCEPT !.stop = stop])
  /\ UNCHANGED <<req, job, pick, people, given, working, boot, crashes>>

(* finishStop: a stop is confirmed by its writer proven gone. *)
FinishStop(b) ==
  /\ Held(b) /\ batch[b].stop # "" /\ ~batch[b].result
  /\ batch[b].claim \in gone
  /\ Becomes(b, StopNow(batch[b]))
  /\ UNCHANGED <<req, pick, people, given, working, boot, crashes>>

(* Who takes the work: the owner's pick while it is usable, else another    *)
(* usable session.  One that goes silent, turns to plan mode or mutes Jam   *)
(* is not gone: it may still work.                                          *)
Moves ==
  /\ moves < MaxMoves
  /\ moves' = moves + 1
  /\ UNCHANGED <<req, batch, job, pick, given, boot, crashes>>

Connects(s) ==
  /\ Moves
  /\ s \notin usable \cup gone
  /\ usable' = usable \cup {s}
  /\ sel' \in IF sel = NoSession THEN {s} ELSE {sel, s}
  /\ UNCHANGED <<gone, jam, settings, working>>

\* Mutant: who takes the work is looked up once.
AwayPicked(s) == usable' = usable \ {s} /\ UNCHANGED <<sel, jam, settings>>
Away(s) ==
  /\ usable' = usable \ {s}
  /\ sel' \in IF usable' = {} THEN {NoSession}
              ELSE IF sel = s THEN usable' ELSE {sel}
  /\ UNCHANGED <<jam, settings>>

TurnsAway(s) == Moves /\ s \in usable /\ Away(s) /\ UNCHANGED <<gone, working>>

Ends(s) ==
  /\ Moves /\ s \notin gone
  /\ gone' = gone \cup {s}
  /\ working' = {h \in working : h[1] # s}
  /\ Away(s)

Chooses(s) ==
  /\ Moves /\ boot # "down" /\ s \in usable \ {sel}
  /\ sel' = s
  /\ UNCHANGED <<usable, gone, jam, settings, working>>

JamTurns ==
  /\ Moves /\ boot # "down"
  /\ jam' = ~jam
  /\ UNCHANGED <<usable, gone, sel, settings, working>>

ContextTurns ==
  /\ Moves /\ boot # "down"
  /\ settings' = [settings EXCEPT !.context = IF @ = "fork" THEN "fresh" ELSE "fork"]
  /\ UNCHANGED <<usable, gone, sel, jam, working>>

-----------------------------------------------------------------------------
(* tick *)

(* An offer is taken back when its session cannot take it now, or - unless *)
(* runs wait for a session - was not taken in time.                        *)
Stale(b) ==
  \/ batch[b].offer \notin usable \/ Selected # batch[b].offer
  \/ settings.runner # "session"
Withdraws(b) ==
  /\ Answers /\ b \in Open /\ batch[b].offer # NoSession /\ Stale(b)
  /\ Becomes(b, LetGo([batch[b] EXCEPT !.offer = NoSession]))
  /\ UNCHANGED <<req, pick, people, given, working, boot, crashes>>

(* What waits for a session is offered to one, goes back to the queue when *)
(* that one may not hold it, and is spawned once waiting is not the rule.  *)
Waiting(b) ==
  /\ Answers /\ b \in Open /\ job[b] \in {"asks", "waits"}
  /\ batch[b].offer = NoSession /\ batch[b].claim = NoSession
  /\ batch[b].runner = "session" /\ batch[b].handoff = ""

SpawnsWaiting(b) ==
  /\ Waiting(b) /\ ~WaitsForSession /\ Selected = NoSession
  /\ Becomes(b, [batch[b] EXCEPT !.handoff = "spawn"])
  /\ UNCHANGED <<req, pick, people, given, working, boot, crashes>>

OffersWaiting(b) ==
  /\ Waiting(b) /\ Selected # NoSession /\ Others(b, Selected) < SessionMax
  /\ Becomes(b, IF MayHold(b, Selected) THEN [batch[b] EXCEPT !.offer = Selected]
                                        ELSE CrowdedOut(batch[b]))
  /\ UNCHANGED <<req, pick, people, given, working, boot, crashes>>

-----------------------------------------------------------------------------
(* Stop and start *)

Crash ==
  /\ crashes < MaxCrash
  /\ crashes' = crashes + 1
  /\ job' = [b \in Batch |-> "off"]
  /\ pick' = [b \in Batch |-> NoSession]
  /\ boot' = "down"
  /\ UNCHANGED <<req, batch, people, given, working>>

(* recover: saved results are posted before anything else; a run a session *)
(* holds is waited on again as it was; the rest runs again.                *)
Recover ==
  /\ boot = "down"
  /\ boot' = "barrier"
  /\ job' = [b \in Batch |->
              IF b \in Open THEN "deferred"
              ELSE IF b \in DOMAIN batch /\ batch[b].st = "claimed" THEN "post" ELSE "off"]
  /\ UNCHANGED <<req, batch, pick, people, given, working, crashes>>

Ready ==
  /\ boot = "barrier"
  /\ \A b \in Batch : job[b] # "post"
  /\ boot' = "up"
  /\ UNCHANGED <<req, batch, job, pick, people, given, working, crashes>>

Launches(b) ==
  /\ boot = "up"
  /\ job[b] = "deferred"
  /\ Goes(b, "start", NoSession)

-----------------------------------------------------------------------------
(* Specification *)

Init ==
  /\ req = [r \in Request |-> [st |-> "new", frames |-> FramesAsked[r], alone |-> "no"]]
  /\ batch = [b \in {} |-> {}]
  /\ job = [b \in Batch |-> "off"]
  /\ pick = [b \in Batch |-> NoSession]
  /\ usable = {} /\ gone = {} /\ sel = NoSession /\ moves = 0
  /\ jam = FALSE /\ settings \in [runner : Runners, context : {"fork"}]
  /\ given = {} /\ working = {}
  /\ boot = "down" /\ crashes = 0

(* runBatch, run by run. *)
Job1(b) ==
  \/ Launches(b) \/ DropFails(b) \/ Start(b) \/ Asks(b) \/ Back(b) \/ Leaves(b)
  \/ Routes(b) \/ AgentFails(b) \/ Saves(b) \/ Delivers(b)
Tick(b) ==
  FinishStop(b) \/ Withdraws(b) \/ SpawnsWaiting(b) \/ OffersWaiting(b)
ForSession(b) ==
  \/ \E s \in Session : Takes(s, b) \/ TakesNot(s, b)
  \/ \E h \in given : h[2] = b /\ (Release(h[1], b, h[3]) \/ Done(h[1], b, h[3]))
Owns(b) ==
  \E h \in given, f \in Frame : h[2] = b /\ Own(h[1], b, h[3], f)
Owner == (\E r \in Request : Ask(r)) \/ (\E b \in Batch, stop \in Stop : Act(b, stop))
People ==
  \/ \E s \in Session : Connects(s) \/ TurnsAway(s) \/ Ends(s) \/ Chooses(s)
  \/ JamTurns \/ ContextTurns

Next ==
  \/ Owner \/ People \/ Pump
  \/ \E b \in Batch : Job1(b) \/ Spawns(b) \/ Tick(b) \/ ForSession(b) \/ Owns(b)
  \/ Crash \/ Recover \/ Ready

Spec == Init /\ [][Next]_vars

(* The daemon's own: jobs go on, an agent that does not answer is stopped, *)
(* tick is a timer, and permits are given in turn.                         *)
Fairness ==
  /\ \A b \in Batch : WF_vars(Job1(b)) /\ WF_vars(Spawns(b)) /\ WF_vars(Tick(b))
  /\ WF_vars(Pump) /\ WF_vars(Recover) /\ WF_vars(Ready)
FairSpec == Spec /\ Fairness

-----------------------------------------------------------------------------
(* Properties *)

TypeOK ==
  /\ req \in [Request -> ReqRec]
  /\ DOMAIN batch \subseteq Batch /\ \A b \in DOMAIN batch : batch[b] \in BatchRec
  /\ job \in [Batch -> Job] /\ pick \in [Batch -> Taker]
  /\ usable \subseteq Session \ gone /\ gone \subseteq Session
  /\ sel \in Taker /\ (sel = NoSession <=> usable = {}) /\ sel \in usable \cup {NoSession}
  /\ jam \in BOOLEAN
  /\ settings \in [runner : {"auto", "session"}, context : {"fork", "fresh"}]
  /\ given \subseteq Handle /\ working \subseteq given
  /\ boot \in {"down", "barrier", "up"} /\ moves \in Nat /\ crashes \in Nat

(* A session that works on a run is the one the daemon knows to hold it,   *)
(* under that very handle: no withdrawal, restart, move by the owner or    *)
(* command under another handle takes a run away behind its worker's back. *)
(* What the owner dropped has no worker, gets none, is not delivered, and  *)
(* its card does not come back.                                            *)
WorkersAreKnown ==
  /\ \A h \in working :
    /\ h[2] \in Open
    /\ batch[h[2]].claim = h[1] /\ batch[h[2]].gen = h[3]
    /\ ~batch[h[2]].result
  /\ \A b \in DOMAIN batch : batch[b].dropped =>
    /\ ~batch[b].saved /\ batch[b].st # "done"
    /\ batch[b].claim = NoSession /\ batch[b].offer = NoSession
    /\ job[b] \notin {"routes", "permit", "agent", "ran", "post"}

(* One frame never has two runners, except two runs of one session: what   *)
(* agents edit and what sessions work on does not meet.  An agent with no  *)
(* frame of its own is alone, as frames it makes are found only when       *)
(* nothing ran beside it; and what runs alone has nothing beside it,       *)
(* whoever runs it, after a restart too.                                   *)
OneRunner ==
  /\ \A a \in Agents : \A b \in Agents \cup {h[2] : h \in working} :
       a # b => batch[a].frames \cap batch[b].frames = {}
  /\ \A h, k \in working :
       h[1] # k[1] => batch[h[2]].frames \cap batch[k[2]].frames = {}
  /\ \A h \in working : h[2] \notin Agents
  /\ \A a \in Agents : batch[a].frames = {} => batch[a].exclusive
  /\ \A b \in Running : batch[b].exclusive => Running = {b}

(* A run handed back stays handed back until its words are saved: no       *)
(* release, stop, old handle or restart takes it away or runs it again.    *)
HandedBackStands ==
  [][\A b \in DOMAIN batch : batch[b].result =>
       /\ batch[b].claim = batch'[b].claim /\ batch[b].gen = batch'[b].gen
       /\ batch'[b].result /\ batch'[b].stop = "" /\ ~batch'[b].dropped
       /\ (batch'[b].st = "claimed" \/ batch'[b].saved)]_vars

(* An offer has a place: however many runs chose the last one of a session *)
(* at once, the session is offered no more than it may hold.               *)
OffersFit ==
  [][\A s \in Session :
       (\E b \in DOMAIN batch : batch[b].offer # s /\ batch'[b].offer = s)
         => Load(s)' <= SessionMax]_vars

(* A run ends or a session holds it: no offer, wait, way back or permit is *)
(* for ever.  With session-only it may wait as long as no session takes    *)
(* the work, or one has any of the runs; but runs never wait for each      *)
(* other, with a session there to take them and nothing in its hands.      *)
Claimed(b) == b \in DOMAIN batch /\ batch[b].st = "claimed"
InHands(b) == batch[b].claim # NoSession
Excused ==
  /\ settings.runner = "session"
  /\ \/ Selected = NoSession
     \/ \E b \in Open : batch[b].offer # NoSession \/ InHands(b)
RunsEnd ==
  \A b \in Batch : Claimed(b) ~> ((Claimed(b) => InHands(b)) \/ Excused)
=============================================================================
