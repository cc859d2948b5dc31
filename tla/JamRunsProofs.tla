--------------------------- MODULE JamRunsProofs ---------------------------
(* What holds of runs for any number of requests, sessions, runs, moves    *)
(* and stops of the server: the daemon knows whoever works on a run, one   *)
(* frame has one runner, what was handed back stands, and a session is     *)
(* offered no more than it may hold.                                       *)
EXTENDS JamRuns, FiniteSetTheorems, TLAPS

-----------------------------------------------------------------------------
(* The inductive invariant *)

Live == {b \in DOMAIN batch : batch[b].st = "claimed"}
Idle(b) == batch[b].claim = NoSession /\ batch[b].offer = NoSession

\* Who a run is with: a session it is offered to, one that holds it, or an agent; a run
\* handed back stays with its session, a run dropped is nobody's.
BatchOK(b) ==
  /\ batch[b].offer # NoSession => batch[b].claim = NoSession
  /\ batch[b].handoff # "" \/ batch[b].runner = "agent" => Idle(b)
  /\ batch[b].result =>
       /\ batch[b].claim # NoSession /\ batch[b].stop = "" /\ ~batch[b].dropped
       /\ batch[b].st = "claimed" \/ batch[b].saved
  /\ batch[b].dropped => Idle(b) /\ ~batch[b].saved /\ batch[b].st # "done"

\* Where runBatch stands for it.
JobOK(b) ==
  /\ job[b] # "off" => b \in Live /\ boot # "down"
  /\ b \in Live /\ boot # "down" => job[b] # "off"
  /\ job[b] # "off" => (job[b] = "post" <=> batch[b].saved)
  /\ job[b] \in {"left", "routes", "permit", "agent"} => Idle(b)
  /\ job[b] \in {"permit", "agent"} => batch[b].runner = "agent"
  /\ job[b] \in {"routes", "permit", "agent"} => batch[b].exclusive \/ batch[b].frames # {}
  /\ job[b] \in {"asks", "waits"} => batch[b].handoff = "" /\ batch[b].runner # "agent"
  /\ job[b] = "ran" => batch[b].result
  /\ b \in DOMAIN batch /\ batch[b].dropped => job[b] \in {"off", "deferred", "start", "left"}

\* Two runs with a frame in common: beside one an agent has or will have, no session has
\* or is offered the other; and what sessions hold, one session holds.
Meets(x, y) == batch[x].frames \cap batch[y].frames # {}
Beside(x, y) ==
  /\ job[x] = "routes" => job[y] = "start" /\ Idle(y) /\ batch[y].runner # "agent"
  /\ ~batch[x].saved /\ ~batch[y].saved /\ batch[x].runner = "agent" =>
       Idle(y) /\ batch[y].runner # "agent"
  /\ ~batch[x].saved /\ ~batch[y].saved /\ batch[x].claim # NoSession /\ batch[y].claim # NoSession =>
       batch[x].claim = batch[y].claim
Pairs ==
  \A x, y \in Live : x # y =>
    /\ Meets(x, y) => Beside(x, y)
    /\ ~batch[x].exclusive

\* A session at work runs, and holds that run under that handle.
Works(h) ==
  /\ h[1] \notin gone /\ h[2] \in Open
  /\ batch[h[2]].claim = h[1] /\ batch[h[2]].gen = h[3] /\ ~batch[h[2]].result

IInv ==
  /\ TypeOK
  /\ \A b \in DOMAIN batch : BatchOK(b)
  /\ \A b \in Batch : JobOK(b)
  /\ Pairs
  /\ \A h \in working : Works(h)

-----------------------------------------------------------------------------
(* What a step does to one run *)

BatchTypes == DOMAIN batch \subseteq Batch /\ \A b \in DOMAIN batch : batch[b] \in BatchRec

\* A run written anew leaves every other run and stays a run.
LEMMA Put ==
  ASSUME BatchTypes, NEW b \in DOMAIN batch, NEW x \in BatchRec, Puts(b, x)
  PROVE  /\ DOMAIN batch' = DOMAIN batch /\ batch'[b] = x
         /\ \A c \in DOMAIN batch \ {b} : batch'[c] = batch[c]
         /\ BatchTypes'
BY DEF BatchTypes, Puts

\* Nothing but b changes, and its runBatch.
Only(b) ==
  /\ b \in DOMAIN batch /\ DOMAIN batch' = DOMAIN batch /\ batch'[b] \in BatchRec
  /\ \A c \in DOMAIN batch \ {b} : batch'[c] = batch[c]
  /\ \A c \in Batch \ {b} : job'[c] = job[c]
  /\ UNCHANGED boot

\* What stays of it.
Stays(b) ==
  /\ batch'[b].st = batch[b].st /\ batch'[b].saved = batch[b].saved
  /\ batch'[b].frames = batch[b].frames /\ batch'[b].exclusive = batch[b].exclusive
  /\ batch'[b].result = batch[b].result

Waitable == {"deferred", "start", "asks", "waits"}

\* It leaves its session, or the session it could have had: to an agent, the queue, nobody,
\* or to wait for a session again.
Freed(b) ==
  /\ b \in Open /\ Only(b) /\ Stays(b)
  /\ ~batch[b].result /\ batch[b].runner # "agent"
  /\ Idle(b)' /\ batch'[b].runner # "agent"
  /\ job[b] \in Waitable /\ job'[b] \in Waitable \cup {"left"} /\ (job[b] = "start" => job'[b] = "start")
  /\ batch'[b].dropped => job'[b] \in {"deferred", "start", "left"}
  /\ job'[b] \in {"asks", "waits"} => batch'[b].handoff = ""

\* It is offered to s, who may hold it, or to nobody.
Offered(b, s) ==
  /\ b \in Open /\ Only(b) /\ Stays(b)
  /\ Idle(b) /\ {job[b], job'[b]} \subseteq {"asks", "waits"}
  /\ s # NoSession => MayHold(b, s) /\ Others(b, s) < SessionMax
  /\ batch'[b].offer = s /\ batch'[b].claim = NoSession /\ batch'[b].runner # "agent"
  /\ batch'[b].handoff = "" /\ batch'[b].dropped = batch[b].dropped

\* runBatch goes on with it as it is.
Kept1(b) ==
  /\ b \in Open /\ Only(b) /\ batch'[b] = batch[b] /\ ~Idle(b)
  /\ job[b] = "asks" /\ job'[b] = "waits"

\* s takes it.
Taken(b, s) ==
  /\ b \in Open /\ Only(b) /\ Stays(b) /\ job'[b] = job[b] /\ boot # "down"
  /\ s \in Session /\ batch[b].offer = s /\ MayHold(b, s)
  /\ batch'[b].claim = s /\ batch'[b].offer = NoSession
  /\ batch'[b].runner = "session" /\ batch'[b].handoff = ""
  /\ batch'[b].dropped = batch[b].dropped /\ batch'[b].gen = batch[b].gen + 1

\* Whose it is stays.
StaysWith(b) ==
  /\ batch'[b].runner = batch[b].runner /\ batch'[b].handoff = batch[b].handoff
  /\ batch'[b].claim = batch[b].claim /\ batch'[b].offer = batch[b].offer
  /\ batch'[b].gen = batch[b].gen /\ batch'[b].dropped = batch[b].dropped

\* Its session hands it back.
Handed(b) ==
  /\ b \in Open /\ Only(b) /\ StaysWith(b) /\ batch[b].claim # NoSession
  /\ batch'[b].st = "claimed" /\ batch'[b].saved = batch[b].saved
  /\ batch'[b].frames = batch[b].frames /\ batch'[b].exclusive = batch[b].exclusive
  /\ batch'[b].result /\ ~batch[b].result /\ batch'[b].stop = "" /\ batch[b].stop = ""
  /\ job'[b] = IF job[b] \in {"asks", "waits"} THEN "ran" ELSE job[b]

\* Its session makes a frame f; the owner asks for it to be moved or dropped.
Grown(b, f) ==
  /\ b \in Open /\ Only(b) /\ StaysWith(b) /\ job'[b] = job[b] /\ boot # "down"
  /\ batch'[b].st = batch[b].st /\ batch'[b].saved = batch[b].saved
  /\ batch'[b].frames = batch[b].frames \cup {f} /\ batch'[b].exclusive = batch[b].exclusive
  /\ batch'[b].result = batch[b].result /\ batch'[b].stop = batch[b].stop
  /\ \A x \in Running \ {b} : f \notin batch[x].frames
Marked(b) ==
  /\ b \in Open /\ Only(b) /\ Stays(b) /\ StaysWith(b) /\ job'[b] = job[b]
  /\ ~batch[b].result

\* It is over: it failed, or went back to the queue, or its replies are posted.
Ended(b) ==
  /\ b \in Live /\ Only(b) /\ StaysWith(b) /\ job'[b] = "off" /\ boot # "down"
  /\ batch'[b].st \in {"done", "failed"} /\ batch'[b].saved = batch[b].saved
  /\ batch'[b].result = batch[b].result /\ batch'[b].stop = batch[b].stop
  /\ batch[b].result => batch[b].saved
  /\ batch[b].dropped => batch'[b].st = "failed"
  /\ ~batch[b].saved => Idle(b)

\* An agent has it; its results are saved.
Routed(b) ==
  /\ b \in Open /\ Only(b) /\ Stays(b) /\ Idle(b)
  /\ job[b] = "routes" /\ job'[b] = "permit"
  /\ batch'[b].claim = batch[b].claim /\ batch'[b].offer = batch[b].offer
  /\ batch'[b].runner = "agent" /\ batch'[b].handoff = ""
  /\ batch'[b].dropped = batch[b].dropped
SavedNow(b) ==
  /\ b \in Open /\ Only(b) /\ StaysWith(b)
  /\ job[b] \in {"agent", "ran"} /\ job'[b] = "post"
  /\ batch'[b].st = batch[b].st /\ batch'[b].saved
  /\ batch'[b].frames = batch[b].frames /\ batch'[b].exclusive = batch[b].exclusive
  /\ batch'[b].result = batch[b].result /\ batch'[b].stop = batch[b].stop

\* runBatch goes from one place to the next.
GoesOn(b) ==
  /\ b \in Open /\ UNCHANGED <<batch, boot>> /\ boot # "down"
  /\ \A c \in Batch \ {b} : job'[c] = job[c]
  /\ \/ /\ job[b] = "start" /\ ~batch[b].dropped /\ \A x \in Batch : job[x] # "routes"
        /\ \/ job'[b] = "left" /\ Idle(b)
           \/ job'[b] = "ran" /\ batch[b].result
           \/ job'[b] = "asks" /\ batch[b].handoff = "" /\ batch[b].runner # "agent"
     \/ /\ job[b] = "left" /\ job'[b] = "routes" /\ ~batch[b].dropped /\ Overlap(b) = {}
        /\ batch[b].exclusive \/ batch[b].frames # {}
     \/ job[b] = "permit" /\ job'[b] = "agent"
     \/ job[b] = "deferred" /\ job'[b] = "start"

\* The places of a session are counted.
LEMMA OthersNat ==
  ASSUME BatchTypes, NEW b, NEW s
  PROVE  IsFiniteSet({x \in Open \ {b} : HoldsPlace(x, s)}) /\ Others(b, s) \in Nat
<1>1. {x \in Open \ {b} : HoldsPlace(x, s)} \subseteq Batch
  BY DEF Open, BatchTypes
<1> QED
  BY <1>1, BatchAssumption, FS_Subset, FS_CardinalityType DEF Others

JobType == job \in [Batch -> Job] /\ pick \in [Batch -> Taker] /\ sel \in Taker

\* What the invariant says of the runs one by one.
Sound == BatchTypes /\ JobType /\ (\A b \in DOMAIN batch : BatchOK(b)) /\ (\A b \in Batch : JobOK(b))

\* What is known of a run still to be answered.
LEMMA OfOpen ==
  ASSUME Sound, NEW b, b \in Open
  PROVE  b \in Batch /\ b \in DOMAIN batch /\ batch[b] \in BatchRec /\ BatchOK(b) /\ JobOK(b)
BY DEF Sound, Open, BatchTypes

\* x is b's run with no session.
Without(b, x) ==
  /\ x \in BatchRec /\ x.st = batch[b].st /\ x.saved = batch[b].saved
  /\ x.frames = batch[b].frames /\ x.exclusive = batch[b].exclusive
  /\ x.result = batch[b].result /\ x.runner # "agent"
  /\ x.claim = NoSession /\ x.offer = NoSession

\* A run with nobody on it still has nobody after it is let go or crowded out.
LEMMA WaitsAgain ==
  ASSUME NEW b, NEW x, Without(b, x)
  PROVE  /\ Without(b, LetGo(x)) /\ LetGo(x).dropped = x.dropped
         /\ Without(b, CrowdedOut(x)) /\ CrowdedOut(x).dropped = x.dropped
         /\ CrowdedOut(x).handoff # ""
BY DEF Without, LetGo, CrowdedOut, BatchRec, Runner

\* Each way a session parts with a run leaves nobody on it.
LEMMA Parted ==
  ASSUME NEW b, batch[b] \in BatchRec, batch[b].runner # "agent",
         NEW x, \/ batch[b].claim = NoSession /\ x = [batch[b] EXCEPT !.offer = NoSession]
                \/ batch[b].offer = NoSession /\ x = [batch[b] EXCEPT !.claim = NoSession]
                \/ Idle(b) /\ x = batch[b]
                \/ Idle(b) /\ x = [batch[b] EXCEPT !.handoff = "spawn"]
                \/ batch[b].offer = NoSession /\ x = StopNow(batch[b])
  PROVE  Without(b, x)
<1> USE DEF Without, BatchRec, Taker, Stop
<1>1. CASE \/ batch[b].claim = NoSession /\ x = [batch[b] EXCEPT !.offer = NoSession]
           \/ batch[b].offer = NoSession /\ x = [batch[b] EXCEPT !.claim = NoSession]
  BY <1>1
<1>2. CASE Idle(b) /\ (x = batch[b] \/ x = [batch[b] EXCEPT !.handoff = "spawn"])
  BY <1>2 DEF Idle
<1>3. CASE batch[b].offer = NoSession /\ x = StopNow(batch[b])
  BY <1>3, ZenonT(30) DEF StopNow
<1> QED
  BY <1>1, <1>2, <1>3

\* A run a session has or is offered, not handed back, is one runBatch waits for.
LEMMA Withheld ==
  ASSUME Sound, NEW b, b \in Open, boot # "down", ~Idle(b), ~batch[b].result
  PROVE  job[b] \in Waitable /\ batch[b].runner # "agent"
BY OfOpen DEF Sound, JobType, JobOK, BatchOK, Job, Waitable, Open, Live

\* A run that becomes one without anybody on it, before its result, is freed.
LEMMA Frees ==
  ASSUME Sound, NEW b, b \in Open, UNCHANGED boot,
         ~batch[b].result, batch[b].runner # "agent", job[b] \in Waitable,
         NEW x, Without(b, x), Becomes(b, x)
  PROVE  Freed(b)
<1>1. /\ b \in DOMAIN batch /\ b \in Batch /\ Puts(b, x) /\ job' = Told(b, x)
      /\ BatchTypes /\ job \in [Batch -> Job] /\ x \in BatchRec
  BY OfOpen DEF Becomes, Sound, JobType, Without
<1>2. /\ DOMAIN batch' = DOMAIN batch /\ batch'[b] = x
      /\ \A c \in DOMAIN batch \ {b} : batch'[c] = batch[c]
  BY <1>1, Put
<1>3. /\ \A c \in Batch \ {b} : job'[c] = job[c]
      /\ job'[b] = IF job[b] \in {"asks", "waits"} /\ (x.handoff # "" \/ x.dropped) THEN "left" ELSE job[b]
  BY <1>1 DEF Told
<1> QED
  BY <1>1, <1>2, <1>3 DEF Freed, Only, Stays, Idle, Waitable, Without

\* A session that gives a run back frees it.
LEMMA ReleaseFrees ==
  ASSUME Sound, NEW s \in Session, NEW b \in Batch, NEW g, Release(s, b, g)
  PROVE  Freed(b)
<1>1. b \in Open /\ batch[b].claim = s /\ boot # "down" /\ ~batch[b].result /\ LetsGo(s, b, g)
  BY DEF Release, LetsGo, Names, Answers
<1>2. ~Idle(b) /\ batch[b].offer = NoSession
  BY <1>1, OfOpen, NoSessionAssumption DEF Idle, BatchOK
<1>3. job[b] \in Waitable /\ batch[b].runner # "agent"
  BY <1>1, <1>2, Withheld
<1> DEFINE y == [batch[b] EXCEPT !.claim = NoSession]
           x == IF batch[b].stop # "" THEN StopNow(batch[b]) ELSE LetGo(y)
<1>4. Becomes(b, x) /\ UNCHANGED boot
  BY <1>1 DEF LetsGo
<1>5. Without(b, y) /\ Without(b, StopNow(batch[b]))
  BY <1>1, <1>2, <1>3, OfOpen, Parted
<1>6. Without(b, x)
  BY <1>5, WaitsAgain
<1> HIDE DEF x
<1> QED
  BY <1>1, <1>3, <1>4, <1>6, Frees

\* An offer not taken is freed.
LEMMA TakesNotFrees ==
  ASSUME Sound, NEW s \in Session, NEW b \in Batch, TakesNot(s, b)
  PROVE  Freed(b)
<1> DEFINE y == [batch[b] EXCEPT !.offer = NoSession]
           x == CrowdedOut(y)
<1>1. b \in Open /\ batch[b].offer = s /\ boot # "down" /\ Becomes(b, x) /\ UNCHANGED boot
  BY DEF TakesNot, Next1, Answers
<1>2. ~Idle(b) /\ batch[b].claim = NoSession /\ ~batch[b].result
  BY <1>1, OfOpen, NoSessionAssumption DEF Idle, BatchOK
<1>3. job[b] \in Waitable /\ batch[b].runner # "agent"
  BY <1>1, <1>2, Withheld
<1>4. Without(b, y)
  BY <1>1, <1>2, <1>3, OfOpen, Parted
<1>5. Without(b, x)
  BY <1>4, WaitsAgain
<1> HIDE DEF x
<1> QED
  BY <1>1, <1>2, <1>3, <1>5, Frees

\* A stop that ends its run frees it.
LEMMA FinishStopFrees ==
  ASSUME Sound, NEW b \in Batch, FinishStop(b)
  PROVE  Freed(b)
<1> DEFINE x == StopNow(batch[b])
<1>1. /\ b \in Open /\ batch[b].claim # NoSession /\ boot # "down" /\ ~batch[b].result
      /\ Becomes(b, x) /\ UNCHANGED boot
  BY DEF FinishStop, Held
<1>2. ~Idle(b) /\ batch[b].offer = NoSession
  BY <1>1, OfOpen DEF Idle, BatchOK
<1>3. job[b] \in Waitable /\ batch[b].runner # "agent"
  BY <1>1, <1>2, Withheld
<1>4. Without(b, x)
  BY <1>1, <1>2, <1>3, OfOpen, Parted
<1> HIDE DEF x
<1> QED
  BY <1>1, <1>3, <1>4, Frees

\* An offer withdrawn frees its run.
LEMMA WithdrawsFrees ==
  ASSUME Sound, NEW b \in Batch, Withdraws(b)
  PROVE  Freed(b)
<1> DEFINE y == [batch[b] EXCEPT !.offer = NoSession]
           x == LetGo(y)
<1>1. b \in Open /\ batch[b].offer # NoSession /\ boot # "down" /\ Becomes(b, x) /\ UNCHANGED boot
  BY DEF Withdraws, Answers
<1>2. ~Idle(b) /\ batch[b].claim = NoSession /\ ~batch[b].result
  BY <1>1, OfOpen DEF Idle, BatchOK
<1>3. job[b] \in Waitable /\ batch[b].runner # "agent"
  BY <1>1, <1>2, Withheld
<1>4. Without(b, y)
  BY <1>1, <1>2, <1>3, OfOpen, Parted
<1>5. Without(b, x)
  BY <1>4, WaitsAgain
<1> HIDE DEF x
<1> QED
  BY <1>1, <1>2, <1>3, <1>5, Frees

\* A run that waited long enough for a session is freed for an agent.
LEMMA SpawnsWaitingFrees ==
  ASSUME Sound, NEW b \in Batch, SpawnsWaiting(b)
  PROVE  Freed(b)
<1> DEFINE x == [batch[b] EXCEPT !.handoff = "spawn"]
<1>1. /\ b \in Open /\ Idle(b) /\ batch[b].runner # "agent" /\ job[b] \in Waitable
      /\ Becomes(b, x) /\ UNCHANGED boot
  BY DEF SpawnsWaiting, Waiting, Idle, Waitable
<1>2. ~batch[b].result
  BY <1>1, OfOpen DEF Idle, BatchOK
<1>3. Without(b, x)
  BY <1>1, OfOpen, Parted
<1> HIDE DEF x
<1> QED
  BY <1>1, <1>2, <1>3, Frees

\* An offer made to a session that may hold it, and holds less than it may, is an offer that fits.
LEMMA Offers ==
  ASSUME Sound, NEW b, b \in Open, UNCHANGED boot, Idle(b), job[b] \in {"asks", "waits"},
         NEW s \in Taker, s # NoSession => MayHold(b, s) /\ Others(b, s) < SessionMax,
         NEW x, x = [batch[b] EXCEPT !.offer = s] \/ x = [batch[b] EXCEPT !.runner = "session", !.offer = s],
         Puts(b, x), job' \in {job, [job EXCEPT ![b] = "waits"]}
  PROVE  Offered(b, s)
<1>1. /\ b \in DOMAIN batch /\ b \in Batch /\ BatchTypes /\ job \in [Batch -> Job] /\ batch[b] \in BatchRec
      /\ batch[b].runner # "agent" /\ batch[b].handoff = "" /\ ~batch[b].dropped
  BY OfOpen DEF Sound, JobType, JobOK
<1>2. /\ x \in BatchRec /\ x.st = batch[b].st /\ x.saved = batch[b].saved
      /\ x.frames = batch[b].frames /\ x.exclusive = batch[b].exclusive
      /\ x.result = batch[b].result /\ x.runner # "agent"
      /\ x.claim = batch[b].claim /\ x.offer = s /\ x.handoff = "" /\ x.dropped = batch[b].dropped
  BY <1>1, ZenonT(30) DEF BatchRec, Runner
<1>3. /\ DOMAIN batch' = DOMAIN batch /\ batch'[b] = x
      /\ \A c \in DOMAIN batch \ {b} : batch'[c] = batch[c]
  BY <1>1, <1>2, Put
<1>4. (\A c \in Batch \ {b} : job'[c] = job[c]) /\ job'[b] \in {"asks", "waits"}
  BY <1>1
<1> QED
  BY <1>1, <1>2, <1>3, <1>4 DEF Offered, Only, Stays, Idle

\* The wait for a session ends with an offer, or with nobody on the run.
LEMMA OffersWaitingOffers ==
  ASSUME Sound, NEW b \in Batch, OffersWaiting(b)
  PROVE  Freed(b) \/ \E s \in Taker : Offered(b, s)
<1>1. /\ b \in Open /\ Idle(b) /\ batch[b].runner # "agent" /\ job[b] \in {"asks", "waits"}
      /\ batch[b].handoff = "" /\ Selected # NoSession /\ Others(b, Selected) < SessionMax
      /\ UNCHANGED boot
      /\ Becomes(b, IF MayHold(b, Selected) THEN [batch[b] EXCEPT !.offer = Selected]
                                            ELSE CrowdedOut(batch[b]))
  BY DEF OffersWaiting, Waiting, Idle
<1>2. ~batch[b].result /\ ~batch[b].dropped /\ batch[b] \in BatchRec /\ Selected \in Taker
  BY <1>1, OfOpen DEF Idle, BatchOK, JobOK, Sound, JobType, Selected, Taker
<1>3. CASE ~MayHold(b, Selected)
  <2> DEFINE x == CrowdedOut(batch[b])
  <2>1. Without(b, batch[b])
    BY <1>1, <1>2, Parted
  <2>2. Without(b, x) /\ Becomes(b, x)
    BY <1>1, <1>3, <2>1, WaitsAgain
  <2> HIDE DEF x
  <2> QED
    BY <1>1, <1>2, <2>2, Frees DEF Waitable
<1>4. CASE MayHold(b, Selected)
  <2> DEFINE x == [batch[b] EXCEPT !.offer = Selected]
  <2>1. Puts(b, x) /\ job' = Told(b, x)
    BY <1>1, <1>4 DEF Becomes
  <2>2. x.handoff = "" /\ ~x.dropped
    BY <1>1, <1>2 DEF BatchRec
  <2>3. job' = job
    BY <2>1, <2>2 DEF Told
  <2>4. Offered(b, Selected)
    BY <1>1, <1>2, <1>4, <2>1, <2>3, Offers
  <2> QED
    BY <1>2, <2>4
<1> QED
  BY <1>3, <1>4

\* runBatch asks for a session: the run is as it was, or freed, or offered.
LEMMA AsksOffers ==
  ASSUME Sound, NEW b \in Batch, Asks(b)
  PROVE  Kept1(b) \/ Freed(b) \/ \E s \in Taker : Offered(b, s)
<1> DEFINE s == pick[b]
           Asked(x) == /\ Puts(b, x)
                       /\ job' = [job EXCEPT ![b] = IF x.handoff # "" THEN "left" ELSE "waits"]
<1>1. job[b] = "asks" /\ UNCHANGED boot
  BY DEF Asks
<1>2. /\ b \in Open /\ batch[b] \in BatchRec /\ s \in Taker /\ b \in DOMAIN batch
      /\ BatchOK(b) /\ JobOK(b) /\ BatchTypes /\ job \in [Batch -> Job]
  <2>1. JobOK(b) /\ BatchTypes /\ job \in [Batch -> Job] /\ s \in Taker
    BY DEF Sound, JobType
  <2>2. b \in Live /\ ~batch[b].saved
    BY <1>1, <2>1 DEF JobOK
  <2>3. b \in Open
    BY <2>2 DEF Live, Open
  <2> QED
    BY <2>1, <2>3, OfOpen
<1>3. batch[b].handoff = "" /\ batch[b].runner # "agent" /\ ~batch[b].dropped
  BY <1>1, <1>2 DEF JobOK
<1>4. \/ ~Idle(b) /\ Asked(batch[b])
      \/ Idle(b) /\ Full(b, s) /\ Asked(LetGo(batch[b]))
      \/ Idle(b) /\ s # NoSession /\ ~MayHold(b, s) /\ Asked(CrowdedOut(batch[b]))
      \/ /\ Idle(b) /\ ~Full(b, s) /\ (s # NoSession => MayHold(b, s))
         /\ Asked([batch[b] EXCEPT !.runner = "session", !.offer = s])
  BY Zenon DEF Asks, Idle
<1> HIDE DEF s
<1>5. ASSUME Idle(b), NEW x, Without(b, x), Asked(x), x.dropped = batch[b].dropped
      PROVE  Freed(b)
  <2>1. ~batch[b].result
    BY <1>2, <1>5 DEF BatchOK, Idle
  <2>2. x \in BatchRec
    BY <1>5 DEF Without
  <2>3. /\ DOMAIN batch' = DOMAIN batch /\ batch'[b] = x
        /\ \A c \in DOMAIN batch \ {b} : batch'[c] = batch[c]
    BY <1>2, <1>5, <2>2, Put
  <2>4. (\A c \in Batch \ {b} : job'[c] = job[c]) /\ job'[b] = IF x.handoff # "" THEN "left" ELSE "waits"
    BY <1>2, <1>5
  <2> QED
    BY <1>1, <1>2, <1>3, <1>5, <2>1, <2>3, <2>4 DEF Freed, Only, Stays, Idle, Waitable, Without
<1>6. CASE ~Idle(b) /\ Asked(batch[b])
  <2>1. /\ DOMAIN batch' = DOMAIN batch /\ \A c \in DOMAIN batch : batch'[c] = batch[c]
    BY <1>2, <1>6, Put
  <2>2. (\A c \in Batch \ {b} : job'[c] = job[c]) /\ job'[b] = "waits"
    BY <1>2, <1>3, <1>6
  <2>3. ~Idle(b)
    BY <1>6
  <2> QED
    BY <1>1, <1>2, <2>1, <2>2, <2>3 DEF Kept1, Only
<1>7. CASE Idle(b) /\ Full(b, s) /\ Asked(LetGo(batch[b]))
  <2>1. Without(b, batch[b])
    BY <1>2, <1>3, <1>7, Parted
  <2>2. Without(b, LetGo(batch[b])) /\ LetGo(batch[b]).dropped = batch[b].dropped
    BY <2>1, WaitsAgain
  <2> QED
    BY <1>5, <1>7, <2>2
<1>8. CASE Idle(b) /\ Asked(CrowdedOut(batch[b]))
  <2>1. Without(b, batch[b])
    BY <1>2, <1>3, <1>8, Parted
  <2>2. Without(b, CrowdedOut(batch[b])) /\ CrowdedOut(batch[b]).dropped = batch[b].dropped
    BY <2>1, WaitsAgain
  <2> QED
    BY <1>5, <1>8, <2>2
<1>9. CASE /\ Idle(b) /\ ~Full(b, s) /\ (s # NoSession => MayHold(b, s))
           /\ Asked([batch[b] EXCEPT !.runner = "session", !.offer = s])
  <2> DEFINE x == [batch[b] EXCEPT !.runner = "session", !.offer = s]
  <2>1. x.handoff = ""
    BY <1>2, <1>3 DEF BatchRec
  <2>2. Puts(b, x) /\ job' = [job EXCEPT ![b] = "waits"]
    BY <1>9, <2>1
  <2>3. s # NoSession => Others(b, s) < SessionMax
    <3>1. Others(b, s) \in Nat /\ SessionMax \in Nat
      BY <1>2, OthersNat, LimitsAssumption
    <3>2. ~Full(b, s)
      BY <1>9
    <3> QED
      BY <3>1, <3>2 DEF Full
  <2>4. Offered(b, s)
    BY <1>1, <1>2, <1>9, <2>2, <2>3, Offers
  <2> QED
    BY <1>2, <2>4
<1> QED
  BY <1>4, <1>6, <1>7, <1>8, <1>9

\* A session takes the run it was offered, under the handle of this claim.
LEMMA TakesIt ==
  ASSUME Sound, NEW s \in Session, NEW b \in Batch, Takes(s, b)
  PROVE  Taken(b, s)
<1> DEFINE g == NextGen(b)
           x == [batch[b] EXCEPT !.offer = NoSession, !.handoff = "", !.runner = "session",
                                 !.claim = s, !.gen = g]
<1>1. /\ b \in Open /\ batch[b].offer = s /\ boot # "down" /\ MayHold(b, s) /\ Puts(b, x)
      /\ UNCHANGED <<job, boot>>
  BY DEF Takes, Next1, Answers
<1>2. b \in DOMAIN batch /\ batch[b] \in BatchRec /\ BatchTypes
  BY <1>1, OfOpen DEF Sound
<1>3. batch[b].gen \in Nat
  BY <1>2 DEF BatchRec
<1>4. g = batch[b].gen + 1 /\ g \in Nat
  BY <1>3 DEF NextGen
<1> HIDE DEF g
<1>5. /\ x \in BatchRec /\ x.st = batch[b].st /\ x.saved = batch[b].saved
      /\ x.frames = batch[b].frames /\ x.exclusive = batch[b].exclusive
      /\ x.result = batch[b].result /\ x.runner = "session" /\ x.handoff = ""
      /\ x.claim = s /\ x.offer = NoSession /\ x.dropped = batch[b].dropped
      /\ x.gen = batch[b].gen + 1
  BY <1>2, <1>4 DEF BatchRec, Runner, Taker
<1> HIDE DEF x
<1> QED
  BY <1>1, <1>2, <1>5, Put DEF Taken, Only, Stays

\* A session that says done hands its result back, once.
LEMMA DoneHands ==
  ASSUME Sound, NEW s \in Session, NEW b \in Batch, NEW g, Done(s, b, g)
  PROVE  Handed(b)
<1> DEFINE x == [batch[b] EXCEPT !.result = TRUE]
<1>1. /\ b \in Open /\ batch[b].claim = s /\ batch[b].stop = "" /\ ~batch[b].result /\ Puts(b, x)
      /\ job' = [job EXCEPT ![b] = IF @ \in {"asks", "waits"} THEN "ran" ELSE @] /\ UNCHANGED boot
  BY DEF Done, Names
<1>2. b \in DOMAIN batch /\ batch[b] \in BatchRec /\ BatchTypes /\ job \in [Batch -> Job]
  BY <1>1, OfOpen DEF Sound, JobType
<1>3. /\ x \in BatchRec /\ x.st = batch[b].st /\ x.saved = batch[b].saved
      /\ x.frames = batch[b].frames /\ x.exclusive = batch[b].exclusive
      /\ x.result /\ x.runner = batch[b].runner /\ x.handoff = batch[b].handoff
      /\ x.claim = batch[b].claim /\ x.offer = batch[b].offer
      /\ x.dropped = batch[b].dropped /\ x.gen = batch[b].gen /\ x.stop = batch[b].stop
  BY <1>2 DEF BatchRec
<1> HIDE DEF x
<1>4. (\A c \in Batch \ {b} : job'[c] = job[c])
      /\ job'[b] = IF job[b] \in {"asks", "waits"} THEN "ran" ELSE job[b]
  BY <1>1, <1>2
<1>5. batch[b].st = "claimed" /\ batch[b].claim # NoSession
  BY <1>1, NoSessionAssumption DEF Open
<1> QED
  BY <1>1, <1>2, <1>3, <1>4, <1>5, Put DEF Handed, Only, StaysWith

\* A frame a session makes for its run is one no other running run has.
LEMMA OwnGrows ==
  ASSUME Sound, NEW s \in Session, NEW b \in Batch, NEW g, NEW f \in Frame, Own(s, b, g, f)
  PROVE  Grown(b, f)
<1> DEFINE x == [batch[b] EXCEPT !.frames = @ \cup {f}]
<1>1. /\ b \in Open /\ Puts(b, x) /\ UNCHANGED <<job, boot>> /\ boot # "down"
      /\ \A c \in Running \ {b} : f \notin batch[c].frames
  BY DEF Own, Names, Answers
<1>2. b \in DOMAIN batch /\ batch[b] \in BatchRec /\ BatchTypes
  BY <1>1, OfOpen DEF Sound
<1>3. /\ x \in BatchRec /\ x.st = batch[b].st /\ x.saved = batch[b].saved
      /\ x.frames = batch[b].frames \cup {f} /\ x.exclusive = batch[b].exclusive
      /\ x.result = batch[b].result /\ x.runner = batch[b].runner /\ x.handoff = batch[b].handoff
      /\ x.claim = batch[b].claim /\ x.offer = batch[b].offer
      /\ x.dropped = batch[b].dropped /\ x.gen = batch[b].gen /\ x.stop = batch[b].stop
  BY <1>2 DEF BatchRec
<1> HIDE DEF x
<1> QED
  BY <1>1, <1>2, <1>3, Put DEF Grown, Only, StaysWith

\* What the owner asks of a run marks it and leaves who is on it.
LEMMA ActMarks ==
  ASSUME Sound, NEW b \in Batch, NEW stop \in Stop, Act(b, stop)
  PROVE  Marked(b)
<1> DEFINE x == [batch[b] EXCEPT !.stop = stop]
<1>1. b \in Open /\ ~batch[b].result /\ Puts(b, x) /\ UNCHANGED <<job, boot>>
  BY DEF Act, Held
<1>2. b \in DOMAIN batch /\ batch[b] \in BatchRec /\ BatchTypes
  BY <1>1, OfOpen DEF Sound
<1>3. /\ x \in BatchRec /\ x.st = batch[b].st /\ x.saved = batch[b].saved
      /\ x.frames = batch[b].frames /\ x.exclusive = batch[b].exclusive
      /\ x.result = batch[b].result /\ x.runner = batch[b].runner /\ x.handoff = batch[b].handoff
      /\ x.claim = batch[b].claim /\ x.offer = batch[b].offer
      /\ x.dropped = batch[b].dropped /\ x.gen = batch[b].gen
  BY <1>2 DEF BatchRec, Stop
<1> HIDE DEF x
<1> QED
  BY <1>1, <1>2, <1>3, Put DEF Marked, Only, Stays, StaysWith

\* A batch that is over or saved differs in nothing else.
LEMMA Closes ==
  ASSUME Sound, NEW b \in Batch, job[b] # "off", NEW t \in {"done", "failed"}, UNCHANGED boot,
         Puts(b, [batch[b] EXCEPT !.st = t]), job' = [job EXCEPT ![b] = "off"],
         batch[b].result => batch[b].saved, batch[b].dropped => t = "failed",
         ~batch[b].saved => Idle(b)
  PROVE  Ended(b)
<1> DEFINE x == [batch[b] EXCEPT !.st = t]
<1>1. b \in Live /\ boot # "down" /\ job \in [Batch -> Job]
  BY DEF Sound, JobOK, JobType
<1>2. b \in DOMAIN batch /\ batch[b] \in BatchRec /\ BatchTypes
  BY <1>1 DEF Sound, BatchTypes, Live
<1>3. /\ x \in BatchRec /\ x.st = t /\ x.saved = batch[b].saved
      /\ x.result = batch[b].result /\ x.runner = batch[b].runner /\ x.handoff = batch[b].handoff
      /\ x.claim = batch[b].claim /\ x.offer = batch[b].offer /\ x.stop = batch[b].stop
      /\ x.dropped = batch[b].dropped /\ x.gen = batch[b].gen
  BY <1>2 DEF BatchRec
<1>4. Puts(b, x)
  OBVIOUS
<1> HIDE DEF x
<1>5. /\ DOMAIN batch' = DOMAIN batch /\ batch'[b] = x
      /\ \A c \in DOMAIN batch \ {b} : batch'[c] = batch[c]
  BY <1>2, <1>3, <1>4, Put
<1>6. job'[b] = "off" /\ \A c \in Batch \ {b} : job'[c] = job[c]
  BY <1>1
<1> QED
  BY <1>1, <1>2, <1>3, <1>5, <1>6 DEF Ended, Only, StaysWith

\* What is known of a run whose runBatch is at work.
LEMMA OfRunning ==
  ASSUME Sound, NEW b \in Batch, job[b] # "off"
  PROVE  /\ b \in Live /\ boot # "down" /\ b \in DOMAIN batch /\ batch[b] \in BatchRec
         /\ BatchOK(b) /\ JobOK(b) /\ BatchTypes /\ job \in [Batch -> Job]
         /\ job[b] # "post" => b \in Open
BY DEF Sound, JobOK, JobType, BatchTypes, Live, Open

\* Each way a run ends leaves it with nobody.
LEMMA Endings ==
  ASSUME Sound, NEW b \in Batch, DropFails(b) \/ AgentFails(b) \/ Back(b) \/ Delivers(b)
  PROVE  Ended(b)
<1>1. CASE DropFails(b) \/ AgentFails(b)
  <2>1. job[b] \in {"start", "left", "agent"} /\ (batch[b].dropped \/ job[b] = "agent") /\ Fails(b)
    BY <1>1 DEF DropFails, AgentFails
  <2>2. BatchOK(b) /\ JobOK(b)
    BY <2>1, OfRunning
  <2>3. Idle(b) /\ ~batch[b].result
    BY <2>1, <2>2 DEF BatchOK, JobOK, Idle
  <2>4. /\ Puts(b, [batch[b] EXCEPT !.st = "failed"]) /\ job' = [job EXCEPT ![b] = "off"]
        /\ UNCHANGED boot
    BY <2>1 DEF Fails
  <2> QED
    BY <2>1, <2>3, <2>4, Closes
<1>2. CASE Back(b)
  <2>1. /\ job[b] = "left" /\ ~batch[b].dropped /\ job' = [job EXCEPT ![b] = "off"]
        /\ Puts(b, [batch[b] EXCEPT !.st = "done"]) /\ UNCHANGED boot
    BY <1>2 DEF Back
  <2>2. BatchOK(b) /\ JobOK(b)
    BY <2>1, OfRunning
  <2>3. Idle(b) /\ ~batch[b].result
    BY <2>1, <2>2 DEF BatchOK, JobOK, Idle
  <2> QED
    BY <2>1, <2>3, Closes
<1>3. CASE Delivers(b)
  <2>1. /\ job[b] = "post" /\ job' = [job EXCEPT ![b] = "off"]
        /\ Puts(b, [batch[b] EXCEPT !.st = "done"]) /\ UNCHANGED boot
    BY <1>3 DEF Delivers
  <2>2. BatchOK(b) /\ JobOK(b)
    BY <2>1, OfRunning
  <2>3. batch[b].saved /\ ~batch[b].dropped
    BY <2>1, <2>2 DEF BatchOK, JobOK
  <2> QED
    BY <2>1, <2>3, Closes
<1> QED
  BY <1>1, <1>2, <1>3

\* Routing a run chooses its runner, where none of the runs it meets has one.
LEMMA RoutesIt ==
  ASSUME Sound, NEW b \in Batch, Routes(b)
  PROVE  Routed(b)
<1> DEFINE x == [batch[b] EXCEPT !.runner = "agent", !.handoff = "", !.share = NoSession]
<1>1. job[b] = "routes" /\ Puts(b, x) /\ job' = [job EXCEPT ![b] = "permit"] /\ UNCHANGED boot
  BY DEF Routes
<1>2. /\ b \in Open /\ b \in DOMAIN batch /\ batch[b] \in BatchRec /\ BatchTypes /\ job \in [Batch -> Job]
      /\ JobOK(b)
  BY <1>1, OfRunning
<1>3. /\ x \in BatchRec /\ x.st = batch[b].st /\ x.saved = batch[b].saved
      /\ x.frames = batch[b].frames /\ x.exclusive = batch[b].exclusive
      /\ x.result = batch[b].result /\ x.runner = "agent" /\ x.handoff = ""
      /\ x.claim = batch[b].claim /\ x.offer = batch[b].offer /\ x.dropped = batch[b].dropped
  BY <1>2 DEF BatchRec, Runner, Taker
<1> HIDE DEF x
<1>4. job'[b] = "permit" /\ \A c \in Batch \ {b} : job'[c] = job[c]
  BY <1>1, <1>2
<1>5. Idle(b)
  BY <1>1, <1>2 DEF JobOK
<1> QED
  BY <1>1, <1>2, <1>3, <1>4, <1>5, Put DEF Routed, Only, Stays

\* Saving a result changes nothing but that it is saved.
LEMMA SavesIt ==
  ASSUME Sound, NEW b \in Batch, Saves(b)
  PROVE  SavedNow(b)
<1> DEFINE x == [batch[b] EXCEPT !.saved = TRUE]
<1>1. job[b] \in {"agent", "ran"} /\ Puts(b, x) /\ job' = [job EXCEPT ![b] = "post"] /\ UNCHANGED boot
  BY DEF Saves
<1>2. b \in Open /\ b \in DOMAIN batch /\ batch[b] \in BatchRec /\ BatchTypes /\ job \in [Batch -> Job]
  BY <1>1, OfRunning
<1>3. /\ x \in BatchRec /\ x.st = batch[b].st /\ x.saved
      /\ x.frames = batch[b].frames /\ x.exclusive = batch[b].exclusive
      /\ x.result = batch[b].result /\ x.runner = batch[b].runner /\ x.handoff = batch[b].handoff
      /\ x.claim = batch[b].claim /\ x.offer = batch[b].offer /\ x.stop = batch[b].stop
      /\ x.dropped = batch[b].dropped /\ x.gen = batch[b].gen
  BY <1>2 DEF BatchRec
<1> HIDE DEF x
<1>4. job'[b] = "post" /\ \A c \in Batch \ {b} : job'[c] = job[c]
  BY <1>1, <1>2
<1> QED
  BY <1>1, <1>2, <1>3, <1>4, Put DEF SavedNow, Only, StaysWith

\* The steps between keep whoever is on the run.
LEMMA GoingOn ==
  ASSUME Sound, NEW b \in Batch, Start(b) \/ Leaves(b) \/ Spawns(b) \/ Launches(b)
  PROVE  GoesOn(b)
<1>1. job[b] \in {"start", "left", "permit", "deferred"}
  BY DEF Start, Begins, Leaves, Spawns, Launches
<1>2. /\ b \in Open /\ boot # "down" /\ BatchOK(b) /\ JobOK(b) /\ job \in [Batch -> Job]
  BY <1>1, OfRunning
<1>3. UNCHANGED <<batch, boot>> /\ \E to : job' = [job EXCEPT ![b] = to]
  BY DEF Start, Begins, Leaves, Spawns, Launches, Goes
<1>4. \A c \in Batch \ {b} : job'[c] = job[c]
  BY <1>2, <1>3
<1>5. CASE Start(b)
  <2>1. job[b] = "start" /\ ~batch[b].dropped /\ \A x \in Batch : job[x] # "routes"
    BY <1>5 DEF Start, Begins
  <2>2. \/ job'[b] = "left" /\ (batch[b].handoff # "" \/ batch[b].runner = "agent")
        \/ job'[b] = "left" /\ ~SessionHeld(b)
        \/ job'[b] = "ran" /\ batch[b].result
        \/ job'[b] = "asks" /\ batch[b].handoff = "" /\ batch[b].runner # "agent"
    BY <1>2, <1>5 DEF Start, Begins, Goes
  <2>3. job'[b] = "left" => Idle(b)
    BY <1>2, <2>2 DEF BatchOK, SessionHeld, Idle
  <2> QED
    BY <1>2, <1>3, <1>4, <2>1, <2>2, <2>3 DEF GoesOn
<1>6. CASE Leaves(b)
  BY <1>2, <1>3, <1>4, <1>6 DEF Leaves, Goes, GoesBack, GoesOn
<1>7. CASE Spawns(b)
  BY <1>2, <1>3, <1>4, <1>7 DEF Spawns, GoesOn
<1>8. CASE Launches(b)
  BY <1>2, <1>3, <1>4, <1>8 DEF Launches, Goes, GoesOn
<1> QED
  BY <1>5, <1>6, <1>7, <1>8

RunStep(b) ==
  \/ Freed(b) \/ (\E s \in Taker : Offered(b, s)) \/ Kept1(b) \/ (\E s \in Session : Taken(b, s))
  \/ Handed(b) \/ (\E f \in Frame : Grown(b, f)) \/ Marked(b) \/ Ended(b)
  \/ Routed(b) \/ SavedNow(b) \/ GoesOn(b)

OfRun(b) == Job1(b) \/ Spawns(b) \/ Tick(b) \/ ForSession(b) \/ Owns(b) \/ \E stop \in Stop : Act(b, stop)

\* Every step of a run is one of the named moves, of that run alone.
LEMMA StepsOfRuns ==
  ASSUME Sound, given \subseteq Handle, NEW b \in Batch, OfRun(b)
  PROVE  RunStep(b)
<1>1. CASE Job1(b) \/ Spawns(b)
  BY <1>1, GoingOn, Endings, AsksOffers, RoutesIt, SavesIt DEF Job1, RunStep
<1>2. CASE Tick(b)
  BY <1>2, FinishStopFrees, WithdrawsFrees, SpawnsWaitingFrees, OffersWaitingOffers
     DEF Tick, RunStep
<1>3. CASE ForSession(b)
  <2>1. CASE \E s \in Session : Takes(s, b) \/ TakesNot(s, b)
    BY <2>1, TakesIt, TakesNotFrees DEF RunStep
  <2>2. CASE \E h \in given : h[2] = b /\ (Release(h[1], b, h[3]) \/ Done(h[1], b, h[3]))
    <3>1. PICK h \in given : Release(h[1], b, h[3]) \/ Done(h[1], b, h[3])
      BY <2>2
    <3>2. h[1] \in Session
      BY DEF Handle
    <3> QED
      BY <3>1, <3>2, ReleaseFrees, DoneHands DEF RunStep
  <2> QED
    BY <1>3, <2>1, <2>2 DEF ForSession
<1>4. CASE Owns(b)
  <2>1. PICK h \in given, f \in Frame : Own(h[1], b, h[3], f)
    BY <1>4 DEF Owns
  <2>2. h[1] \in Session
    BY DEF Handle
  <2> QED
    BY <2>1, <2>2, OwnGrows DEF RunStep
<1>5. CASE \E stop \in Stop : Act(b, stop)
  BY <1>5, ActMarks DEF RunStep
<1> QED
  BY <1>1, <1>2, <1>3, <1>4, <1>5 DEF OfRun

-----------------------------------------------------------------------------
(* What a step of one run keeps *)

LEMMA BatchOKKept ==
  ASSUME Sound, NEW b \in Batch, RunStep(b), NEW c \in (DOMAIN batch)'
  PROVE  BatchOK(c)'
<1> USE DEF BatchOK, Idle
<1>1. Only(b) \/ (b \in DOMAIN batch /\ UNCHANGED batch)
  BY DEF RunStep, Freed, Offered, Kept1, Taken, Handed, Grown, Marked, Ended, Routed, SavedNow,
         GoesOn, Open
<1>2. c \in DOMAIN batch /\ BatchOK(c) /\ b \in DOMAIN batch
  BY <1>1 DEF Only, Sound
<1>3. CASE c # b \/ UNCHANGED batch
  <2>1. batch'[c] = batch[c]
    BY <1>1, <1>2, <1>3 DEF Only
  <2> QED
    BY <1>2, <2>1
<1>4. CASE c = b /\ Only(b)
  <2>0. BatchOK(b) /\ JobOK(b) /\ batch[b] \in BatchRec
    BY <1>2, <1>4 DEF Sound, BatchTypes
  <2>1. CASE Freed(b)
    BY <1>4, <2>0, <2>1 DEF Freed, Stays, Open
  <2>2. CASE \E s \in Taker : Offered(b, s)
    <3>1. ~batch[b].dropped
      BY <1>2, <2>0, <2>2 DEF JobOK, Offered
    <3> QED
      BY <1>4, <2>0, <2>2, <3>1 DEF Offered, Stays, Open
  <2>3. CASE Kept1(b)
    BY <1>4, <2>0, <2>3 DEF Kept1
  <2>4. CASE \E s \in Session : Taken(b, s)
    BY <1>4, <2>0, <2>4, NoSessionAssumption DEF Taken, Stays, Open
  <2>5. CASE Handed(b)
    BY <1>4, <2>0, <2>5 DEF Handed, StaysWith, Open
  <2>6. CASE \E f \in Frame : Grown(b, f)
    BY <1>4, <2>0, <2>6 DEF Grown, StaysWith
  <2>7. CASE Marked(b)
    BY <1>4, <2>0, <2>7 DEF Marked, Stays, StaysWith
  <2>8. CASE Ended(b)
    BY <1>4, <2>0, <2>8 DEF Ended, StaysWith
  <2>9. CASE Routed(b)
    BY <1>4, <2>0, <2>9 DEF Routed, Stays
  <2>10. CASE SavedNow(b)
    <3>1. ~batch[b].dropped
      BY <1>2, <2>0, <2>10 DEF JobOK, SavedNow
    <3> QED
      BY <1>4, <2>0, <2>10, <3>1 DEF SavedNow, StaysWith
  <2>11. CASE GoesOn(b)
    BY <1>4, <2>0, <2>11 DEF GoesOn
  <2> QED
    BY <2>1, <2>2, <2>3, <2>4, <2>5, <2>6, <2>7, <2>8, <2>9, <2>10, <2>11 DEF RunStep
<1> QED
  BY <1>1, <1>3, <1>4

\* A step of one run keeps where every runBatch stands.
LEMMA JobOKKept ==
  ASSUME Sound, NEW b \in Batch, RunStep(b), NEW c \in Batch
  PROVE  JobOK(c)'
<1> USE DEF JobOK, Idle, Live
<1>1. \/ Only(b)
      \/ b \in DOMAIN batch /\ UNCHANGED <<batch, boot>> /\ \A d \in Batch \ {b} : job'[d] = job[d]
  BY DEF RunStep, Freed, Offered, Kept1, Taken, Handed, Grown, Marked, Ended, Routed, SavedNow,
         GoesOn, Open
<1>2. JobOK(c) /\ (c \in DOMAIN batch => BatchOK(c)) /\ b \in DOMAIN batch
  BY <1>1 DEF Only, Sound
<1>3. CASE c # b
  <2>1. /\ DOMAIN batch' = DOMAIN batch /\ (c \in DOMAIN batch => batch'[c] = batch[c])
        /\ job'[c] = job[c] /\ UNCHANGED boot
    BY <1>1, <1>2, <1>3 DEF Only
  <2> QED
    BY <1>2, <2>1
<1>4. CASE c = b
  <2>0. /\ BatchOK(b) /\ JobOK(b) /\ batch[b] \in BatchRec
        /\ b \in DOMAIN batch /\ DOMAIN batch' = DOMAIN batch /\ UNCHANGED boot
    BY <1>1, <1>2, <1>4 DEF Sound, BatchTypes, Only
  <2>1. CASE Freed(b)
    BY <1>4, <2>0, <2>1 DEF Freed, Stays, Open, Waitable
  <2>2. CASE \E s \in Taker : Offered(b, s)
    BY <1>4, <2>0, <2>2 DEF Offered, Stays, Open
  <2>3. CASE Kept1(b)
    BY <1>4, <2>0, <2>3 DEF Kept1
  <2>4. CASE \E s \in Session : Taken(b, s)
    BY <1>4, <2>0, <2>4, NoSessionAssumption DEF Taken, Stays, Open, BatchOK
  <2>5. CASE Handed(b)
    BY <1>4, <2>0, <2>5 DEF Handed, StaysWith, Open, BatchOK
  <2>6. CASE \E f \in Frame : Grown(b, f)
    BY <1>4, <2>0, <2>6 DEF Grown, StaysWith
  <2>7. CASE Marked(b)
    BY <1>4, <2>0, <2>7 DEF Marked, Stays, StaysWith
  <2>8. CASE Ended(b)
    BY <1>4, <2>0, <2>8 DEF Ended, StaysWith
  <2>9. CASE Routed(b)
    BY <1>4, <2>0, <2>9 DEF Routed, Stays, Open
  <2>10. CASE SavedNow(b)
    BY <1>4, <2>0, <2>10 DEF SavedNow, StaysWith, Open
  <2>11. CASE GoesOn(b)
    BY <1>4, <2>0, <2>11 DEF GoesOn, Open
  <2> QED
    BY <2>1, <2>2, <2>3, <2>4, <2>5, <2>6, <2>7, <2>8, <2>9, <2>10, <2>11 DEF RunStep
<1> QED
  BY <1>3, <1>4

\* Two runs with a frame in common stay as they may be: it is enough to look at b.
LEMMA PairsOf ==
  ASSUME Sound, Pairs, NEW b \in Batch, Only(b),
         b \in Live' => b \in Live /\ batch'[b].exclusive = batch[b].exclusive,
         \A y \in Live \ {b} :
           b \in Live' /\ Meets(b, y)' => Beside(b, y)' /\ Beside(y, b)'
  PROVE  Pairs'
<1> SUFFICES ASSUME NEW x \in Live', NEW y \in Live', x # y
             PROVE  (Meets(x, y)' => Beside(x, y)') /\ ~batch'[x].exclusive
  BY DEF Pairs
<1>1. \A c \in DOMAIN batch \ {b} : batch'[c] = batch[c] /\ job'[c] = job[c]
  BY DEF Only, Sound, BatchTypes
<1>2. x \in DOMAIN batch /\ y \in DOMAIN batch /\ x \in Live /\ y \in Live
  BY <1>1 DEF Only, Live
<1>3. (Meets(x, y) => Beside(x, y)) /\ ~batch[x].exclusive
  BY <1>2 DEF Pairs
<1>4. ~batch'[x].exclusive
  BY <1>1, <1>2, <1>3
<1>5. CASE x # b /\ y # b
  <2>1. batch'[x] = batch[x] /\ job'[x] = job[x] /\ batch'[y] = batch[y] /\ job'[y] = job[y]
    BY <1>1, <1>2, <1>5
  <2> QED
    BY <1>3, <1>4, <2>1 DEF Meets, Beside, Idle
<1>6. Meets(x, y)' => Meets(y, x)'
  BY DEF Meets
<1> QED
  BY <1>2, <1>4, <1>5, <1>6

\* A run being answered that shares a frame with another is one its overlap check sees.
LEMMA Meeting ==
  ASSUME Sound, NEW b, boot # "down", NEW y \in Live \ {b}, Meets(b, y)
  PROVE  y \in Overlap(b)
BY DEF Sound, JobOK, BatchTypes, Live, Overlap, Running, Meets

\* A step of one run keeps it and every run it meets apart.
LEMMA PairsKept ==
  ASSUME Sound, Pairs, NEW b \in Batch, RunStep(b)
  PROVE  Pairs'
<1> USE DEF Beside, Idle
<1>0. \A x, y \in Live : x # y /\ Meets(x, y) => Beside(x, y) /\ Beside(y, x)
  BY DEF Pairs, Meets
<1>1. /\ b \in Live => BatchOK(b) /\ JobOK(b) /\ batch[b] \in BatchRec /\ b \in DOMAIN batch
      /\ Open \subseteq Live
      /\ \A y \in Live : BatchOK(y) /\ JobOK(y) /\ y \in Batch /\ y \in DOMAIN batch
  BY DEF Sound, BatchTypes, Live, Open
<1>2. CASE Freed(b)
  <2>1. b \in Live /\ Only(b) /\ batch'[b].exclusive = batch[b].exclusive
    BY <1>1, <1>2 DEF Freed, Stays
  <2>2. ASSUME NEW y \in Live \ {b}, Meets(b, y)'
        PROVE  Beside(b, y)' /\ Beside(y, b)'
    <3>1. batch'[y] = batch[y] /\ job'[y] = job[y] /\ Meets(b, y)
      BY <1>1, <1>2, <2>1, <2>2 DEF Only, Freed, Stays, Meets
    <3>2. Beside(b, y) /\ Beside(y, b)
      BY <1>0, <2>1, <3>1
    <3> QED
      BY <1>2, <3>1, <3>2 DEF Freed, Waitable
  <2> QED
    BY <2>1, <2>2, PairsOf
<1>3. CASE \E s \in Taker : Offered(b, s)
  <2>0. PICK s \in Taker : Offered(b, s)
    BY <1>3
  <2>1. b \in Live /\ Only(b) /\ batch'[b].exclusive = batch[b].exclusive
    BY <1>1, <2>0 DEF Offered, Stays
  <2>2. ASSUME NEW y \in Live \ {b}, Meets(b, y)'
        PROVE  Beside(b, y)' /\ Beside(y, b)'
    <3>1. batch'[y] = batch[y] /\ job'[y] = job[y] /\ Meets(b, y)
      BY <1>1, <2>0, <2>1, <2>2 DEF Only, Offered, Stays, Meets
    <3>2. Beside(b, y) /\ Beside(y, b)
      BY <1>0, <2>1, <3>1
    <3>3. s # NoSession => HeldBy(y, s)
      <4>1. boot # "down"
        BY <1>1, <2>0, <2>1 DEF Offered, JobOK
      <4> QED
        BY <2>0, <3>1, <4>1, Meeting DEF Offered, MayHold
    <3> QED
      BY <2>0, <3>1, <3>2, <3>3 DEF Offered, HeldBy
  <2> QED
    BY <2>1, <2>2, PairsOf
<1>4. CASE Kept1(b)
  <2>1. b \in Live /\ Only(b) /\ batch'[b] = batch[b]
    BY <1>1, <1>4 DEF Kept1
  <2>2. ASSUME NEW y \in Live \ {b}, Meets(b, y)'
        PROVE  Beside(b, y)' /\ Beside(y, b)'
    <3>1. batch'[y] = batch[y] /\ job'[y] = job[y] /\ Meets(b, y)
      BY <1>1, <2>1, <2>2 DEF Only, Meets
    <3>2. Beside(b, y) /\ Beside(y, b)
      BY <1>0, <2>1, <3>1
    <3> QED
      BY <1>4, <3>1, <3>2 DEF Kept1
  <2> QED
    BY <2>1, <2>2, PairsOf
<1>5. CASE \E s \in Session : Taken(b, s)
  <2>0. PICK s \in Session : Taken(b, s)
    BY <1>5
  <2>1. b \in Live /\ Only(b) /\ batch'[b].exclusive = batch[b].exclusive /\ s # NoSession
    BY <1>1, <2>0, NoSessionAssumption DEF Taken, Stays
  <2>2. ASSUME NEW y \in Live \ {b}, Meets(b, y)'
        PROVE  Beside(b, y)' /\ Beside(y, b)'
    <3>1. batch'[y] = batch[y] /\ job'[y] = job[y] /\ Meets(b, y)
      BY <1>1, <2>0, <2>1, <2>2 DEF Only, Taken, Stays, Meets
    <3>2. Beside(b, y) /\ Beside(y, b) /\ BatchOK(y) /\ JobOK(b)
      BY <1>0, <1>1, <2>1, <3>1
    <3>3. HeldBy(y, s)
      BY <2>0, <3>1, Meeting DEF Taken, MayHold
    <3>4. batch[y].saved \/ (batch[y].runner # "agent" /\ batch[y].claim \in {NoSession, s})
      BY <2>1, <3>2, <3>3 DEF HeldBy, BatchOK
    <3>5. job[b] # "routes" /\ job[y] # "routes"
      BY <2>0, <2>1, <3>2 DEF JobOK, Taken
    <3> QED
      BY <2>0, <3>1, <3>4, <3>5 DEF Taken
  <2> QED
    BY <2>1, <2>2, PairsOf
<1>6. CASE Handed(b) \/ Marked(b) \/ \E f \in Frame : Grown(b, f)
  <2>1. /\ b \in Live /\ Only(b) /\ batch'[b].exclusive = batch[b].exclusive /\ StaysWith(b)
        /\ batch'[b].saved = batch[b].saved
    BY <1>1, <1>6 DEF Handed, Marked, Grown, Stays
  <2>2. ASSUME NEW y \in Live \ {b}, Meets(b, y)'
        PROVE  Beside(b, y)' /\ Beside(y, b)'
    <3>1. batch'[y] = batch[y] /\ job'[y] = job[y] /\ y \in Batch /\ JobOK(y)
      BY <1>1, <2>1 DEF Only
    <3>2. Meets(b, y)
      <4>1. CASE Handed(b) \/ Marked(b)
        BY <2>2, <3>1, <4>1 DEF Handed, Marked, Stays, Meets
      <4>2. CASE \E f \in Frame : Grown(b, f)
        <5>1. PICK f \in Frame : Grown(b, f)
          BY <4>2
        <5>2. y \in Running \ {b}
          BY <3>1, <5>1 DEF JobOK, Running, Grown
        <5> QED
          BY <2>2, <3>1, <5>1, <5>2 DEF Grown, Meets
      <4> QED
        BY <1>6, <4>1, <4>2
    <3>3. Beside(b, y) /\ Beside(y, b) /\ JobOK(b)
      BY <1>0, <1>1, <2>1, <3>2
    <3>4. \/ job'[b] = job[b]
          \/ job'[b] = "ran" /\ batch[b].claim # NoSession
      BY <1>6 DEF Handed, Marked, Grown
    <3> QED
      BY <2>1, <3>1, <3>3, <3>4 DEF StaysWith
  <2> QED
    BY <2>1, <2>2, PairsOf
<1>7. CASE Ended(b)
  BY <1>7, PairsOf DEF Ended, Live
<1>8. CASE Routed(b)
  <2>1. b \in Live /\ Only(b) /\ batch'[b].exclusive = batch[b].exclusive
    BY <1>1, <1>8 DEF Routed, Stays
  <2>2. ASSUME NEW y \in Live \ {b}, Meets(b, y)'
        PROVE  Beside(b, y)' /\ Beside(y, b)'
    <3>1. batch'[y] = batch[y] /\ job'[y] = job[y] /\ Meets(b, y)
      BY <1>1, <1>8, <2>1, <2>2 DEF Only, Routed, Stays, Meets
    <3>2. Beside(b, y) /\ Beside(y, b)
      BY <1>0, <2>1, <3>1
    <3> QED
      BY <1>8, <3>1, <3>2 DEF Routed
  <2> QED
    BY <2>1, <2>2, PairsOf
<1>9. CASE SavedNow(b)
  <2>1. b \in Live /\ Only(b) /\ batch'[b].exclusive = batch[b].exclusive
    BY <1>1, <1>9 DEF SavedNow
  <2>2. ASSUME NEW y \in Live \ {b}, Meets(b, y)'
        PROVE  Beside(b, y)' /\ Beside(y, b)'
    <3>1. batch'[y] = batch[y] /\ job'[y] = job[y] /\ Meets(b, y)
      BY <1>1, <1>9, <2>1, <2>2 DEF Only, SavedNow, Meets
    <3>2. Beside(b, y) /\ Beside(y, b)
      BY <1>0, <2>1, <3>1
    <3> QED
      BY <1>9, <3>1, <3>2 DEF SavedNow
  <2> QED
    BY <2>1, <2>2, PairsOf
<1>10. CASE GoesOn(b)
  <2>1. /\ b \in Live /\ Only(b) /\ batch' = batch /\ boot # "down"
    BY <1>1, <1>10 DEF GoesOn, Only
  <2>2. ASSUME NEW y \in Live \ {b}, Meets(b, y)'
        PROVE  Beside(b, y)' /\ Beside(y, b)'
    <3>1. job'[y] = job[y] /\ Meets(b, y) /\ y \in Batch
      BY <1>1, <2>1, <2>2 DEF Only, Meets
    <3>2. Beside(b, y) /\ Beside(y, b) /\ y \in Overlap(b)
      BY <1>0, <2>1, <3>1, Meeting
    <3> QED
      BY <1>10, <2>1, <3>1, <3>2 DEF GoesOn
  <2> QED
    BY <2>1, <2>2, PairsOf
<1> QED
  BY <1>2, <1>3, <1>4, <1>5, <1>6, <1>7, <1>8, <1>9, <1>10 DEF RunStep

\* A step of one run takes away the hold of nobody on another.
LEMMA OnlyOne ==
  ASSUME Sound, NEW b \in Batch, RunStep(b)
  PROVE  Only(b)
BY DEF RunStep, Freed, Offered, Kept1, Taken, Handed, Grown, Marked, Ended, Routed, SavedNow,
       GoesOn,
       Only, Open, Sound, BatchTypes

-----------------------------------------------------------------------------
(* Who works *)

HandlesOK ==
  /\ given \subseteq Handle /\ working \subseteq given
  /\ usable \subseteq Session \ gone

\* Who works on b holds it, is alive and has not handed it back; there is one handle.
LEMMA Workers ==
  ASSUME HandlesOK, NEW h \in working, Works(h)
  PROVE  /\ h[1] \in Session /\ h[1] # NoSession /\ h = <<h[1], h[2], h[3]>>
         /\ batch[h[2]].claim \notin gone \cup {NoSession} /\ ~batch[h[2]].result
         /\ h[2] \in Open
<1>1. h \in Session \X Batch \X Nat
  BY DEF HandlesOK, Handle
<1> QED
  BY <1>1, NoSessionAssumption DEF Works

\* A session at work on another run keeps working on it.
LEMMA WorksOf ==
  ASSUME Sound, HandlesOK, \A h \in working : Works(h), NEW b \in Batch, Only(b), UNCHANGED gone,
         NEW h \in working, h[2] # b
  PROVE  Works(h)'
<1>1. h[2] \in Open /\ h[2] \in DOMAIN batch /\ h[2] \in Batch
  BY DEF Works, Sound, BatchTypes, Open
<1>2. batch'[h[2]] = batch[h[2]] /\ DOMAIN batch' = DOMAIN batch
  BY <1>1 DEF Only
<1> QED
  BY <1>1, <1>2 DEF Works, Open

\* After a step of a run, whoever is at work still holds what it works on.
LEMMA WorksKept ==
  ASSUME Sound, HandlesOK, \A h \in working : Works(h), NEW b \in Batch, OfRun(b)
  PROVE  \A h \in working' : Works(h)'
<1> SUFFICES ASSUME NEW h \in working' PROVE Works(h)'
  OBVIOUS
<1>1. UNCHANGED gone
  BY DEF OfRun, Job1, Launches, DropFails, Start, Begins, Goes, Asks, Back, Leaves, Routes,
         AgentFails,
         Fails, Saves, Delivers, Spawns, Tick, FinishStop, Withdraws, SpawnsWaiting, OffersWaiting,
         ForSession, Takes, TakesNot, Release, LetsGo, Done, Owns, Own, Act, people
<1>2. RunStep(b) /\ Only(b)
  BY StepsOfRuns, OnlyOne DEF HandlesOK
<1>3. CASE h \in working /\ h[2] # b
  BY <1>1, <1>2, <1>3, WorksOf
<1>4. CASE \E s \in Session : Takes(s, b)
  <2>1. PICK s \in Session : Takes(s, b)
    BY <1>4
  <2>2. Taken(b, s) /\ BatchOK(b)
    BY <2>1, TakesIt, OfOpen DEF Taken
  <2>3. batch[b].claim = NoSession /\ ~batch[b].result
    BY <2>2, NoSessionAssumption DEF Taken, BatchOK
  <2>4. \A k \in working : k[2] # b
    BY <2>3, Workers
  <2>5. s \notin gone /\ working' = working \cup {<<s, b, NextGen(b)>>}
    BY <2>1 DEF Takes, Next1, HandlesOK
  <2>6. CASE h = <<s, b, NextGen(b)>>
    <3>1. h[1] = s /\ h[2] = b /\ h[3] = batch[b].gen + 1
      BY <2>6 DEF NextGen
    <3>2. b \in Open' /\ batch'[b].claim = s /\ batch'[b].gen = batch[b].gen + 1 /\ ~batch'[b].result
      BY <2>2, <2>3 DEF Taken, Stays, Only, Open
    <3> QED
      BY <1>1, <2>5, <3>1, <3>2 DEF Works
  <2> QED
    BY <1>3, <2>4, <2>5, <2>6
<1>5. CASE \E k \in given : k[2] = b /\ (Release(k[1], b, k[3]) \/ Done(k[1], b, k[3]))
  <2>1. PICK k \in given : Release(k[1], b, k[3]) \/ Done(k[1], b, k[3])
    BY <1>5
  <2>2. /\ working' = working \ {<<k[1], b, k[3]>>}
        /\ batch[b].claim = k[1] /\ batch[b].gen = k[3]
    BY <2>1 DEF Release, LetsGo, Done, Names
  <2>3. h \in working /\ h # <<k[1], b, k[3]>> /\ Works(h) /\ h = <<h[1], h[2], h[3]>>
    BY <2>2, Workers
  <2>4. h[2] # b
    BY <2>2, <2>3 DEF Works
  <2> QED
    BY <1>3, <2>3, <2>4
<1>6. ASSUME UNCHANGED working, batch[b].claim \in gone \cup {NoSession} \/ batch[b].result \/ b \notin Open
      PROVE  Works(h)'
  <2>1. h[2] # b
    BY <1>6, Workers
  <2> QED
    BY <1>3, <1>6, <2>1
<1>7. CASE (\E s \in Session : TakesNot(s, b)) \/ Tick(b)
  <2>1. b \in Open => BatchOK(b)
    BY OfOpen
  <2>2. UNCHANGED working /\ batch[b].claim \in gone \cup {NoSession}
    BY <1>7, <2>1, NoSessionAssumption
       DEF TakesNot, Next1, Tick, FinishStop, Withdraws, SpawnsWaiting, OffersWaiting, Waiting, BatchOK
  <2> QED
    BY <1>6, <2>2
<1>8. ASSUME UNCHANGED working, b \in Open, StaysWith(b), batch'[b].st = batch[b].st,
             batch'[b].saved = batch[b].saved, batch'[b].result = batch[b].result
      PROVE  Works(h)'
  <2>1. CASE h[2] = b
    <3>1. h \in working /\ Works(h)
      BY <1>8
    <3> QED
      BY <1>1, <1>2, <1>8, <2>1, <3>1 DEF Works, StaysWith, Open, Only
  <2> QED
    BY <1>3, <1>8, <2>1
<1>9. CASE Owns(b) \/ \E stop \in Stop : Act(b, stop)
  <2>1. UNCHANGED working
    BY <1>9 DEF Owns, Own, Act
  <2>2. (\E f \in Frame : Grown(b, f)) \/ Marked(b)
    <3>1. CASE Owns(b)
      <4>1. PICK k \in given, f \in Frame : Own(k[1], b, k[3], f)
        BY <3>1 DEF Owns
      <4>2. k[1] \in Session
        BY DEF HandlesOK, Handle
      <4> QED
        BY <4>1, <4>2, OwnGrows
    <3> QED
      BY <1>9, <3>1, ActMarks
  <2> QED
    BY <1>8, <2>1, <2>2 DEF Grown, Marked, Stays
<1>10. CASE Job1(b) \/ Spawns(b)
  <2>1. UNCHANGED working
    BY <1>10
       DEF Job1, Launches, DropFails, Start, Begins, Goes, Asks, Back, Leaves, Routes, AgentFails,
                 Fails, Saves, Delivers, Spawns
  <2>2. Kept1(b) \/ Freed(b) \/ (\E s \in Taker : Offered(b, s))
        \/ Ended(b) \/ Routed(b) \/ SavedNow(b) \/ GoesOn(b)
    BY <1>10, GoingOn, Endings, AsksOffers, RoutesIt, SavesIt DEF Job1
  <2>3. CASE Kept1(b) \/ GoesOn(b)
    BY <1>8, <2>1, <2>3 DEF Kept1, GoesOn, StaysWith
  <2>4. CASE (\E s \in Taker : Offered(b, s)) \/ Routed(b)
    BY <1>6, <2>1, <2>4 DEF Offered, Routed, Idle
  <2>5. CASE Ended(b)
    BY <1>6, <2>1, <2>5 DEF Ended, Idle, Open
  <2>6. CASE SavedNow(b)
    <3>1. JobOK(b)
      BY DEF Sound
    <3> QED
      BY <1>6, <2>1, <2>6, <3>1 DEF SavedNow, JobOK, Idle
  <2>7. CASE Asks(b) /\ Freed(b)
    <3>1. Idle(b) \/ batch'[b] = batch[b]
      <4>1. b \in Open /\ b \in DOMAIN batch
        BY <2>7 DEF Freed, Open
      <4>2. Idle(b) \/ Puts(b, batch[b])
        BY Zenon, <2>7 DEF Asks, Idle
      <4> QED
        BY <4>1, <4>2 DEF Puts
    <3>2. CASE Idle(b)
      BY <1>6, <2>1, <3>2 DEF Idle
    <3>3. CASE batch'[b] = batch[b]
      BY <1>8, <2>1, <2>7, <3>3 DEF Freed, StaysWith
    <3> QED
      BY <3>1, <3>2, <3>3
  <2>8. Freed(b) => Asks(b) \/ Ended(b) \/ Routed(b) \/ SavedNow(b) \/ GoesOn(b)
    BY <1>10, GoingOn, Endings, RoutesIt, SavesIt DEF Job1
  <2> QED
    BY <2>2, <2>3, <2>4, <2>5, <2>6, <2>7, <2>8
<1> QED
  BY <1>4, <1>5, <1>7, <1>9, <1>10 DEF OfRun, ForSession

-----------------------------------------------------------------------------
(* Types *)

PeopleOK ==
  /\ gone \subseteq Session /\ usable \subseteq Session \ gone
  /\ sel \in usable \cup {NoSession} /\ (sel = NoSession <=> usable = {})
  /\ jam \in BOOLEAN /\ settings \in [runner : {"auto", "session"}, context : {"fork", "fresh"}]
  /\ moves \in Nat

\* TypeOK in the parts that steps change together.
LEMMA Types ==
  TypeOK <=> /\ req \in [Request -> ReqRec] /\ BatchTypes /\ JobType /\ PeopleOK
             /\ given \subseteq Handle /\ working \subseteq given
             /\ boot \in {"down", "barrier", "up"} /\ crashes \in Nat
BY DEF TypeOK, BatchTypes, JobType, PeopleOK, Taker

\* A step of a run keeps the types.
LEMMA TypesOfRuns ==
  ASSUME TypeOK, Sound, NEW b \in Batch, OfRun(b)
  PROVE  TypeOK'
<1>1. RunStep(b) /\ Only(b)
  BY StepsOfRuns, OnlyOne, Types
<1>2. BatchTypes'
  <2>1. \A c \in DOMAIN batch' : c # b => batch'[c] = batch[c]
    BY <1>1 DEF Only
  <2> QED
    BY <1>1, <2>1 DEF Only, BatchTypes, Sound
<1>3. UNCHANGED <<people, boot, crashes>>
  BY DEF OfRun, Job1, Launches, DropFails, Start, Begins, Goes, Asks, Back, Leaves, Routes,
         AgentFails,
         Fails, Saves, Delivers, Spawns, Tick, FinishStop, Withdraws, SpawnsWaiting, OffersWaiting,
         ForSession, Takes, TakesNot, Release, LetsGo, Done, Owns, Own, Act
<1>4. job \in [Batch -> Job] /\ pick \in [Batch -> Taker] /\ sel \in Taker
  BY Types DEF JobType
<1>5. job' \in [Batch -> Job]
  <2> USE DEF Job
  <2>1. CASE Tick(b)
    BY <1>4, <2>1 DEF Tick, FinishStop, Withdraws, SpawnsWaiting, OffersWaiting, Becomes, Told
  <2>2. CASE ForSession(b)
    <3>1. CASE \E s \in Session : Takes(s, b) \/ TakesNot(s, b)
      BY <1>4, <3>1 DEF Takes, TakesNot, Becomes, Told
    <3>2. CASE \E h \in given : h[2] = b /\ (Release(h[1], b, h[3]) \/ Done(h[1], b, h[3]))
      <4>1. PICK h \in given : Release(h[1], b, h[3]) \/ Done(h[1], b, h[3])
        BY <3>2
      <4>2. CASE Release(h[1], b, h[3])
        BY <1>4, <4>2 DEF Release, LetsGo, Becomes, Told
      <4>3. CASE Done(h[1], b, h[3])
        BY <1>4, <4>3 DEF Done
      <4> QED
        BY <4>1, <4>2, <4>3
    <3> QED
      BY <2>2, <3>1, <3>2 DEF ForSession
  <2>3. CASE Owns(b) \/ \E stop \in Stop : Act(b, stop)
    BY <1>4, <2>3 DEF Owns, Own, Act
  <2>4. CASE Job1(b) \/ Spawns(b)
    BY <1>4, <2>4
       DEF Job1, Launches, DropFails, Start, Begins, Goes, Asks, Back, Leaves, Routes, AgentFails,
                      Fails, Saves, Delivers, Spawns
  <2> QED
    BY <2>1, <2>2, <2>3, <2>4 DEF OfRun
<1>6. pick' \in [Batch -> Taker]
  <2>1. Chosen(b).conn \in Taker
    BY <1>4 DEF Chosen, Selected, Taker
  <2>2. UNCHANGED pick \/ \E s \in Taker : pick' = [pick EXCEPT ![b] = s]
    <3>1. CASE Start(b)
      BY <2>1, <3>1 DEF Start, Begins, Goes, Taker
    <3>2. CASE Leaves(b) \/ Launches(b)
      BY <3>2 DEF Leaves, Launches, Goes, Taker
    <3>3. CASE ~Start(b) /\ ~Leaves(b) /\ ~Launches(b)
      BY <3>3 DEF OfRun, Job1, DropFails, Asks, Back, Routes, AgentFails,
         Fails, Saves, Delivers, Spawns, Tick, FinishStop, Withdraws, SpawnsWaiting, OffersWaiting,
         ForSession, Takes, TakesNot, Release, LetsGo, Done, Owns, Own, Act
    <3> QED
      BY <3>1, <3>2, <3>3
  <2> QED
    BY <1>4, <2>2
<1>7. JobType'
  BY <1>3, <1>4, <1>5, <1>6 DEF JobType, people
<1>8. given' \subseteq Handle /\ working' \subseteq given'
  <2>1. given \subseteq Handle /\ working \subseteq given
    BY Types
  <2>2. CASE \E s \in Session : Takes(s, b)
    <3>1. PICK s \in Session : Takes(s, b)
      BY <2>2
    <3>2. /\ given' = given \cup {<<s, b, NextGen(b)>>} /\ working' = working \cup {<<s, b, NextGen(b)>>}
          /\ b \in Open
      BY <3>1 DEF Takes, Next1
    <3>3. batch[b] \in BatchRec
      BY <3>2, OfOpen
    <3>4. NextGen(b) \in Nat
      <4>1. batch[b].gen \in Nat
        BY <3>3 DEF BatchRec
      <4> QED
        BY <4>1 DEF NextGen
    <3> QED
      BY <2>1, <3>2, <3>4 DEF Handle
  <2>3. CASE ~\E s \in Session : Takes(s, b)
    <3>1. given' = given /\ working' \subseteq working
      BY <2>3 DEF OfRun, Job1, Launches, DropFails, Start, Begins, Goes, Asks, Back, Leaves, Routes,
         AgentFails, Fails, Saves, Delivers, Spawns, Tick, FinishStop, Withdraws, SpawnsWaiting,
         OffersWaiting, ForSession, TakesNot, Release, LetsGo, Done, Owns, Own, Act
    <3> QED
      BY <2>1, <3>1
  <2> QED
    BY <2>2, <2>3
<1>9. req' \in [Request -> ReqRec]
  <2>1. req \in [Request -> ReqRec]
    BY Types
  <2>2. CASE UNCHANGED req
    BY <2>1, <2>2
  <2>3. CASE DropFails(b) \/ AgentFails(b) \/ Delivers(b) \/ Back(b)
    <3>1. batch[b] \in BatchRec
      BY <2>3, OfRunning DEF DropFails, AgentFails, Delivers, Back
    <3>2. batch[b].req \in Request /\ batch[b].frames \subseteq Frame
      BY <3>1 DEF BatchRec
    <3> DEFINE r == batch[b].req
    <3>3. req[r] \in ReqRec
      BY <2>1, <3>2
    <3>4. CASE Moved(r, "over")
      <4>1. [req[r] EXCEPT !.st = "over"] \in ReqRec
        BY <3>3 DEF ReqRec
      <4> QED
        BY <2>1, <3>2, <3>4, <4>1 DEF Moved
    <3>5. CASE Back(b)
      <4> DEFINE x == [st |-> "queued", frames |-> req[r].frames \cup batch[b].frames,
                       alone |-> IF batch[b].handoff = "spawn" \/ batch[b].runner = "agent"
                                   THEN "spawn" ELSE "back"]
      <4>1. x \in ReqRec
        BY <3>2, <3>3 DEF ReqRec
      <4>2. req' = [req EXCEPT ![r] = x]
        BY <3>5 DEF Back
      <4> HIDE DEF x
      <4> QED
        BY <2>1, <3>2, <4>1, <4>2
    <3> QED
      BY <2>3, <3>4, <3>5 DEF DropFails, AgentFails, Fails, Delivers
  <2>4. UNCHANGED req \/ DropFails(b) \/ AgentFails(b) \/ Delivers(b) \/ Back(b)
    BY DEF OfRun, Job1, Launches, Start, Begins, Goes, Asks, Leaves, Routes,
       Saves, Spawns, Tick, FinishStop, Withdraws, SpawnsWaiting,
       OffersWaiting, ForSession, Takes, TakesNot, Release, LetsGo, Done, Owns, Own, Act
  <2> QED
    BY <2>2, <2>3, <2>4
<1>10. PeopleOK'
  BY <1>3, Types DEF PeopleOK, people
<1>11. boot' \in {"down", "barrier", "up"} /\ crashes' \in Nat
  BY <1>3, Types
<1> QED
  BY <1>2, <1>7, <1>8, <1>9, <1>10, <1>11 DEF TypeOK, BatchTypes, JobType, PeopleOK, Taker

-----------------------------------------------------------------------------
(* New runs, and stops and starts *)

\* N are new: nobody has them, and one that runs alone is alone.
Formed(N) ==
  /\ N \subseteq Batch \ DOMAIN batch /\ boot = "up"
  /\ UNCHANGED <<people, given, working, boot, crashes>>
  /\ DOMAIN batch' = DOMAIN batch \cup N
  /\ \A c \in DOMAIN batch : batch'[c] = batch[c]
  /\ \A c \in Batch \ N : job'[c] = job[c]
  /\ \A b \in N : /\ batch'[b] \in BatchRec /\ batch'[b].st = "claimed" /\ ~batch'[b].saved
                  /\ Idle(b)' /\ batch'[b].runner = "" /\ ~batch'[b].result /\ ~batch'[b].dropped
                  /\ job'[b] = "start"
  /\ \/ Running = {} /\ \A b, c \in N : b = c
     \/ /\ \A b \in Running : ~batch[b].exclusive
        /\ \A b \in N : ~batch'[b].exclusive

\* A run newly formed has nobody on it and no result.
LEMMA NewOnes ==
  ASSUME TypeOK, NEW r \in Request, NEW alone \in BOOLEAN
  PROVE  /\ NewBatch(r, alone) \in BatchRec /\ NewBatch(r, alone).st = "claimed"
         /\ ~NewBatch(r, alone).saved /\ NewBatch(r, alone).claim = NoSession
         /\ NewBatch(r, alone).offer = NoSession /\ NewBatch(r, alone).runner = ""
         /\ ~NewBatch(r, alone).result /\ ~NewBatch(r, alone).dropped
         /\ NewBatch(r, alone).exclusive = alone
<1>1. req[r] \in ReqRec /\ Selected \in Taker /\ NoSession \in Taker
  BY DEF TypeOK, Selected, Taker
<1>2. req[r].frames \subseteq Frame
  BY <1>1 DEF ReqRec
<1> DEFINE share == IF ~alone /\ Joins(r) THEN Selected ELSE NoSession
           handoff == IF req[r].alone = "spawn" THEN "spawn" ELSE ""
<1>3. share \in Taker /\ handoff \in {"", "spawn", "queue"}
  BY <1>1
<1> DEFINE x == NewBatch(r, alone)
<1>4. x =
        [st |-> "claimed", req |-> r, frames |-> req[r].frames, exclusive |-> alone,
         share |-> share, runner |-> "", offer |-> NoSession, handoff |-> handoff,
         claim |-> NoSession, gen |-> 0, stop |-> "", result |-> FALSE,
         dropped |-> FALSE, saved |-> FALSE]
  BY DEF NewBatch
<1> HIDE DEF share, handoff, x
<1>5. x \in BatchRec
  BY <1>1, <1>2, <1>3, <1>4 DEF BatchRec, Runner, Stop
<1>6. /\ x.st = "claimed" /\ ~x.saved /\ x.claim = NoSession /\ x.offer = NoSession
      /\ x.runner = "" /\ ~x.result /\ ~x.dropped /\ x.exclusive = alone
  BY <1>4
<1> QED
  BY <1>5, <1>6 DEF x

\* Forming a batch adds new runs, none of which meets an exclusive one.
LEMMA FormsThem ==
  ASSUME TypeOK, boot = "up", NEW S \in SUBSET Request, NEW alone \in BOOLEAN, Forms(S, alone),
         \/ Running = {} /\ \A r, q \in S : r = q
         \/ ~alone /\ \A b \in Running : ~batch[b].exclusive
  PROVE  (\E N : Formed(N)) /\ TypeOK'
<1>1. PICK new \in [S -> Fresh] :
        LET reqOf(b) == CHOOSE r \in S : new[r] = b
            news == {new[r] : r \in S}
        IN /\ \A r, q \in S : new[r] = new[q] => r = q
           /\ req' = [r \in Request |->
                       IF r \in S THEN [req[r] EXCEPT !.st = "working", !.alone = "no"]
                                  ELSE req[r]]
           /\ batch' = [b \in DOMAIN batch \cup news |->
                         IF b \in news THEN NewBatch(reqOf(b), alone) ELSE batch[b]]
           /\ job' = [b \in Batch |-> IF b \in news THEN "start" ELSE job[b]]
           /\ UNCHANGED <<pick, people, given, working, boot, crashes>>
  BY DEF Forms
<1> DEFINE reqOf(b) == CHOOSE r \in S : new[r] = b
           news == {new[r] : r \in S}
<1>2. news \subseteq Batch \ DOMAIN batch
  BY DEF Fresh
<1>3. \A b \in news : reqOf(b) \in S /\ reqOf(b) \in Request
  OBVIOUS
<1>4. /\ req' = [r \in Request |->
                  IF r \in S THEN [req[r] EXCEPT !.st = "working", !.alone = "no"] ELSE req[r]]
      /\ batch' = [b \in DOMAIN batch \cup news |->
                    IF b \in news THEN NewBatch(reqOf(b), alone) ELSE batch[b]]
      /\ job' = [b \in Batch |-> IF b \in news THEN "start" ELSE job[b]]
      /\ UNCHANGED <<pick, people, given, working, boot, crashes>>
  BY <1>1
<1>5. \A b, c \in news : (\A r, q \in S : r = q) => b = c
  OBVIOUS
<1> HIDE DEF reqOf, news
<1>6. DOMAIN batch' = DOMAIN batch \cup news /\ \A c \in DOMAIN batch : batch'[c] = batch[c]
  BY <1>2, <1>4
<1>7. \A b \in news : /\ batch'[b] \in BatchRec /\ batch'[b].st = "claimed" /\ ~batch'[b].saved
                      /\ Idle(b)' /\ batch'[b].runner = "" /\ ~batch'[b].result
                      /\ ~batch'[b].dropped /\ batch'[b].exclusive = alone
  BY <1>3, <1>4, NewOnes DEF Idle
<1>8. /\ \A b \in news : job'[b] = "start"
      /\ \A c \in Batch \ news : job'[c] = job[c]
      /\ job' \in [Batch -> Job]
  BY <1>2, <1>4 DEF TypeOK, Job
<1>9. Formed(news)
  <2>1. UNCHANGED <<people, given, working, boot, crashes>>
    BY <1>4
  <2>2. \/ Running = {} /\ \A b, c \in news : b = c
        \/ /\ \A b \in Running : ~batch[b].exclusive
           /\ \A b \in news : ~batch'[b].exclusive
    BY <1>5, <1>7
  <2> QED
    BY <1>2, <1>6, <1>7, <1>8, <2>1, <2>2 DEF Formed
<1>10. BatchTypes'
  <2>1. \A c \in DOMAIN batch' : batch'[c] \in BatchRec
    BY <1>6, <1>7 DEF TypeOK
  <2> QED
    BY <1>2, <1>6, <2>1 DEF BatchTypes, TypeOK
<1>11. req' \in [Request -> ReqRec]
  <2>1. \A r \in Request : req[r] \in ReqRec
    BY DEF TypeOK
  <2>2. \A r \in Request : [req[r] EXCEPT !.st = "working", !.alone = "no"] \in ReqRec
    BY <2>1 DEF ReqRec
  <2> QED
    BY <1>4, <2>1, <2>2
<1>12. TypeOK'
  BY <1>4, <1>8, <1>10, <1>11 DEF TypeOK, BatchTypes, people
<1> QED
  BY <1>9, <1>12

\* The pump forms batches, alone or on their frames, and nothing else.
LEMMA PumpForms ==
  ASSUME TypeOK, Pump
  PROVE  (\E N : Formed(N)) /\ TypeOK'
<1>1. CASE AloneQueued # {}
  <2>1. boot = "up" /\ Running = {} /\ \E r \in AloneQueued : Forms({r}, TRUE)
    BY <1>1 DEF Pump
  <2>2. PICK r \in AloneQueued : Forms({r}, TRUE)
    BY <2>1
  <2>3. {r} \in SUBSET Request /\ \A p, q \in {r} : p = q
    BY DEF AloneQueued, Queued
  <2> QED
    BY <2>1, <2>2, <2>3, FormsThem
<1>2. CASE AloneQueued = {}
  <2>1. boot = "up" /\ (\A b \in Running : ~batch[b].exclusive)
        /\ \E S \in SUBSET Queued \ {{}} : Forms(S, FALSE)
    BY <1>2 DEF Pump
  <2>2. PICK S \in SUBSET Queued : Forms(S, FALSE)
    BY <2>1
  <2>3. S \in SUBSET Request
    BY DEF Queued
  <2> QED
    BY <2>1, <2>2, <2>3, FormsThem
<1> QED
  BY <1>1, <1>2

\* Runs newly formed keep the invariant.
LEMMA FormedKeeps ==
  ASSUME IInv, NEW N, Formed(N)
  PROVE  /\ \A c \in (DOMAIN batch)' : BatchOK(c)'
         /\ \A c \in Batch : JobOK(c)'
         /\ Pairs' /\ \A h \in working' : Works(h)'
<1> USE DEF Formed
<1>0. /\ \A b \in DOMAIN batch : BatchOK(b) /\ b \in Batch
      /\ \A b \in Batch : JobOK(b)
      /\ Pairs /\ \A h \in working : Works(h)
  BY DEF IInv, TypeOK
<1>1. \A b \in N : b \notin DOMAIN batch /\ b \in Batch
  OBVIOUS
<1>2. \A c \in (DOMAIN batch)' : BatchOK(c)'
  <2> SUFFICES ASSUME NEW c \in (DOMAIN batch)' PROVE BatchOK(c)'
    OBVIOUS
  <2>1. CASE c \in N
    BY <2>1 DEF BatchOK, Idle
  <2>2. CASE c \in DOMAIN batch
    <3>1. BatchOK(c) /\ batch'[c] = batch[c]
      BY <1>0, <2>2
    <3> QED
      BY <3>1 DEF BatchOK, Idle
  <2> QED
    BY <2>1, <2>2
<1>3. ASSUME NEW c \in Batch PROVE JobOK(c)'
  <2>1. CASE c \in N
    BY <1>1, <2>1 DEF JobOK, Live
  <2>2. CASE c \notin N
    <3>1. JobOK(c) /\ job'[c] = job[c] /\ (c \in DOMAIN batch <=> c \in DOMAIN batch')
          /\ (c \in DOMAIN batch => batch'[c] = batch[c]) /\ UNCHANGED boot
      BY <1>0, <2>2
    <3>2. job[c] # "off" => c \in DOMAIN batch
      BY <3>1 DEF JobOK, Live
    <3>3. CASE c \in DOMAIN batch
      BY <3>1, <3>3 DEF JobOK, Live, Idle
    <3>4. CASE c \notin DOMAIN batch
      BY <3>1, <3>2, <3>4 DEF JobOK, Live
    <3> QED
      BY <3>3, <3>4
  <2> QED
    BY <2>1, <2>2
<1>4. Pairs'
  <2> SUFFICES ASSUME NEW x \in Live', NEW y \in Live', x # y
               PROVE  (Meets(x, y)' => Beside(x, y)') /\ ~batch'[x].exclusive
    BY DEF Pairs
  <2>1. ASSUME NEW z \in Live', z \notin N
        PROVE  /\ z \in Live /\ z \in Running /\ z \in DOMAIN batch /\ z \in Batch \ N
               /\ batch'[z] = batch[z] /\ job'[z] = job[z]
    <3>1. z \in DOMAIN batch'
      BY DEF Live
    <3>2. z \in DOMAIN batch /\ z \in Batch
      BY <1>0, <2>1, <3>1
    <3>3. batch'[z] = batch[z] /\ job'[z] = job[z]
      BY <2>1, <3>2
    <3>4. z \in Live
      BY <3>2, <3>3 DEF Live
    <3>5. z \in Running
      BY <1>0, <3>2, <3>4 DEF JobOK, Running
    <3> QED
      BY <2>1, <3>2, <3>3, <3>4, <3>5
  <2>2. ~batch'[x].exclusive
    BY <1>1, <2>1
  <2>3. CASE x \in N
    BY <1>1, <2>1, <2>3 DEF Beside, Idle
  <2>4. CASE y \in N /\ x \notin N
    BY <1>1, <2>1, <2>4 DEF Beside, Idle
  <2>5. CASE x \notin N /\ y \notin N
    <3>1. /\ batch'[x] = batch[x] /\ job'[x] = job[x] /\ batch'[y] = batch[y] /\ job'[y] = job[y]
          /\ (Meets(x, y) => Beside(x, y)) /\ ~batch[x].exclusive
      BY <1>0, <2>1, <2>5 DEF Pairs
    <3> QED
      BY <3>1 DEF Meets, Beside, Idle
  <2> QED
    BY <2>2, <2>3, <2>4, <2>5
<1>5. \A h \in working' : Works(h)'
  <2> SUFFICES ASSUME NEW h \in working PROVE Works(h)'
    OBVIOUS
  <2>1. Works(h) /\ h[2] \in DOMAIN batch
    BY <1>0 DEF Works, Open
  <2> QED
    BY <2>1 DEF Works, Open, people
<1> QED
  BY <1>2, <1>3, <1>4, <1>5

\* A crash keeps what the disk keeps, and with it the invariant.
LEMMA CrashKeeps ==
  ASSUME IInv, Crash
  PROVE  IInv'
<1>1. /\ TypeOK /\ (\A b \in DOMAIN batch : BatchOK(b)) /\ (\A b \in Batch : JobOK(b))
      /\ Pairs /\ \A h \in working : Works(h)
  BY DEF IInv
<1>2. /\ \A b \in Batch : job'[b] = "off"
      /\ boot' = "down" /\ UNCHANGED <<req, batch, people, given, working>>
  BY DEF Crash
<1>3. TypeOK'
  <2>1. job' \in [Batch -> Job] /\ pick' \in [Batch -> Taker] /\ crashes' \in Nat
    BY <1>1 DEF Crash, TypeOK, Job, Taker
  <2> QED
    BY <1>1, <1>2, <2>1 DEF TypeOK, people
<1>4. \A b \in DOMAIN batch' : BatchOK(b)'
  BY <1>1, <1>2 DEF BatchOK, Idle
<1>5. \A b \in Batch : JobOK(b)'
  BY <1>2 DEF JobOK
<1>6. Pairs'
  <2> SUFFICES ASSUME NEW x \in Live', NEW y \in Live', x # y
               PROVE  (Meets(x, y)' => Beside(x, y)') /\ ~batch'[x].exclusive
    BY DEF Pairs
  <2>1. x \in Live /\ y \in Live /\ x \in Batch /\ y \in Batch
    BY <1>1, <1>2 DEF Live, TypeOK
  <2> QED
    BY <1>1, <1>2, <2>1 DEF Pairs, Meets, Beside, Idle
<1>7. \A h \in working' : Works(h)'
  BY <1>1, <1>2 DEF Works, Open, people
<1> QED
  BY <1>3, <1>4, <1>5, <1>6, <1>7 DEF IInv

\* Recovery leaves nobody on an unanswered run, and keeps what was handed back.
LEMMA RecoverKeeps ==
  ASSUME IInv, Recover
  PROVE  IInv'
<1>1. /\ TypeOK /\ (\A b \in DOMAIN batch : BatchOK(b)) /\ (\A b \in Batch : JobOK(b))
      /\ Pairs /\ \A h \in working : Works(h)
  BY DEF IInv
<1>2. /\ \A b \in Batch : job'[b] = IF b \in Open THEN "deferred"
                                    ELSE IF b \in Live THEN "post" ELSE "off"
      /\ boot' = "barrier" /\ UNCHANGED <<req, batch, pick, people, given, working, crashes>>
  BY DEF Recover, Live
<1>3. TypeOK'
  <2>1. job' \in [Batch -> Job]
    BY DEF Recover, Job
  <2> QED
    BY <1>1, <1>2, <2>1 DEF TypeOK, people
<1>4. \A b \in DOMAIN batch' : BatchOK(b)'
  BY <1>1, <1>2 DEF BatchOK, Idle
<1>5. \A b \in Batch : JobOK(b)'
  <2> SUFFICES ASSUME NEW b \in Batch PROVE JobOK(b)'
    OBVIOUS
  <2>1. CASE b \in Open
    BY <1>2, <2>1 DEF JobOK, Open, Live
  <2>2. CASE b \in Live \ Open
    BY <1>1, <1>2, <2>2 DEF JobOK, Open, Live, BatchOK
  <2>3. CASE b \notin Live
    BY <1>2, <2>3 DEF JobOK, Open, Live
  <2> QED
    BY <2>1, <2>2, <2>3
<1>6. Pairs'
  <2> SUFFICES ASSUME NEW x \in Live', NEW y \in Live', x # y
               PROVE  (Meets(x, y)' => Beside(x, y)') /\ ~batch'[x].exclusive
    BY DEF Pairs
  <2>1. x \in Live /\ y \in Live /\ x \in Batch /\ y \in Batch
    BY <1>1, <1>2 DEF Live, TypeOK
  <2>2. job'[x] # "routes"
    BY <1>2, <2>1
  <2> QED
    BY <1>1, <1>2, <2>1, <2>2 DEF Pairs, Meets, Beside, Idle
<1>7. \A h \in working' : Works(h)'
  BY <1>1, <1>2 DEF Works, Open, people
<1> QED
  BY <1>3, <1>4, <1>5, <1>6, <1>7 DEF IInv

\* What people do, and the end of the barrier, change no run.
LEMMA QuietKeeps ==
  ASSUME IInv, UNCHANGED <<batch, job, pick, given>>, boot = "down" <=> boot' = "down",
         TypeOK', \A h \in working' : h \in working /\ h[1] \notin gone'
  PROVE  IInv'
<1>1. /\ (\A b \in DOMAIN batch : BatchOK(b)) /\ (\A b \in Batch : JobOK(b))
      /\ Pairs /\ \A h \in working : Works(h)
  BY DEF IInv
<1>2. \A b \in DOMAIN batch' : BatchOK(b)'
  BY <1>1 DEF BatchOK, Idle
<1>3. \A b \in Batch : JobOK(b)'
  BY <1>1 DEF JobOK, Live, Idle
<1>4. Pairs'
  BY <1>1 DEF Pairs, Live, Meets, Beside, Idle
<1>5. \A h \in working' : Works(h)'
  BY <1>1 DEF Works, Open
<1> QED
  BY <1>2, <1>3, <1>4, <1>5 DEF IInv

-----------------------------------------------------------------------------
(* The invariant is inductive *)

LEMMA RunKeeps ==
  ASSUME IInv, NEW b \in Batch, OfRun(b)
  PROVE  IInv'
<1>1. /\ Sound /\ TypeOK /\ Pairs /\ HandlesOK /\ \A h \in working : Works(h)
  BY Types DEF IInv, Sound, HandlesOK, PeopleOK
<1>2. RunStep(b)
  BY <1>1, StepsOfRuns DEF HandlesOK
<1>3. TypeOK'
  BY <1>1, TypesOfRuns
<1>4. \A c \in (DOMAIN batch)' : BatchOK(c)'
  BY <1>1, <1>2, BatchOKKept
<1>5. \A c \in Batch : JobOK(c)'
  BY <1>1, <1>2, JobOKKept
<1>6. Pairs'
  BY <1>1, <1>2, PairsKept
<1>7. \A h \in working' : Works(h)'
  BY <1>1, WorksKept
<1> QED
  BY <1>3, <1>4, <1>5, <1>6, <1>7 DEF IInv

\* Requests, sessions that come and go, and the end of the barrier keep the invariant.
LEMMA PeopleKeep ==
  ASSUME IInv, (\E r \in Request : Ask(r)) \/ People \/ Ready
  PROVE  IInv'
<1>1. TypeOK /\ \A h \in working : h[1] \notin gone
  BY DEF IInv, Works
<1>2. CASE \E r \in Request : Ask(r)
  <2>1. PICK r \in Request : Ask(r)
    BY <1>2
  <2>2. UNCHANGED <<batch, job, pick, people, given, working, boot, crashes>>
        /\ req' = [req EXCEPT ![r] = [req[r] EXCEPT !.st = "queued"]]
    BY <2>1 DEF Ask, Moved
  <2>3. req[r] \in ReqRec
    BY <1>1 DEF TypeOK
  <2>4. [req[r] EXCEPT !.st = "queued"] \in ReqRec
    BY <2>3 DEF ReqRec
  <2>5. req' \in [Request -> ReqRec]
    BY <1>1, <2>2, <2>4 DEF TypeOK
  <2>6. TypeOK'
    BY <1>1, <2>2, <2>5 DEF TypeOK, people
  <2> QED
    BY <1>1, <2>2, <2>6, QuietKeeps DEF people
<1>3. CASE People
  <2>1. UNCHANGED <<req, batch, job, pick, given, boot, crashes>> /\ moves' = moves + 1
    BY <1>3 DEF People, Connects, TurnsAway, Ends, Chooses, JamTurns, ContextTurns, Moves
  <2>2. /\ gone' \subseteq Session /\ gone \subseteq gone' /\ usable' \subseteq Session \ gone'
        /\ sel' \in usable' \cup {NoSession} /\ (sel' = NoSession <=> usable' = {})
        /\ \A h \in working' : h \in working /\ h[1] \notin gone'
    <3> USE <1>1, NoSessionAssumption DEF TypeOK
    <3>1. CASE \E s \in Session : Connects(s)
      BY <3>1 DEF Connects
    <3>2. CASE \E s \in Session : TurnsAway(s)
      BY <3>2 DEF TurnsAway, Away
    <3>3. CASE \E s \in Session : Ends(s)
      BY <3>3 DEF Ends, Away
    <3>4. CASE (\E s \in Session : Chooses(s)) \/ JamTurns \/ ContextTurns
      BY <3>4 DEF Chooses, JamTurns, ContextTurns
    <3> QED
      BY <1>3, <3>1, <3>2, <3>3, <3>4 DEF People
  <2>3. jam' \in BOOLEAN /\ settings' \in [runner : {"auto", "session"}, context : {"fork", "fresh"}]
    <3> USE <1>1 DEF TypeOK
    <3>1. CASE ContextTurns
      BY <3>1 DEF ContextTurns
    <3>2. CASE ~ContextTurns
      BY <1>3, <3>2 DEF People, Connects, TurnsAway, Ends, Away, Chooses, JamTurns
    <3> QED
      BY <3>1, <3>2
  <2>4. working' \subseteq given'
    BY <1>1, <2>1, <2>2 DEF TypeOK
  <2>5. TypeOK'
    BY <1>1, <2>1, <2>2, <2>3, <2>4 DEF TypeOK, Taker
  <2> QED
    BY <2>1, <2>2, <2>5, QuietKeeps
<1>4. CASE Ready
  <2>1. UNCHANGED <<req, batch, job, pick, people, given, working, crashes>> /\ boot = "barrier" /\ boot' = "up"
    BY <1>4 DEF Ready
  <2>2. TypeOK'
    BY <1>1, <2>1 DEF TypeOK, people
  <2> QED
    BY <1>1, <2>1, <2>2, QuietKeeps DEF people
<1> QED
  BY <1>2, <1>3, <1>4

\* A step of nothing keeps the invariant.
LEMMA StutterKeeps ==
  ASSUME IInv, UNCHANGED vars
  PROVE  IInv'
<1>1. TypeOK /\ \A h \in working : h[1] \notin gone
  BY DEF IInv, Works
<1>2. TypeOK'
  BY <1>1 DEF TypeOK, vars, people
<1> QED
  BY <1>1, <1>2, QuietKeeps DEF vars, people

\* The steps of the system.
LEMMA Steps ==
  ASSUME Next
  PROVE  \/ \E b \in Batch : OfRun(b)
         \/ (\E r \in Request : Ask(r)) \/ People \/ Ready
         \/ Pump \/ Crash \/ Recover
BY DEF Next, Owner, OfRun

\* Before the first request there is no run.
LEMMA Starts == Init => IInv
<1> SUFFICES ASSUME Init PROVE IInv
  OBVIOUS
<1> USE DEF Init
<1>1. TypeOK
  <2>1. req \in [Request -> ReqRec]
    BY FramesAssumption DEF ReqRec
  <2>2. settings \in [runner : {"auto", "session"}, context : {"fork", "fresh"}]
    BY LimitsAssumption
  <2> QED
    BY <2>1, <2>2 DEF TypeOK, Job, Taker
<1> QED
  BY <1>1 DEF IInv, JobOK, Live, Pairs

\* Every step keeps the invariant.
LEMMA Inductive == IInv /\ [Next]_vars => IInv'
<1> SUFFICES ASSUME IInv, [Next]_vars PROVE IInv'
  OBVIOUS
<1>1. CASE Pump
  <2>1. TypeOK
    BY DEF IInv
  <2>2. TypeOK' /\ \E N : Formed(N)
    BY <1>1, <2>1, PumpForms
  <2> QED
    BY <2>2, FormedKeeps DEF IInv
<1> QED
  BY <1>1, Steps, RunKeeps, PeopleKeep, CrashKeeps, RecoverKeeps, StutterKeeps

\* The invariant holds in every state that can be reached.
LEMMA Invariant == Spec => []IInv
BY Starts, Inductive, PTL DEF Spec

-----------------------------------------------------------------------------
(* Theorems *)

\* The types hold, for every run of runs.ts and for whoever asks of the daemon.
THEOREM TypesHold == Spec => []TypeOK
<1>1. IInv => TypeOK
  BY DEF IInv
<1> QED
  BY <1>1, Invariant, PTL

\* A session that works is the one the daemon knows to hold the run, under that handle, and
\* what the owner dropped has no worker and is not delivered: a withdrawal, a restart, a move
\* or an old handle (claimOf, release, done in runs.ts) takes no run away behind its worker's
\* back.
THEOREM WorkersAreKnownHolds == Spec => []WorkersAreKnown
<1>1. ASSUME IInv PROVE WorkersAreKnown
  <2>1. \A h \in working : Works(h)
    BY <1>1 DEF IInv
  <2>2. \A b \in DOMAIN batch : BatchOK(b) /\ JobOK(b)
    BY <1>1 DEF IInv, TypeOK
  <2> QED
    BY <2>1, <2>2 DEF WorkersAreKnown, Works, BatchOK, JobOK, Idle
<1> QED
  BY <1>1, Invariant, PTL

\* Two runs with a frame in common are never with two runners, and what runs alone is alone:
\* the frames are looked at under the lock, when a run is offered, taken or left to an agent
\* (mayHold, overlap, besideNothing in runs.ts and queue.ts).
THEOREM OneRunnerHolds == Spec => []OneRunner
<1>1. ASSUME IInv PROVE OneRunner
  <2>1. /\ TypeOK /\ (\A b \in Batch : JobOK(b)) /\ (\A b \in DOMAIN batch : BatchOK(b))
        /\ Pairs /\ \A h \in working : Works(h)
    BY <1>1 DEF IInv
  <2>2. HandlesOK
    BY <2>1 DEF TypeOK, HandlesOK
  <2>3. ASSUME NEW a \in Agents
        PROVE  /\ a \in Live /\ ~batch[a].saved /\ batch[a].runner = "agent" /\ Idle(a)
               /\ batch[a].exclusive \/ batch[a].frames # {}
    BY <2>1 DEF Agents, JobOK
  <2>4. ASSUME NEW h \in working
        PROVE  /\ h[2] \in Live /\ ~batch[h[2]].saved /\ batch[h[2]].claim = h[1] /\ h[1] # NoSession
    BY <2>1, <2>2, Workers DEF Works, Open, Live
  <2>5. ASSUME NEW a \in Agents, NEW b \in Agents \cup {h[2] : h \in working}, a # b
        PROVE  batch[a].frames \cap batch[b].frames = {}
    <3>1. b \in Live /\ ~batch[b].saved /\ (batch[b].runner = "agent" \/ ~Idle(b))
      BY <2>3, <2>4 DEF Idle
    <3> QED
      BY <2>1, <2>3, <2>5, <3>1 DEF Pairs, Beside, Meets
  <2>6. ASSUME NEW h \in working, NEW k \in working, h[1] # k[1]
        PROVE  batch[h[2]].frames \cap batch[k[2]].frames = {}
    <3>1. h[2] # k[2]
      BY <2>4, <2>6
    <3> QED
      BY <2>1, <2>4, <2>6, <3>1 DEF Pairs, Beside, Meets
  <2>7. \A h \in working : h[2] \notin Agents
    BY <2>3, <2>4 DEF Idle
  <2>8. \A b \in Running : batch[b].exclusive => Running = {b}
    <3>1. \A b \in Running : b \in Live
      BY <2>1 DEF Running, JobOK
    <3> QED
      BY <2>1, <3>1 DEF Pairs
  <2> QED
    BY <2>3, <2>5, <2>6, <2>7, <2>8 DEF OneRunner
<1> QED
  BY <1>1, Invariant, PTL

\* A run handed back (done in runs.ts) stays its session's, with its words and no stop, until
\* the words are saved: no release, stop, old handle or restart takes it away.
THEOREM HandedBackStandsHolds == Spec => HandedBackStands
<1> DEFINE A == \A b \in DOMAIN batch : batch[b].result =>
                  /\ batch[b].claim = batch'[b].claim /\ batch[b].gen = batch'[b].gen
                  /\ batch'[b].result /\ batch'[b].stop = "" /\ ~batch'[b].dropped
                  /\ (batch'[b].st = "claimed" \/ batch'[b].saved)
<1>1. ASSUME IInv, [Next]_vars PROVE A
  <2> SUFFICES ASSUME NEW c \in DOMAIN batch, batch[c].result
               PROVE  /\ batch[c].claim = batch'[c].claim /\ batch[c].gen = batch'[c].gen
                      /\ batch'[c].result /\ batch'[c].stop = "" /\ ~batch'[c].dropped
                      /\ (batch'[c].st = "claimed" \/ batch'[c].saved)
    OBVIOUS
  <2>1. IInv'
    BY <1>1, Inductive
  <2>2. BatchOK(c) /\ c \in Batch
    BY <1>1 DEF IInv, TypeOK
  <2>3. /\ batch[c].claim # NoSession /\ batch[c].stop = "" /\ ~batch[c].dropped
        /\ batch[c].st = "claimed" \/ batch[c].saved
        /\ batch[c].offer = NoSession
    BY <2>2 DEF BatchOK
  <2>4. CASE batch'[c] = batch[c]
    BY <2>3, <2>4
  <2>5. ASSUME NEW b \in Batch, OfRun(b)
        PROVE  \/ batch'[c] = batch[c]
               \/ /\ batch[c].claim = batch'[c].claim /\ batch[c].gen = batch'[c].gen
                  /\ batch'[c].result
    <3>1. Sound /\ given \subseteq Handle
      BY <1>1 DEF IInv, Sound, TypeOK, BatchTypes, JobType
    <3>2. RunStep(b) /\ Only(b)
      BY <2>5, <3>1, StepsOfRuns, OnlyOne
    <3>3. CASE c # b
      BY <3>2, <3>3 DEF Only
    <3>4. CASE c = b
      <4>1. CASE Freed(b) \/ Kept1(b) \/ Handed(b) \/ Marked(b) \/ GoesOn(b)
        BY <2>3, <3>4, <4>1 DEF Freed, Kept1, Handed, Marked, GoesOn
      <4>2. CASE (\E s \in Taker : Offered(b, s)) \/ Routed(b)
        BY <2>3, <3>4, <4>2 DEF Offered, Routed, Idle
      <4>3. CASE \E s \in Session : Taken(b, s)
        BY <2>3, <3>4, <4>3, NoSessionAssumption DEF Taken
      <4>4. CASE (\E f \in Frame : Grown(b, f)) \/ Ended(b) \/ SavedNow(b)
        BY <3>4, <4>4 DEF Grown, Ended, SavedNow, StaysWith
      <4> QED
        BY <3>2, <4>1, <4>2, <4>3, <4>4 DEF RunStep
    <3> QED
      BY <3>3, <3>4
  <2>6. CASE Pump
    <3>1. PICK N : Formed(N)
      BY <1>1, <2>6, PumpForms DEF IInv
    <3> QED
      BY <2>4, <3>1 DEF Formed
  <2>7. CASE (\E r \in Request : Ask(r)) \/ People \/ Ready \/ Crash \/ Recover \/ UNCHANGED vars
    <3>1. UNCHANGED batch
      BY <2>7
         DEF Ask, People, Connects, TurnsAway, Ends, Chooses, JamTurns, ContextTurns, Moves,
             Ready,
                  Crash, Recover, vars
    <3> QED
      BY <2>4, <3>1
  <2>8. ASSUME NEW b \in Batch, OfRun(b)
        PROVE  /\ batch[c].claim = batch'[c].claim /\ batch[c].gen = batch'[c].gen
               /\ batch'[c].result /\ batch'[c].stop = "" /\ ~batch'[c].dropped
               /\ (batch'[c].st = "claimed" \/ batch'[c].saved)
    <3>1. CASE batch'[c] = batch[c]
      BY <2>3, <3>1
    <3>2. CASE batch[c].claim = batch'[c].claim /\ batch[c].gen = batch'[c].gen /\ batch'[c].result
      <4>1. DOMAIN batch' = DOMAIN batch
        <5>1. Sound /\ given \subseteq Handle
          BY <1>1 DEF IInv, Sound, TypeOK, BatchTypes, JobType
        <5> QED
          BY <2>8, <5>1, StepsOfRuns, OnlyOne DEF Only
      <4>2. BatchOK(c)'
        BY <2>1, <4>1 DEF IInv
      <4> QED
        BY <3>2, <4>2 DEF BatchOK
    <3> QED
      BY <2>5, <2>8, <3>1, <3>2
  <2> QED
    BY <1>1, <2>6, <2>7, <2>8, Steps
<1>2. IInv /\ [Next]_vars => [A]_vars
  BY <1>1
<1> QED
  BY <1>2, Invariant, PTL DEF Spec, HandedBackStands

\* A session is offered no more than it may hold: the place is looked at again under the
\* lock (run, keepOffer and load in runs.ts).
THEOREM OffersFitHolds == Spec => OffersFit
<1> DEFINE A == \A s \in Session :
                  (\E b \in DOMAIN batch : batch[b].offer # s /\ batch'[b].offer = s)
                    => Load(s)' <= SessionMax
<1>1. ASSUME IInv, [Next]_vars PROVE A
  <2> SUFFICES ASSUME NEW s \in Session, NEW c \in DOMAIN batch, batch[c].offer # s, batch'[c].offer = s
               PROVE  Load(s)' <= SessionMax
    OBVIOUS
  <2>1. /\ Sound /\ TypeOK /\ given \subseteq Handle /\ s # NoSession
    BY <1>1, NoSessionAssumption DEF IInv, Sound, TypeOK, BatchTypes, JobType
  <2>2. batch'[c] # batch[c]
    OBVIOUS
  <2>3. ~Pump
    <3> SUFFICES ASSUME Pump PROVE FALSE
      OBVIOUS
    <3>1. PICK N : Formed(N)
      BY <2>1, PumpForms
    <3> QED
      BY <2>2, <3>1 DEF Formed
  <2>4. ~((\E r \in Request : Ask(r)) \/ People \/ Ready \/ Crash \/ Recover \/ UNCHANGED vars)
    BY <2>2
       DEF Ask, People, Connects, TurnsAway, Ends, Chooses, JamTurns, ContextTurns, Moves, Ready,
                Crash, Recover, vars
  <2>5. PICK b \in Batch : OfRun(b)
    BY <1>1, <2>3, <2>4, Steps
  <2>6. RunStep(b) /\ Only(b)
    BY <2>1, <2>5, StepsOfRuns, OnlyOne
  <2>7. c = b
    BY <2>2, <2>6 DEF Only
  <2>8. Offered(b, s)
    BY <2>1, <2>6, <2>7
       DEF RunStep, Freed, Offered, Kept1, Taken, Handed, Grown, Marked, Ended, Routed,
                            SavedNow, GoesOn, Stays, StaysWith, Idle
  <2> DEFINE Had == {x \in Open \ {b} : HoldsPlace(x, s)}
             Has == {x \in Open' : HoldsPlace(x, s)'}
  <2>9. IsFiniteSet(Had) /\ Cardinality(Had) \in Nat /\ Cardinality(Had) < SessionMax
    BY <2>1, <2>8, OthersNat DEF Offered, Others, Sound
  <2>10. Has \subseteq Had \cup {b}
    <3> SUFFICES ASSUME NEW x \in Open', HoldsPlace(x, s)', x # b
                 PROVE  x \in Open /\ HoldsPlace(x, s)
      OBVIOUS
    <3>1. x \in DOMAIN batch /\ batch'[x] = batch[x]
      BY <2>6 DEF Only, Open
    <3> QED
      BY <3>1 DEF Open, HoldsPlace, Kept
  <2>11. IsFiniteSet(Had \cup {b}) /\ Cardinality(Had \cup {b}) <= Cardinality(Had) + 1
    <3>1. /\ IsFiniteSet(Had \cup {b})
          /\ Cardinality(Had \cup {b}) = IF b \in Had THEN Cardinality(Had) ELSE Cardinality(Had) + 1
      BY <2>9, FS_AddElement
    <3> HIDE DEF Had
    <3> QED
      BY <2>9, <3>1
  <2>12. Cardinality(Has) <= Cardinality(Had \cup {b}) /\ Cardinality(Has) \in Nat
    BY <2>10, <2>11, FS_Subset, FS_CardinalityType
  <2>13. Load(s)' = Cardinality(Has)
    BY DEF Load
  <2>14. Cardinality(Had \cup {b}) \in Nat /\ SessionMax \in Nat
    BY <2>11, FS_CardinalityType, LimitsAssumption
  <2> QED
    BY <2>9, <2>11, <2>12, <2>13, <2>14
<1>2. IInv /\ [Next]_vars => [A]_vars
  BY <1>1
<1> QED
  BY <1>2, Invariant, PTL DEF Spec, OffersFit
=============================================================================
