----------------------------- MODULE JamCaptures -----------------------------
(***************************************************************************)
(* Captures and the record of a Jam session: a page records a capture,     *)
(* seals it, keeps it and sends it until it is taken                       *)
(* (client/shell/jam-capture.ts); the server stores it and makes its card, *)
(* confirms a draft and sends a review round again in steps a crash may    *)
(* cut (server/jam/daemon.ts, queue.ts, capture.ts); and the session ends  *)
(* with a record of its captures, which waits for those still open in some *)
(* tab (daemon.ts, session.ts).                                            *)
(*                                                                         *)
(* An upload or its answer may be lost, or late and repeated; a page may   *)
(* leave or crash, the server may stop between any two writes.  Whoever    *)
(* acts on a card may hold any view of it there ever was: r is the         *)
(* revision seen.  A request to hold a capture open has no message: it     *)
(* reaches the server at any time while its page holds it, or never.  A    *)
(* capture that ended waits for its last words and pictures: until they    *)
(* are in it counts as recording.                                          *)
(*                                                                         *)
(* One session, one tab for each capture; cards that ask, tags, resolves   *)
(* and a run's own steps are in JamQueue.  Left out: a capture begun with  *)
(* no session, a comment forged under a step's id (conflictStep), a record *)
(* changed on disk, and writes that fail while the server runs on.         *)
(***************************************************************************)
EXTENDS Naturals, FiniteSets

CONSTANTS
  Cap,      \* the captures
  None,     \* no capture
  MaxPage,  \* how many pages hold one capture, one after the other
  MaxStops, \* how often the server stops
  MaxEvents,\* how many events: something lost, a page gone, a card edited, renamed, dropped, or
            \* kept, the session ended with no record
  MaxRev    \* the last revision of a card a request names

ASSUME NoneAssumption == None \notin Cap
ASSUME BoundAssumption == MaxPage \in Nat \ {0} /\ MaxEvents \in Nat /\ MaxStops \in Nat /\ MaxRev \in Nat

VARIABLES
  page,     \* on its page: "no", "recording", "kept" (sealed, in localStorage),
            \* "left" (kept, no page open), "landed", "gone"
  gen,      \* the page that holds it: 1, 2, ...
  marked,   \* it says it is of the session (Cap.session, then record.context.session)
  auto,     \* ended with E: no read-back
  about,    \* what it was begun on: the draft it resumes, or the review (run, revision) it follows
  told,     \* captures whose page was told the session ended without them
  held,     \* openOnServer: the page renews that it is open
  up,       \* the upload of each page: "no", "way", "pin", "in" (taken in, waits for its pin, the lock)
  server,   \* the server runs
  events, stops,
  open,     \* openCaps
  heard,    \* history: captures this server said ok to, and whose hold has not run out since
  session,  \* the session runs
  stored,   \* capture records on disk
  card,     \* the cards, as journalled
  log,      \* the comment log: <<c, "comment", 0>>, and <<c, "more", r>>: a More work reply
  ledger,   \* the same of those owned, and <<c, "words", w>>: the words confirmed
  wrap,     \* the session's record: the captures it holds
  seen,     \* history: the revision a card was sent at
  verdicts  \* history: how often the last run of a card was decided

pages == <<page, gen, marked, auto, about, told, held>>
memory == <<server, open, heard>>
disk == <<session, stored, card, log, ledger, wrap, seen, verdicts>>
vars == <<pages, up, memory, disk, events, stops>>

Gen == 1..MaxPage
\* words: the revision of the last edit; pend: the step begun, as it will end.
NoCard == [st |-> "none", rev |-> 0, words |-> 0, pend |-> "no", asks |-> {}, ses |-> FALSE, run |-> 0]
Nothing == [resumes |-> None, reviews |-> None, rev |-> 0, run |-> 0]
NoRecord == [sealed |-> FALSE, caps |-> {}]

Has(c) == card[c] # NoCard
Live(c) == page[c] \in {"recording", "kept"}
Landing == {c \in Cap : \E g \in Gen : up[c][g] \in {"pin", "in"}}

Calm == UNCHANGED <<events, stops>>
Event == events < MaxEvents /\ events' = events + 1 /\ stops' = stops

Init ==
  /\ page = [c \in Cap |-> "no"] /\ gen = [c \in Cap |-> 1]
  /\ marked = [c \in Cap |-> FALSE] /\ auto = [c \in Cap |-> FALSE] /\ about = [c \in Cap |-> Nothing]
  /\ told = {} /\ held = {} /\ up = [c \in Cap |-> [g \in Gen |-> "no"]]
  /\ server = TRUE /\ events = 0 /\ stops = 0 /\ open = {} /\ heard = {}
  /\ session = TRUE /\ stored = {} /\ card = [c \in Cap |-> NoCard]
  /\ log = {} /\ ledger = {} /\ wrap = NoRecord
  /\ seen = [c \in Cap |-> 0] /\ verdicts = [c \in Cap |-> 0]

-----------------------------------------------------------------------------
(* The page.                                                               *)

\* begin: of the session its queue view holds, which may be over by now.
Begins(c) ==
  /\ page[c] = "no" /\ page' = [page EXCEPT ![c] = "recording"]
  /\ marked' = [marked EXCEPT ![c] = TRUE] /\ held' = held \cup {c}
  /\ \/ about' = about
     \/ \E d \in Cap \ {c} :
          card[d].st = "draft" /\ about' = [about EXCEPT ![c] = [about[d] EXCEPT !.resumes = d]]
     \/ \E d \in Cap \ {c} :
          /\ card[d].st = "review" /\ card[d].pend = "no"
          /\ about' = [about EXCEPT ![c] = [Nothing EXCEPT !.reviews = d, !.rev = card[d].rev, !.run = card[d].run]]
  /\ UNCHANGED <<gen, auto, told, up, memory, disk>> /\ Calm

\* E or ⇧E, and sealed.
Ends(c) ==
  /\ page[c] = "recording" /\ page' = [page EXCEPT ![c] = "kept"]
  /\ \E e \in BOOLEAN : auto' = [auto EXCEPT ![c] = e]
  /\ up' = [up EXCEPT ![c][gen[c]] = "way"]
  /\ UNCHANGED <<gen, marked, about, told, held, memory, disk>> /\ Calm
\* Dropped: the server is told, if it hears of it.
Drops(c) ==
  /\ page[c] = "recording" /\ page' = [page EXCEPT ![c] = "gone"]
  /\ held' = held \ {c} /\ open' \in {open} \cup IF server /\ c \in held THEN {open \ {c}} ELSE {}
  /\ UNCHANGED <<server, gen, marked, auto, about, told, up, heard, disk>> /\ Event

\* The page leaves: what records is sealed as it stands, a draft (sealOnLeave), and sent as it
\* goes, if it fits.
Leaves(c) ==
  /\ Live(c) /\ page' = [page EXCEPT ![c] = "left"] /\ held' = held \ {c}
  /\ \/ up[c][gen[c]] = "no" /\ up' = [up EXCEPT ![c][gen[c]] = "way"]
     \/ UNCHANGED up
  /\ UNCHANGED <<gen, marked, auto, about, told, memory, disk>> /\ Event
\* It crashes: what is not sealed is lost.
PageCrashes(c) ==
  /\ Live(c) /\ page' = [page EXCEPT ![c] = IF @ = "kept" THEN "left" ELSE "gone"]
  /\ held' = held \ {c}
  /\ UNCHANGED <<gen, marked, auto, about, told, up, memory, disk>> /\ Event
\* The next page, whenever it opens, sends what was kept and says again that it is open (resendSealed).
Opens(c) ==
  /\ page[c] = "left" /\ gen[c] < MaxPage /\ gen' = [gen EXCEPT ![c] = @ + 1]
  /\ page' = [page EXCEPT ![c] = "kept"]
  /\ up' = [up EXCEPT ![c][gen[c] + 1] = "way"]
  /\ held' = IF marked[c] THEN held \cup {c} ELSE held
  /\ UNCHANGED <<marked, auto, about, told, memory, disk>> /\ Calm

\* A retry.  (A request lost is one that comes late, or never.)
Posts(c) ==
  /\ page[c] = "kept" /\ up[c][gen[c]] = "no"
  /\ up' = [up EXCEPT ![c][gen[c]] = "way"]
  /\ UNCHANGED <<pages, memory, disk>> /\ Calm

\* leftOutOfSession: said once; a capture not sealed yet goes on without its session.
LeftOut(c) ==
  /\ told' = told \cup {c} /\ held' = held \ {c}
  /\ marked' = [marked EXCEPT ![c] = @ /\ page[c] # "recording"]

\* captureOpen, first or renewed, and its answer, unless that is lost.
Registers(c) ==
  /\ server /\ c \in held
  /\ LET ended == IF Has(c) THEN ~card[c].ses ELSE ~session /\ c \notin open IN
     /\ IF Has(c) \/ ended THEN UNCHANGED <<open, heard>> ELSE open' = open \cup {c} /\ heard' = heard \cup {c}
     /\ IF ended THEN LeftOut(c) ELSE UNCHANGED <<told, held, marked>>
  /\ UNCHANGED <<server, page, gen, auto, about, up, disk>> /\ Calm
\* 60 s with no renewal: its page is gone, or holds it still and its renewals do not arrive.
Expires(c) ==
  /\ c \in open /\ open' = open \ {c} /\ heard' = heard \ {c}
  /\ UNCHANGED <<server, pages, up, disk>> /\ Calm

-----------------------------------------------------------------------------
(* Landing: POST jam/capture.                                              *)

\* Stored and owned at once; one ended with E waits for its pin, then both for the lock.
TakeIn(c, g) ==
  /\ server /\ up[c][g] = "way"
  /\ up' = [up EXCEPT ![c][g] = IF auto[c] /\ ~Has(c) THEN "pin" ELSE "in"]
  /\ stored' = stored \cup {c}
  /\ UNCHANGED <<server, pages, open, heard, session, card, log, ledger, wrap, seen, verdicts>> /\ Calm

Comment(c) == <<c, "comment", 0>>
Words(c, w) == <<c, "words", w>>
\* addCapture, the draft it resumes gone, its words carried on.
Source(c) == about[c].resumes
Carried(c) == IF Source(c) # None /\ card[Source(c)].words > 0 THEN 1 ELSE 0
\* (mutant) A capture is of the session it says, over or not.
InSessionSaid(c) == marked[c]
InSession(c) == marked[c] /\ session
Draft(c) == [NoCard EXCEPT !.st = "draft", !.rev = 1, !.words = Carried(c), !.ses = InSession(c)]
Added(c, new) ==
  [d \in Cap |->
     IF d = c THEN new
     ELSE IF d = Source(c) /\ card[d].st = "draft" THEN [card[d] EXCEPT !.st = "dropped", !.rev = @ + 1]
     ELSE card[d]]

\* (mutant) The review is sent back whatever became of it since.
SentBackAny(c) == {d \in {about[c].reviews} \ {None} : card[d].st = "review" /\ card[d].run = about[c].run}
\* endStep, of a confirm: the review the capture follows goes back as More work, if it is the one it saw.
SentBack(c) ==
  {d \in {about[c].reviews} \ {None} :
     card[d].st = "review" /\ card[d].run = about[c].run /\ card[d].rev = about[c].rev}
Ended(c) ==
  [d \in Cap |->
     IF d = c THEN [card[c] EXCEPT !.st = card[c].pend, !.pend = "no", !.rev = @ + 1]
     ELSE IF card[c].pend = "queued" /\ d \in SentBack(c) THEN [card[d] EXCEPT !.st = "done", !.rev = @ + 1]
     ELSE card[d]]
\* endStep, of a More work: its words are an ask, and the card is queued again.
Again(c) ==
  [card EXCEPT ![c] = [card[c] EXCEPT !.st = "queued", !.pend = "no", !.rev = @ + 1, !.asks = @ \cup {<<c, "more", card[c].rev>>}]]

\* An upload's turn of the lock.  A new capture ended with E is added, confirmed and queued in it.
Landed(c) ==
  /\ log' = log \cup {Comment(c)} /\ ledger' = ledger \cup {Comment(c), Words(c, Carried(c))}
  /\ LET back == SentBack(c) IN
     /\ card' = [d \in Cap |-> IF d \in back THEN [card[d] EXCEPT !.st = "done", !.rev = @ + 1]
                               ELSE Added(c, [Draft(c) EXCEPT !.st = "queued", !.rev = 3])[d]]
     /\ verdicts' = [d \in Cap |-> IF d \in back THEN verdicts[d] + 1 ELSE verdicts[d]]
\* (mutant) The answer does not end the page's hold.
AnsweredHeld(c) ==
  /\ page' = [page EXCEPT ![c] = "landed"] /\ UNCHANGED held
  /\ told' = IF marked[c] /\ ~card'[c].ses THEN told \cup {c} ELSE told
\* The answer, unless it is lost: the capture is the server's; outside its session, the page is told.
Answered(c) ==
  /\ page' = [page EXCEPT ![c] = "landed"] /\ held' = held \ {c}
  /\ told' = IF marked[c] /\ ~card'[c].ses THEN told \cup {c} ELSE told
Land(c, g) ==
  /\ server /\ up[c][g] \in {"pin", "in"} /\ up' = [up EXCEPT ![c][g] = "no"]
  /\ open' = open \ {c}
  /\ \/ ~Has(c) /\ up[c][g] = "pin" /\ Landed(c)
     \/ ~Has(c) /\ up[c][g] = "in" /\ card' = Added(c, Draft(c)) /\ UNCHANGED <<log, ledger, verdicts>>
     \/ Has(c) /\ UNCHANGED <<card, log, ledger, verdicts>>
  /\ \/ g = gen[c] /\ page[c] = "kept" /\ Answered(c) /\ Calm
     \/ g = gen[c] /\ page[c] = "kept" /\ UNCHANGED <<page, held, told>> /\ Event
     \/ ~(g = gen[c] /\ page[c] = "kept") /\ UNCHANGED <<page, held, told>> /\ Calm
  /\ UNCHANGED <<server, gen, marked, auto, about, heard, session, stored, wrap, seen>>

-----------------------------------------------------------------------------
(* The card.                                                               *)

\* A request names the revision its page saw; what is between a step's two turns of the lock, no page saw.
Sees(c, r) == r <= IF card[c].pend = "no" THEN card[c].rev ELSE card[c].rev - 1
Current(c, r) == r = card[c].rev
Becomes(c, new) == card' = [card EXCEPT ![c] = [new EXCEPT !.rev = card[c].rev + 1]]
SameCard == UNCHANGED <<memory, pages, up, session, stored, log, ledger, wrap>>

\* edit, a note; rename; drop; keep.
Act(c, r) ==
  /\ server /\ Sees(c, r) /\ Current(c, r)
  /\ \/ card[c].st = "draft" /\ Becomes(c, [card[c] EXCEPT !.words = card[c].rev + 1])
     \/ card[c].st # "dropped" /\ Becomes(c, card[c])
     \/ card[c].st \in {"queued", "draft", "failed"} /\ Becomes(c, [card[c] EXCEPT !.st = "dropped"])
     \/ card[c].st = "queued" /\ Becomes(c, [card[c] EXCEPT !.st = "kept"])
  /\ SameCard /\ UNCHANGED <<seen, verdicts>> /\ Event

\* (mutant) Under the lock only the state is read again.
ConfirmUnread(c, r) ==
  /\ server /\ card[c].st = "draft" /\ Sees(c, r)
  /\ Becomes(c, [card[c] EXCEPT !.st = "confirming", !.pend = "queued"])
  /\ seen' = [seen EXCEPT ![c] = r]
  /\ SameCard /\ UNCHANGED verdicts /\ Calm
\* beginStep: what the step will write is in the journal first.
Confirm(c, r) ==
  /\ server /\ card[c].st = "draft" /\ Sees(c, r) /\ Current(c, r)
  /\ \E end \in {"queued", "kept"} : Becomes(c, [card[c] EXCEPT !.st = "confirming", !.pend = end])
  /\ seen' = [seen EXCEPT ![c] = r]
  /\ SameCard /\ UNCHANGED verdicts /\ Calm
Decided(c) == verdicts' = [verdicts EXCEPT ![c] = @ + 1]
More(c, r) ==
  /\ server /\ card[c].st = "review" /\ Sees(c, r) /\ Current(c, r)
  /\ Becomes(c, [card[c] EXCEPT !.pend = "more"]) /\ Decided(c)
  /\ SameCard /\ UNCHANGED seen /\ Calm
Good(c, r) ==
  /\ server /\ card[c].st = "review" /\ Sees(c, r) /\ Current(c, r)
  /\ Becomes(c, [card[c] EXCEPT !.st = "done"]) /\ Decided(c)
  /\ SameCard /\ UNCHANGED seen /\ Calm

\* finishIn: the comment, if it is not there; owned, its words with a confirm's; and the card.
Says(c) == IF card[c].pend = "more" THEN <<c, "more", card[c].rev>> ELSE Comment(c)
Owns(c) == {Says(c)} \cup IF card[c].pend = "more" THEN {} ELSE {Words(c, card[c].words)}
\* (mutant) A comment already there was owned when it was written.
WritesStepOnce(c) ==
  /\ log' = log \cup {Says(c)} /\ ledger' = IF Says(c) \in log THEN ledger ELSE ledger \cup Owns(c)
  /\ IF card[c].pend = "more"
     THEN card' = Again(c) /\ verdicts' = verdicts
     ELSE /\ card' = Ended(c)
          /\ verdicts' = [d \in Cap |-> IF card[c].pend = "queued" /\ d \in SentBack(c) THEN verdicts[d] + 1 ELSE verdicts[d]]
WritesStep(c) ==
  /\ log' = log \cup {Says(c)} /\ ledger' = ledger \cup Owns(c)
  /\ IF card[c].pend = "more"
     THEN card' = Again(c) /\ verdicts' = verdicts
     ELSE /\ card' = Ended(c)
          /\ verdicts' = [d \in Cap |-> IF card[c].pend = "queued" /\ d \in SentBack(c) THEN verdicts[d] + 1 ELSE verdicts[d]]
FinishStep(c) ==
  /\ server /\ card[c].pend # "no" /\ WritesStep(c)
  /\ UNCHANGED <<memory, pages, up, session, stored, wrap, seen>> /\ Calm

\* A run, claimed and settled (JamQueue has its steps, and how it fails): claim refuses what is not as it was confirmed (captureIntact, validate).
Valid(c) ==
  /\ c \in stored /\ Words(c, card[c].words) \in ledger
  /\ card[c].asks \subseteq log \cap ledger
Runs(c) ==
  /\ server /\ card[c].st = "queued"
  /\ IF Valid(c)
     THEN /\ card' = [card EXCEPT ![c] = [card[c] EXCEPT !.st = "review", !.run = @ + 1, !.rev = @ + 2]]
          /\ verdicts' = [verdicts EXCEPT ![c] = 0]
     ELSE Becomes(c, [card[c] EXCEPT !.st = "failed"]) /\ verdicts' = verdicts
  /\ SameCard /\ UNCHANGED seen /\ Calm

-----------------------------------------------------------------------------
(* The session ends, with its record or without; the server stops.         *)

Recorded == {c \in Cap : card[c].ses /\ card[c].st \notin {"draft", "dropped", "confirming"}}
\* (mutant) Only what its page said is open.
OpenForSaid == open # {}
\* openFor: held open by its page, or being taken in.
OpenFor == open # {} \/ \E c \in Landing : marked[c]
SealRecord ==
  /\ server /\ session /\ ~OpenFor
  /\ \A c \in Recorded : c \in stored /\ Words(c, card[c].words) \in ledger
  /\ wrap' = [sealed |-> TRUE, caps |-> Recorded] /\ session' = FALSE
  /\ UNCHANGED <<memory, pages, up, stored, card, log, ledger, seen, verdicts>> /\ Calm
EndSession ==
  /\ server /\ session /\ session' = FALSE
  /\ UNCHANGED <<memory, pages, up, stored, card, log, ledger, wrap, seen, verdicts>> /\ Event

Stops ==
  /\ server /\ server' = FALSE /\ stops < MaxStops /\ stops' = stops + 1
  /\ open' = {} /\ heard' = {}
  /\ up' = [c \in Cap |-> [g \in Gen |-> IF up[c][g] \in {"pin", "in"} THEN "no" ELSE up[c][g]]]
  /\ UNCHANGED <<pages, session, stored, wrap, seen>> /\ events' = events
\* Between any two writes of a step, its last one the card.
Torn(c) ==
  /\ log' = log \cup {Says(c)}
  /\ \E part \in {{}, {Says(c)}, Owns(c)} : ledger' = ledger \cup part
Crash ==
  /\ Stops
  /\ \/ UNCHANGED <<card, log, ledger, verdicts>>
     \/ \E c \in Cap : card[c].pend # "no" /\ Torn(c) /\ UNCHANGED <<card, verdicts>>
\* Or of the step an upload's turn begins and ends: its card is confirming, and some of it written.
CrashLanding(c) ==
  /\ ~Has(c) /\ \E g \in Gen : up[c][g] = "pin"
  /\ card' = Added(c, [Draft(c) EXCEPT !.st = "confirming", !.pend = "queued", !.rev = 2])
  /\ \E part \in {{}, {Comment(c)}, {Comment(c), Words(c, Carried(c))}} :
       /\ ledger' = ledger \cup part
       /\ log' \in {log \cup {Comment(c)}} \cup IF part = {} THEN {log} ELSE {}
  /\ verdicts' = verdicts /\ Stops

\* It starts: the steps a crash cut are finished before anything else (recover).
Pending == {c \in Cap : card[c].pend # "no"}
\* (mutant) The steps a crash cut wait for the next request.
BootBare ==
  /\ ~server /\ server' = TRUE
  /\ UNCHANGED <<open, heard, pages, up, disk>> /\ Calm
Boot ==
  /\ ~server
  /\ IF Pending = {} THEN server' = TRUE /\ UNCHANGED <<card, log, ledger, verdicts>>
     ELSE (\E c \in Pending : WritesStep(c)) /\ UNCHANGED server
  /\ UNCHANGED <<open, heard, pages, up, session, stored, wrap, seen>> /\ Calm

Tab(c) == Begins(c) \/ Ends(c) \/ Drops(c) \/ Leaves(c) \/ PageCrashes(c) \/ Opens(c) \/ Posts(c) \/ Registers(c)
Upload(c, g) == TakeIn(c, g) \/ Land(c, g)
Person(c, r) == Act(c, r) \/ Confirm(c, r) \/ More(c, r) \/ Good(c, r)
Next ==
  \/ \E c \in Cap : Tab(c) \/ Expires(c) \/ FinishStep(c) \/ Runs(c) \/ CrashLanding(c)
  \/ \E c \in Cap, g \in Gen : Upload(c, g)
  \/ \E c \in Cap, r \in 1..MaxRev : Person(c, r)
  \/ SealRecord \/ EndSession \/ Crash \/ Boot

Spec == Init /\ [][Next]_vars

-----------------------------------------------------------------------------
\* Every variable holds what the code can hold; a step in progress is on a card in its state, a
\* landed page's hold is over, and an ended session is not sealed twice.
States == {"none", "draft", "confirming", "queued", "kept", "review", "failed", "done", "dropped"}
TypeOK ==
  /\ page \in [Cap -> {"no", "recording", "kept", "left", "landed", "gone"}] /\ gen \in [Cap -> Gen]
  /\ marked \in [Cap -> BOOLEAN] /\ auto \in [Cap -> BOOLEAN]
  /\ told \cup held \cup open \cup heard \cup stored \cup wrap.caps \subseteq Cap /\ held \subseteq {c \in Cap : Live(c)}
  /\ up \in [Cap -> [Gen -> {"no", "way", "pin", "in"}]] /\ (Landing # {} => server)
  /\ events \in 0..MaxEvents /\ stops \in 0..MaxStops /\ (wrap.sealed => ~session)
  /\ \A c \in Cap : /\ card[c].st \in States /\ card[c].words <= card[c].rev
                    /\ card[c].pend = "no" <=> card[c].st # "confirming" /\ (card[c].st # "review" \/ verdicts[c] = 0)

\* finishIn, recover: what is sent is bound.  The comment of a capture that was confirmed and the words it was
\* confirmed with are in the log and owned, and so is every ask of More work, wherever a crash cut the step:
\* claim refuses none of them.
Sent(c) == card[c].st \in {"queued", "kept", "review", "failed", "done"}
BoundWords ==
  \A c \in Cap : Sent(c) => Valid(c) /\ Comment(c) \in log \cap ledger

\* good, moreWork, endStep: a run is decided once.  Looks good, More work, and a capture of its review sending
\* it back, from any tabs and in any order, a crash between them or not, count once between them.
DecidedOnce == \A c \in Cap : verdicts[c] <= 1

\* confirm: nothing is sent that who sent it did not see: a note or an edit of another tab that came first
\* makes the request stale.
WordsAsSeen == \A c \in Cap : Sent(c) /\ seen[c] > 0 => card[c].words <= seen[c]

\* capture, landCapture, captureOpen: a page forgets its capture once it is stored and has its card, and what it
\* says of the session is so: told that the session ended without it, it is in no record; not told, it is of
\* the session.
Accounted ==
  \A c \in Cap :
    /\ page[c] = "landed" => c \in stored /\ Has(c) /\ (marked[c] => c \in told \/ card[c].ses)
    /\ c \in told => ~card[c].ses /\ c \notin wrap.caps

\* wrapup, openFor: the record waits for every capture of the session a page holds, recording, sealing or sending,
\* and the server was told of, as long as no minute goes by without a renewal; and for one being taken in.
\* It waits for each until its card is made.
RecordWaits ==
  [][wrap' # wrap => \A c \in Cap : marked[c] /\ (c \in Landing \/ c \in heard \cap held) => Has(c)]_vars

\* wrapup, landCapture, recover: a capture ended with E that landed in the session is in its record, confirmed,
\* unless it was dropped: never left out as one still being confirmed.  Nothing is said of a capture that landed
\* outside the session; Accounted says what its page is told.
InRecord ==
  wrap.sealed => \A c \in Cap : auto[c] /\ card[c].ses => c \in wrap.caps \/ card[c].st = "dropped"
=============================================================================
