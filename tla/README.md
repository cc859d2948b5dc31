# A TLA+ verification of marver

Marver is a local-first design canvas: a dev server shows a project's pages as
frames on boards, people comment on frames, and coding agents on the same
machine answer the comments by editing the project (Live Jam).  The parts that
are hard to get right are not the rendering: they are the queue that turns
comments into agent runs, the runs that the owner's own chat sessions may take
over, the files that outlive a crash, and the merges of what several devices
wrote.  This directory keeps TLA+ models of those parts beside the code, the TLC
configurations that check them and TLAPS proofs about them.

Paths below are the repository's; `jam/` stands for `src/server/jam/`.

- [Inventory](#inventory)
- [Plan](#plan)
- [JamQueue](#jamqueue)
- [JamRuns](#jamruns)
- [JamCaptures](#jamcaptures)
- [ExclusiveFile and ExclusiveLock](#exclusivefile-and-exclusivelock)
- [DevStart](#devstart)
- [TabGuard](#tabguard)
- [The runs](#the-runs)
- [Fairness](#fairness)
- [The proofs](#the-proofs)
- [What the models found](#what-the-models-found)
- [Not modelled](#not-modelled)
- [Running it](#running-it)

## Inventory

### Live Jam (`src/server/jam/`, `docs/live-jam.md`, `docs/jam-session.md`)

The centre of the system, and of this project.

| Part | State | Operations | What is hard |
|---|---|---|---|
| **Queue** `queue.ts`, `types.ts` | the journal: cards (queued, working, asks, failed, done, dropped, and for captures draft, confirming, review, kept), batches, `seen` | `ingest` (tags, plain replies, resolves), `act`, `requeue`/`merge`, `form`, `settle`, `fail`, `undelivered`, `redelivering`, `prune`; all under one lock that ingests first | several events of one thread that meet in any order; every end of a run must look at what happened to its cards meanwhile |
| **Daemon** `daemon.ts` | jobs in memory: running batches, `delivering`, permits, the startup barrier | `pump`, `launch`, `runBatch`, `deliver`, `redeliver`, `recover`, `act`, `finishIn`, `tick` | callbacks over shared maps, posting that fails half way, a stop between any two writes, retries by timers and by the owner at once |
| **Session runs** `runs.ts`, `conn.ts`, `transport.ts`, `listener.ts`, `permit.ts` | offers and claims on batches with a generation, session connections, receipts, places (`sessionMax`) | `choose`, `publish`, `own`, `next`, `progress`, `say`, `done`, `answerAll`, `release`, `mute`, `act` (again, background, drop), `tick` | a run has one owner at a time although a session, the owner and timers all move it; old handles; lost answers; restarts |
| **Captures and records** `capture.ts`, `session.ts`, `packet.ts`, `live.ts` | capture cards' steps, drafts, session records | confirm, More work, Looks good, `finishIn`, `seal` | three files written in turn; two tabs; a stop between any two |
| **Ledger** `ledger.ts` with the route in `api.ts` | the entries this device authorized | append on the owner's own write | the entry is in the log before it is in the ledger; an entry that came by sync is never in it |
| **Journal** `journal.ts` | `jam/journal.json`, the jam lock | atomic write, `acquireLock`, `releaseLock` | reclaiming a dead holder's lock |
| **Holds and presence** `work.ts`, `jam/activity.ts`, `jam/reserve.ts` | which frames a chat agent works on | `marver work`, `refuseHold` | holds against runs that start, settle or wait to be alone |
| **Adapters** `jam/agent.ts`, `jam/adapter/` | none of their own | spawn an agent, parse its output | data, no protocol |
| **Audio and speech** `jam/audio.ts`, `jam/speech-*.ts` | models on disk, a worker | cut, transcribe | signal processing |

Interactions: the page writes comment entries through `api.ts`, which appends
them to the comment log and then ledgers them; a watcher and a rescan poke the
daemon, whose queue ingests them under its lock; the pump claims queued cards
into batches; a batch's job spawns an agent or waits for a session that takes
it; the results are saved in the journal in one write, then posted to the
comment log, then the cards settle.  `marver work` holds and session claims take
frames away from the pump.  The page sees the queue as numbered views
(`client/shell/jam-queue.ts`).

What makes it correct: no owner's ask is lost or done twice; no frame has two
runners; saved work is never done again, and its words are posted once; a card
shown as working is worked on; whatever started comes to an end, and whatever
waits starts; a restart continues all of it.

### The server around it (`src/server/`)

| Part | State | Operations | What is hard |
|---|---|---|---|
| **Exclusive files** `exclusive.ts`, `dev-lock.ts`, `slots.ts`, `startup.ts` | a lock file, its `.reclaim`, slots | `takeExclusive`, `releaseExclusive`, `takeDevLock`, `place` | several processes, none of which may assume it is not stopped between two file operations |
| **Comment log, sync, collab** `comments.ts`, `sync.ts`, `collab.ts`, `src/shared/` | append-only logs per board, cursors, tombstones | append by union of ids, pull, push, moderate | two writers, torn lines, an entry that arrives twice or late |
| **Boards, marks, notify** `boards.ts`, `board-writes.ts`, `marks.ts`, `notify.ts` | board files with revisions, marks, unread state | rename, move, delete, write if unchanged | files edited by people and by the canvas |
| **Dev server** `dev.ts`, `startup.ts` | the folder's lock, a slot, dev.json, Vite's server and its sockets | start, restart, close, the ways out | a close, a signal or a failure at any await of a start or a restart |
| **API** `plugin.ts`, `api.ts`, `app-live.ts` | watchers, tokens | routes over the parts above | plumbing |
| **Sharing and sign-in** `share.ts`, `serve.ts`, `auth.ts`, `marver-id*.ts` | invitations, sessions, keys | invite, accept, revoke | expiry and revocation |
| **Build, bake, publish** `build.ts`, `bake.ts`, `publish-*.ts`, `manifest.ts`, `shot.ts` | outputs | pure transformations, a browser | I/O |
| **Performance records** `perf*.ts` | records | measure, report | none |
| **Command line** `src/cli/` | none | thin clients of the server | `jam next`/`jam done` belong to session runs |

### The page (`src/client/`)

The shell keeps the canvas store, the comments store, the queue's last view, a
capture in progress and its recorder; `frame-host`, `stage` and `content` render.
Hard: views that arrive out of order and across restarts (`jam-queue.ts`), a
capture that is saved, refused and retried (`jam-capture.ts`), what is unsaved
when a page goes away (`unsaved.ts`).  Correct: no older view replaces a newer
one; nothing recorded is lost without the owner's word.

### The Mac app (`app/src/main/`)

An Electron app with windows, tabs, views on local and remote canvases, a
recorder, sessions, an updater and a mover that installs the app in its place.
Every way the app replaces a page's document goes through one guard (`tabs.ts`).
Hard: what happens to a document between the sheet that asks about it and the
act; a hidden tab's unload, which cannot be called back; shutdown, where a quit,
an update's restart, unloads and pages that refuse or hang overlap
(`shutdown.ts`, `unload-act.ts`, `update-model.ts`); the mover's staging.
Correct: no document goes unasked; one shutdown is under way at a time and ends;
the app never ends over a document; a refused shutdown leaves nothing half done.

`templates/`, `tour/`, `scripts/`, `research/` and the tests are not part of the
program's logic; the docs and tests are read beside the code.

PROJECT.json lists every component with its status, and the hazards at their
lines: the steps a test would hardly reach.  The properties below are there for
those.

## Plan

In the order of what matters most to the program.  A module that will be proved
about has no RECURSIVE operator, takes its limits as constants with named
assumptions, has one action per operation of the code and an invariant made of
named parts.

1. **JamQueue** (done): cards, batches, delivery, crash and start, for comment
   cards and spawned agents.  Proofs in `JamQueueProofs` and `JamAsksProofs`; those of
   the modules below are in a module `...Proofs` of each.
2. **JamRuns** (done): batches whose runner is a chat session - offers, claims and
   their generations, release, stop, drop, withdraw, back to the queue, the
   permits of fallen-back runs, the places of a session, restarts that keep
   claims.  It takes JamQueue's cards for granted.
3. **JamCaptures** (done): captures in their pages, landing, the steps of a
   capture's card with stops between their writes, and the session's record.
4. **ExclusiveFile** (done): the lock files one file operation at a time, shown to
   implement **ExclusiveLock**.
5. **DevStart** (done): `marver dev` over that lock: slots, Vite's restart, every way
   out.
6. **TabGuard** (done): the Mac app's guard, unloads, shutdown and update restart.
7. Next, each a hazard without a property in PROJECT.json: **Transport** (a session's
   signed requests and receipts, sent again when an answer is lost), **CommentLog**
   (union by id between two devices and a server), **JamView** (the page applying
   views in order), **Holds** (`refuseHold` with the pump's reservations).

Theorems worth proving next: every safety property and action property of the runs is
proved (see [the proofs](#the-proofs)).  The next theorems come with the modules of
item 7; each module's invariant is to be proved as soon as it is checked.

## JamQueue

`JamQueue.tla` models the queue and the part of the daemon that runs what the
queue claims, for cards made by comments, with agents that Marver spawns.

| Variable | In the code |
|---|---|
| `log` | the comment logs in `design/comments`, as one sequence; an entry's place is its id and its time |
| `ledger` | `ledger.ts`: entries authorized on this device |
| `seen` | `journal.seen` |
| `card`, `batch` | `journal.cards`, `journal.batches`; a card is named by the tag that minted it |
| `phase` | where the job of a batch stands: `runBatch` up to the permit (`run`), between spawns (`agent`), posting (`post`), waiting for the next try (`retry`); `deferred` is a recovered batch not launched yet |
| `tries` | redeliveries the job began; positive while the batch is in `delivering` |
| `said` | `early` of `runBatch`: the line its agent said early, and in which attempt |
| `boot`, `barrier` | the start: down, delivering what had results, up; `barrier` is that loop's place |
| `crashes` | bound only |

| Action | In the code |
|---|---|
| `Write`, `Ledger` | the owner's entry appended by `api.ts`, then ledgered; between the two the queue may look, and the second may never happen |
| `Ingest` | `ingest`: `tagged`, `answered`, `resolved`, the oldest eligible entry first |
| `Drop`, `Retry`, `RetryDelivery` | `act` of the page: `retry` takes saved replies to `redelivering` and anything else back to the queue |
| `FormAlone`, `FormOnFrames` | `pump` with `form`: the exclusive card when nothing runs, or one batch for each of the first free frames |
| `Spawn`, `Respawn`, `Fail` | `runBatch`'s permit, attempts and failure |
| `SaysEarly` | `runAgent`'s first line of an agent with one card, posted while it works |
| `SaveResults` | the results with the early line in one write: whether the reply repeats it (`same`: `sameAsEarly`), whether it asked already (`asked`: `earlyAsked`) |
| `Post`, `Flags`, `Settle`, `PostingFails`, `Redeliver`, `Undelivered` | `deliver` - a reply is appended, or is the early line, flagged if it asks - with `settle`, `redeliver`'s later tries, `undelivered` |
| `Crash` | the process stops anywhere; files stay |
| `Recover`, `Reconcile`, `Barrier*`, `Ready`, `LaunchDeferred` | `recover`: a batch whose packet is gone fails, batches with results are delivered one by one before anything starts, then the rest is launched |

What is taken more coarsely than the code, and why that loses nothing the
properties could tell apart:

- *The lock.*  Work under the queue's lock is one step.  It begins with an ingest,
  so those actions wait until nothing is eligible (`Locked`) and `Ingest` takes
  in one entry at a time.
- *Revisions.*  `act` is refused unless it names the card's revision, so an action
  that applies sees the card as it is; refused ones change nothing.
- *Which failed card* a tag closes is the last to fail in the code; any here.
- *Tries.*  `MaxTries` stands for five redeliveries and for four tries at the start.
- *Two jobs of one batch.*  Retry can start a delivery while the barrier has one;
  those two are modelled.  Two jobs that both post one batch are one here, as
  every append but the first of a reply is none and the second settles nothing.
- *An agent's answer* is any result for each member; `validate` passes.
- *Words* are compared only as `deliver` does: a saved reply may be that of the early
  line or not, and a line that is not flagged may still have asked (a question mark).
- *When `deliver` looks for an early answer* is the post or the settle: the try that
  settles found at its post what the log says of the reply (`AnsweredAtPost`), or
  finds now what is so (`AnsweredEarly`).
- *Batch ids* are never used twice; `OutOfIds` tells where the bound bites.

Left out of this module: captures and session records (the states draft,
confirming, review, kept), edits of a card's text, pruning after a week,
session-held work (and with it the early line of a session, which is journaled
first and posted by `ensureEarly`), a line in the pipe of an agent that was stopped,
the note of shared files a reply changed (`alsoChanged`), chat holds, several
boards.  The start also drops members whose asks are no longer authorized
(`daemon.ts:1310-1330`): as the log and the ledger only grow here, there are none.

### Properties

| Property | What would break it |
|---|---|
| `OneQueuedPerThread` | a requeue, a merge and a new tag on one thread |
| `NoAskLost`, `NoAskTwice` | a merge that drops a card's asks, or two cards that both have one |
| `WorkingIsClaimed` | a restart, a failed delivery or a Retry that leaves a card working for nobody |
| `ClaimedIsRunning` | a start that forgets a claimed batch |
| `FramesApart` | a recovered, merged or exclusive batch beside another on its frame |
| `RepliedIsPosted` | a posting repeated by the job, the barrier and Retry; a reply that is the early line posted beside it, or held back for a line that is not the same |
| `SavedIsNotRerun`, `ResultsStand` | an agent started, or an answer taken, for a batch that has results |
| `AskingIsUnanswered` | a plain answer that arrives before the question's card settles, or before the question is posted, to the line that asked it early |
| `BatchesEnd`, `QueuedMoves` | deliveries, starts and exclusive cards that wait on each other |

`NoAskLost` counts what the queue took in.  An entry whose ledger line is never
written (a stop between the two writes) is not such an ask: it stays in the thread
and starts nothing.  `AskingIsUnanswered` counts plain replies after the question's
place, which is the early line's where that is the reply.  A question that the early
line asked in other words and that was answered since is posted as not asking, and
its card does not come to ask (`AnsweredEarly`): the property says that the question
of a card that asks is flagged.

## JamRuns

`JamRuns.tla` models who runs a batch: `runs.ts`, and of `daemon.ts` the parts
that call it (`pump`, `runBatch` around the choice of a runner, `recover`).

| Variable | In the code |
|---|---|
| `req` | a card as far as a run cares: waiting, working, over; the frames it names and what it brought back from a run that left its session (`alone`) |
| `batch` | `journal.batches` with `runner`, `offer`, `claim` (its session, `gen`, `stopping`, whether `result` is there), `handoff`, `share`, `dropped` |
| `job`, `pick` | where `runBatch` stands, and the session it chose before it had the lock |
| `usable`, `gone`, `sel` | the connection files: who may take work, whose process is gone, who takes the work now |
| `jam`, `settings` | `journal.session`; `jam.runner` ('auto' or 'session', read when the server starts) and the start sheet's context |
| `given`, `working` | not in the daemon: the handles sessions were given, and those they work under |

| Action | In the code |
|---|---|
| `Pump` | `pump` with `form`: one pass, what runs alone first, else everything the pass may start; a request may share frames with runs of the session that takes the work |
| `Start`, `DropFails`, `Asks` | `runBatch`'s choice (`choose`), then `run` under the lock, which looks at room and frames again |
| `Back`, `Leaves`, `Routes`, `Spawns`, `Saves`, `AgentFails`, `Delivers` | the way of a run no session ran: back to the queue, or its runner saved, a permit, an agent, results, replies |
| `Takes`, `TakesNot`, `Release`, `Done`, `Own` | `marver jam next`, `release`, `done`, `own`, with `claimOf`'s checks |
| `Act`, `FinishStop` | the owner's again, background and drop, from any page that knows the generation |
| `Withdraws`, `SpawnsWaiting`, `OffersWaiting` | `tick` |
| `Connects`, `TurnsAway`, `Ends`, `Chooses`, `JamTurns`, `ContextTurns` | the people and their sessions |
| `Crash`, `Recover`, `Ready`, `Launches` | as in JamQueue; what a session holds is kept as the session saw it |

Abstractions:

- *A session is one incarnation of a connection*; `claim.inc` and `offer.inc` are
  compared everywhere with the connection, so a restarted one is another session.
- *Each request is of a board of its own*, so none joins another's batch
  (`form` joins cards of one board); order in the queue is the request's number.
- *Every session may be offered work* (`offerable`: Claude Code always; Codex and
  Cursor while a turn runs, which here is turning away and back).
- *Timers*: an offer may be withdrawn at any time unless runs wait for sessions.
- *A call is taken once.*  Repeated requests get their receipt; that is Transport's.
- *`next` looks at one offer at a time*: those it must not take go back one by one.
- *Delivery succeeds* (its failures are JamQueue's), and Retry of a failed card is
  left out, as are `say` and `progress`, stalls and pictures, which move no run.
- *The lock is first come, first served*: from the check that sends a run back to
  the save of its runner no run formed meanwhile can be offered before it (`Start`
  waits for `routes`).

| Property | What would break it |
|---|---|
| `WorkersAreKnown` | an owner's move that does not wait for the session, a restart or a withdrawal that forgets who holds a run; a drop read at one place and not at another |
| `OneRunner` | an agent spawned beside a run on its frame, a run offered to a session beside another's, a frameless run that spawns beside others, anything started beside an exclusive one |
| `OffersFit` | two runs that both saw a session's last place |
| `HandedBackStands` | a release, a stop or a restart after `done` |
| `RunsEnd` | offers nobody takes back; an end of waiting that does not wake the waiter; runs that keep a frame and wait for one another |

## JamCaptures

`JamCaptures.tla` models a capture from the key that begins it to the session's
record that holds it: the page (`client/shell/jam-capture.ts`), the daemon's
landing, steps and record (`daemon.ts`), the card (`queue.ts`), and what is on
disk (`capture.ts`, `session.ts`).

| Variable | In the code |
|---|---|
| `page`, `gen`, `marked`, `auto`, `about`, `told`, `held` | a capture in its page: `caps`, `sealed` and `localStorage`; which page has it; `Cap.session`; ended with E; what it resumes or reviews; `toldOutside`; `openOnServer` |
| `up` | the upload of each page that had it: on its way, waiting for the pin (`pinOf`), waiting for the lock |
| `open` | the daemon's `openCaps`; `landing` is what `up` shows |
| `session`, `stored`, `card`, `log`, `ledger`, `wrap` | `journal.session`, the capture files, the card, the comment log, the ledger, the record: what a stop leaves |
| `heard`, `seen`, `verdicts` | history: whom this server told ok, the revision a card was sent at, how often a review was decided |

| Action | In the code |
|---|---|
| `Begins`, `Ends`, `Drops`, `Leaves`, `PageCrashes`, `Opens`, `Posts` | `begin`, `end` and `trySeal`, `drop`, `sealOnLeave`, a crash, `resendSealed`, `upload`'s retry |
| `Registers`, `Expires` | `captureOpen` with its answer; 60 s without a renewal, the page being gone or its renewals not arriving |
| `TakeIn`, `Land` | `capture`/`landCapture`: stored and owned, then the lock: `addCapture`, for E with the whole step |
| `Act`, `Confirm`, `More`, `Good`, `FinishStep` | the owner's actions with the revision their page saw, and `finishIn` |
| `Runs` | a run of the card, as `form`'s checks let it (JamQueue has its steps) |
| `SealRecord`, `EndSession` | `wrapup` |
| `Crash`, `CrashLanding`, `Boot` | a stop between any two writes of a step, and `recover` finishing what it cut |

| Property | What would break it |
|---|---|
| `BoundWords` | a step cut between the comment, the ledger line and the card, resumed without one of them |
| `DecidedOnce` | Looks good, More work and a capture of the review, each on its own view of the card |
| `WordsAsSeen` | a note of another tab between the view and the confirmation |
| `Accounted` | an upload that comes after the session ended, its answer lost, its page replaced |
| `RecordWaits` | a record sealed while a capture is recorded or kept by a page whose hold has not lapsed, or is between its pin and its card |
| `InRecord` | a start that leaves a cut step for later, when the record leaves confirming cards out |

A hold lapses whether or not the page still has its capture: then the record need not
wait, and the page is told at its next request that the session went on without it.
`InRecord` speaks of captures that landed in the session, not of those left out of it;
what the page of such a one is told is `Accounted`.

Abstractions: words are the revision of the last edit; a run is one step; a
failing run, its retry, renames that move nothing and the card that writes the
record are left out, as is a capture begun with no session.  `MaxEvents` bounds what
goes wrong or is done over: a lost answer, a page gone, an edit, a drop, the
session ended without a record.

## ExclusiveFile and ExclusiveLock

`ExclusiveFile.tla` is `takeExclusive`/`releaseExclusive` (`exclusive.ts`), the jam
lock (`journal.ts`) and the listener's lock (`listener.ts`) as single file
operations between starts that may be stopped or killed anywhere.  `kind` says
which of the three a behaviour is about: they differ in what they compare (an
instance, a pid), in how a file gets its content, in who clears a reclaim file
that was left behind, and in the second round only `takeExclusive` has.

| Variable | In the code |
|---|---|
| `file`, `written`, `reclaim` | whom the file names, whether its content is there yet, `<file>.reclaim` |
| `alive`, `pid` | processes and their pids; the system may give a dead one's pid again |
| `pc`, `seen`, `round` | where a start stands, the holder it read, `takeExclusive`'s round |

The actions are named for what they do to the files: `Creates`, `Reads`, `Checks`,
`Claims` (the reclaim file), `Again` (the holder read under it), `Unlinks`,
`Recreates`, `Tidies`; `Releases` and `Removes`; for the listener `LooksFirst`,
`HandsOver`, `Rewrites`, `Writes` and `Yields`.  A file that names nobody, which
both locks refuse at once, is left out.

`OneHolder` (one holder, and its file names it) is claimed for "dev" always and for "jam" as long as
no pid a start still goes by comes back (`Sound`): jam.lock compares pids only.
`SomeoneWins` says that starts do not turn each other away all at once.
`ImplementsLock` is the refinement: with `holders` mapped to the starts that go by
the lock, every step of the "dev" kind is a step of `ExclusiveLock` or none.  DevStart
then takes the lock in one step.

## DevStart

`DevStart.tla` is `dev()` (`dev.ts`) with `Startup` (`startup.ts`), the slots
(`slots.ts`) and dev.json (`work.ts`).

| Variable | In the code |
|---|---|
| `lock`, `slot`, `info`, `traces` | dev.lock, the slot files with their state, dev.json, what every `marver dev` writes in a folder |
| `port` | who listens on each slot's port; another program may |
| `pc`, `tried`, `at`, `first`, `served` | where a start stands, the slots it was refused, its slot, `!ranBefore`, `served` |
| `cur`, `new`, `cleaning`, `late` | the server in the start's place, a restart's new one until it settles, the constructions restarts still close |
| `ending` | `end` was called |

Actions follow the code from `Begins` and `Locks` to `Serves`; `Restarts`, `MakeFails`,
`Made`, `OldCloses`, `NewBinds`, `NewFails`, `Disposes` are what a close can meet
of Vite's restart; `CloseAsked`, `Closes`, `Awaits` and the `Returns...` are
`Startup.close`; `Signal` and `Dies` the ways out that wait for nothing.  Everything
between two awaits is one step.

| Property | What would break it |
|---|---|
| `ClaimsOutlastServers` | an end that gives the files back while a restart's server may still bind |
| `ReadyServes` | a way out that closes before it says so |
| `FolderTells` | a start that leaves or removes another's dev.json; a failed start that forgets what others left, or leaves its own |
| `NeverHangs` | an end and a restart that wait on each other |

Left out: ports outside the slots, `--recover`, the preferred slot (any order is
allowed), the look at a dev.json from before dev.lock.

## TabGuard

`TabGuard.tla` is the Mac app's guard (`tabs.ts`), the act in a tab's webContents
(`views.ts`), the unload (`unload-act.ts`), the shutdown coordinator
(`shutdown.ts`) and what it meets of the update model (`update-model.ts`).
JavaScript runs one task at a time, so a step is a task; what a settled promise
resumes goes first (`Hurry`).  Pages and Chromium are free.

| Variable | In the code |
|---|---|
| `active`, `ready`, `wc`, `loading`, `word`, `unload`, `due` | the tab in front; each tab's canvas, webContents, load, what its document said (`freshClean`, `freshUnsaved`, stale), `Tab.unload`, the task that decides a reopen |
| `op`, `queue` | `Tab.replacing`, and the actions that wait for its unload |
| `sweep`, `stuck`, `end`, `update` | `guardAll` under way, the stuck sheet, the coordinator after the answer, the update model's phase |
| `answered` | history: which document the person was asked about and said yes to |

| Property | What would break it |
|---|---|
| `NothingUnasked` | an act after a sheet that does not read the document again |
| `QuitLeavesNothing` | a document that comes while a quit waits for its last close |
| `UnloadKeepsTab` | an action that does not wait for an unload; a tab activated while it closes, or during a quit that is refused; a close that hands over to an unloaded tab |
| `ShutdownEnds` | a page that never answers, an unload that never ends |

A canvas that stops comes back in one of two ways.  `Rebinds`: a new instance (on the
tab's own address at once, under an unload's close too; on another address once the
close is over) or one that was starting becomes ready, and the tab in front loads.
`ToldAgain`: the same instance is told again, and nothing is loaded.  So a tab may
wait (`Waits`), unloaded in front of a person over a canvas that runs;
`UnloadKeepsTab` says that no other step brings that about.  `Closes` is the rest of
`closeTab` after the guard: the neighbour of a closed tab comes forward and loads.

`QuitLeavesNothing` is checked where the quit is decided; from then on the model's
documents stand still, as nothing in the code looks at them again.

Left out: Home and Settings, shared canvases (documents that never report), the
layout, the crash latch, a document that refused one unload being spared the next,
and the checks before a download.

## The runs

All limits but those named are the same: two threads on one frame, two batch
ids, `Concurrency` 2, two members in a batch, one spawn in a run, one try, two
owner entries, no early line, one crash.  `CHECK_DEADLOCK FALSE`: the owner may write nothing
more, and then the system rests.

| Run | Bounds that differ | Shows |
|---|---|---|
| `JamQueueCrash` | one early line | the crash and delivery properties, the merges of a question, a failed card and a queued one, `FramesApart` with a recovered batch beside a new one |
| `JamQueueEnds` | one thread, fair | `BatchesEnd`, across a crash and its barrier |
| `JamQueueMoves` | one framed and one frameless thread, two spawns, fair, no crash | `QueuedMoves`: an exclusive card behind others and others behind it |
| `JamQueueTwice` | two frames, three batch ids | see the findings |

Why these are enough.  Every action needs at most two batches at once: the
barrier works on one while another waits, a frame in use refuses one more.  A
second batch id also lets a card run, fail and run again, which is what the
rerun properties need.  A second crash begins from a state the first one can
reach, as the process keeps nothing.  One try and one spawn visit each branch of
the retry loops (first try, again, given up); more only repeat them.  One
early line is every kind of one: the reply itself, a question in the same words or in
others, or neither.  In the invariants' case the proofs remove the bounds altogether.
Batch ids and, on one frame, the two threads are symmetric in the safety runs; the
liveness runs use no symmetry.

The runs of JamRuns have two requests, two batch ids, two sessions, one permit, a
run taken at most twice, three changes of who takes work, either `jam.runner`.

| Run | Bounds that differ | Shows |
|---|---|---|
| `JamRunsCrash` | one request on a frame and one frameless, sessions of one place, one crash | who holds a run and its frame (`WorkersAreKnown`, `OneRunner`, `OffersFit`), drops and handed-back words; only with 'session' is a run that was let go of taken again |
| `JamRunsEnd` | both on one frame, sessions of two places, no crash, fair | `RunsEnd` |

Two runs are enough for every conflict of two runners; two sessions let one be full
while the other is chosen.  Three changes are what the wait of two runs on each
other needs: a session connects, the Jam session begins, another takes over.  A
run taken twice has an old handle and a new one.

| Run | Bounds | Shows |
|---|---|---|
| `ExclusiveFile` | three starts and a dead holder, each kind of file, one pid that comes back | `OneHolder`, `SomeoneWins`, the refinement |
| `ListenerTwice` | the listener's file only | see the findings |
| `DevStart` | two starts in one folder or two, one slot, a port taken once, one restart, fair | all of DevStart |
| `TabGuard` | two tabs, closes, loads and Restart to Update, one event | the guard's properties |
| `TabGuardEnds` | two tabs, Restart to Update, unloads, no event, fair | `ShutdownEnds` |
| `JamCaptures` | two captures, two pages each, one event, one stop, revisions to 5 | all of JamCaptures |

Three starts let one be overtaken by a second while a third takes what the two
left.  Two marver dev meet at each file; a restart that fails, binds late or is
overtaken by a close shows every branch once.  Two tabs are one that closes and one
that comes meanwhile; Restart to Update passes every branch of a quit and then its
own; the one event is a document's change at the worst moment.  Two captures are
one and the one that resumes or reviews it; a second page is the retry, a third
repeats it; five revisions reach a review sent back and decided again.  None of
these runs allows a deadlock check: the processes may all be over.

Each property of a passing run has a mutant in PROJECT.json: an operator beside
the one it would replace (marked "Mutant" in the module) that makes a plausible
mistake of that code, and with which TLC finds the property violated.

## Fairness

`Fairness` assumes only what the daemon's scheduling gives:

- `Ingest`, weak: the watcher pokes the queue and a rescan repeats it.
- A batch's own steps, weak: an agent that does not answer is stopped after
  `JOB_TIMEOUT` and posting is tried at once or after a timer (`redeliver`).
- The start's steps, weak: they run on from each other.
- What the pump starts, and the launch of a recovered batch, strong.  The pump
  runs whenever a batch ends and does nothing while a delivery is under way
  (`daemon.ts:1159`); the owner's Retry can begin another delivery again and
  again, so weak fairness would not do, but a delivery that ends pumps in the
  same turn, before any other request is served.

For JamRuns: a job's own steps and the timer's (`tick` runs every few seconds),
the pump and the start, all weak.  `Spawns` is weak too: permits are handed out
in turn, and with finitely many batches one comes free for good.  Nothing is
assumed of a session, which is a chat of the owner's: a run in its hands waits for
it, or for the owner.  With `jam.runner` 'auto' every other run comes to an end.
With 'session' runs wait for sessions by design, and `Excused` in the module names
when: no session takes the work, or one has an offer or a claim.

For DevStart: a process that runs goes on with its start, its restart, its cleanups
and its end, and a signal raised again ends it; nobody need restart, close or kill.
For TabGuard: a settled promise resumes, `guardActMs` and `quitWaitMs` run out, the
person answers a quit's sheet (it is modal to the app), and `quitAndInstall` exits
or fails (`restartWaitMs`).  Pages promise nothing, not even that they close.

Nothing is assumed of the owner, of sync, of the ledger or of a crash.

## The proofs

Seven modules hold theorems, one beside each component (JamQueue has two).  Each
proves, for every value of the constants, the safety invariants and action
properties its runs check; PROJECT.json lists the theorems.  All are laid out
alike: the inductive invariant `IInv` in named parts, `Init => IInv`, lemmas about
the operators the steps share, then lemmas per action or kind of step, `Inductive`
by the disjuncts of `Next`, and the theorems at the end.  Each `IInv` was checked by
TLC on the run of its component before it was proved.

The assumptions are those the modules state of their constants, as `ASSUME`s that TLC
evaluates on the runs: the "no" and "none" values are not members of the sets they
stand beside, limits are naturals, a thread sits on one frame or none
(`JamQueue`), there is at least one process (`ExclusiveFile`), slots are positive
numbers (`DevStart`), a tab's actions are closes and loads and the app's ends are quits
and updates (`TabGuard`), and the batches of `JamRuns` are finitely many, as the places
a session has in use are counted.

### JamQueueProofs

`TypesHold`, `OneQueuedHolds`, `WorkingHolds`, `ClaimedHolds`, `FramesApartHolds`.
Why a strengthening is needed, part by part:

- `OneQueuedPerThread` alone is not kept by a requeue of several members: two
  members of one thread would both become queued.  `MembersApart` says a batch
  has one card of a thread at most - true because it was formed of queued cards.
- `WorkingIsClaimed` is not kept by a failure or a settle unless the job's batch
  is the claimed one its cards name: `JobsFit` ties each phase of a job to what its
  batch holds (no results before `post`, results from there on, nothing at all
  while the process is down).
- Retry and the barrier both put failed cards back to work.  `TodoFits` says that a
  batch the barrier has not come to, if a job had it already, has no card left
  to put back: otherwise the barrier would work cards of a batch that is done.
- `FramesApart` speaks of spawned agents only, and a restart empties that set;
  `ClaimsApart` says the same of all claimed batches without results, which is what
  recovery launches and what the pump's reserved frames stand for.  The step
  from one to the other goes through `ClaimedIsRunning`.

The layout: lemmas about `Requeue`, `Settled` and `SettleCards` as functions on
cards; lemmas for kinds of step (an append to the log, a step of the process
alone, a step of the cards); one lemma per action or family of actions, with a
step for each conjunct it can disturb.  Operators on the moves of cards are given
to the later lemmas as facts, not definitions.

### JamAsksProofs

The rest of JamQueue: `NoAskLostHolds`, `NoAskTwiceHolds`, `RepliedIsPostedHolds`,
`AskingIsUnansweredHolds`, `SavedIsNotRerunHolds`, and the action property
`ResultsStandHolds`.  Its invariant `JInv` stands on JamQueueProofs' `IInv`:

- `AsksHold`: asks are entries taken in; a card that is not over has no note; two
  such cards share no ask; every tag is an ask of a card that was not merged away.
  It is stated of any cards and entries, so that the moves of cards (`Requeue`,
  `Failed`, `Settled`, `SettleCards`) are shown to keep it once each.
- `RepliesFit`: a reply is of a batch the journal has, each member has one at most,
  and a card noted as replied has one.  The middle part is why a delivery tried
  again posts nothing twice.
- `WordsKept` and `NothingWaits` are what `SavedIsNotRerun` needs: a batch without
  results holds all its members and has no words; a batch that is done has posted
  its own; a queued card has left its batch, and a card that may run again has no
  words waiting in a batch it left.  Between them a requeue can only meet words that
  are posted, or a batch given up, whose cards Retry delivers instead of running.
- `EarlyFits` and `AskedFits` are about the early line.  What a running agent said,
  and what a saved batch keeps of it, is an early entry of that batch in its only
  card's thread, and where it is the reply nothing else of the batch is posted beside
  it; and a reply posted as not asking, though its result asks, was answered early.
- `AskingIsUnanswered` needs `SeenLedgered`: a card begins to ask only when no
  authorized reply is newer than its question (the settle looks at the ledger's
  entries alone), and what the queue took in is authorized.

### JamRunsProofs

`TypesHold`, `WorkersAreKnownHolds`, `OneRunnerHolds`, and the action properties
`HandedBackStandsHolds` and `OffersFitHolds`.  The invariant says, of each run, who
it is with (`BatchOK`: never offered and held at once, never with an agent and a
session, nobody's when dropped) and where `runBatch` stands for it (`JobOK`); of two
runs with a frame in common, that beside one an agent has or is about to have no
session has or is offered the other (`Pairs`, with the moment between `routes` and
the write of the runner, which is where `OneRunner` alone fails); and of a session
at work, that it holds that run under that handle (`Works`).  Every step of a run is
first shown to be one of eleven abstract moves (`Freed`, `Offered`, `Taken`,
`Handed`, ...), and each conjunct is proved against those.

### JamCapturesProofs

`TypesHold`, `BoundWordsHolds`, `DecidedOnceHolds`, `WordsAsSeenHolds`,
`AccountedHolds`, `InRecordHolds`, and `RecordWaitsHolds`, an action property.
`CardOK` is what a card is bound to in each state (what was sent has its comment in
the log and the ledger; a verdict in progress is a review's, once); `Follows` says
that a capture which follows a review saw it with no step in progress, so that a
step since made a new revision - without it `DecidedOnce` is not kept by the step
that sends a review back; `PageOK` ties a page to what the server has of its upload;
`AutoOK` says a capture ended with E is confirmed as it lands, but for a crash in
between, until the start repairs it; `WrapOK` is the record's part.

### ExclusiveFileProofs

`TypesHold`, `OneHolderHolds`, `SomeoneWinsHolds`, and `FileImplementsLock`: the
lock of exclusive.ts implements `ExclusiveLock`, each step a step of it or none.
`Claiming` carries the argument of `OneHolder`: a holder is named by the file; who is
between its check and its unlink goes by a holder that is over, and at the unlink
the file still names that one.  `SomeoneWins` needs the whole round of the race
(`Race`): until someone has won the file is the dead holder's or gone, gone only
when a start is about to make it anew, and whoever is turned away leaves one that
reclaims.  It is proved of behaviours with no death and no pid that comes back, as
it is stated; the module's finding (`ListenerTwice`) is why `OneHolder` speaks of
"dev" and "jam" alone.

### DevStartProofs

`TypesHold`, `ClaimsOutlastServersHolds`, `ReadyServesHolds`, `FolderTellsHolds`.
`Locked`, `Published` and `InSlot` say that the three files name a start that has
what they stand for while it runs; `Sockets` that what listens is the server in
place or one that came up after the end had begun (and then a cleanup is pending,
which `ClaimsOutlastServers` rests on); `Restarted` gives which server is in place
from where a start and its restart stand; `Counted` that no more restarts are under
way than began; `Told` that a start knows from its first look whether a canvas had
run in its folder.

### TabGuardProofs

`TypesHold`, `QuitLeavesNothingHolds`, `UnloadKeepsTabHolds`, and the action property
`NothingUnaskedHolds`.  None of the last three follows from the steps alone:

- `QuitLeavesNothing` speaks of the end only, which is reached when the sweep finds no
  newcomer and nothing left to close.  `OpOK` says what that rests on: a quit has
  bound documents only while it asks or closes, and a tab whose close is over no
  longer holds the document that was bound - it holds none, or another one, which
  is then a newcomer.
- `NothingUnasked` compares the act with what the person answered.  `OpOK` ties the
  two while they are apart: as long as the document bound is the one the tab holds
  (`same`), one that is asked about was asked about here, and consent to it is a
  "yes" to it.  A commit clears `same` and the answer in one step.  The proof then
  goes by the ways an operation comes to its act (`Agreed`): after its sheet, at
  once, in the turn of a quit, and on after an unload.
- `UnloadKeepsTab` has a part about states, which is in `ViewOK` (an unloaded tab has no
  webContents and no operation; a page that an unload closes has its operation), and
  one about steps, `FrontStays`: whatever brings a tab forward, ends a quit's sweep or
  takes the reopen's turn (`sweepRefused`, `reopenIfShown`) loads the tab, or leaves
  something under way that will.  Every lemma about a step proves the invariant and
  `FrontStays` together (`Moves`).

### What is only model-checked

The liveness properties (`BatchesEnd`, `QueuedMoves`, `RunsEnd`, `ShutdownEnds`,
`NeverHangs`): TLAPS proves nothing from fairness or about ENABLED.  No safety
property or action property is left to TLC alone.

## What the models found

Two are runs expected to be violated, with their lines in PROJECT.json.

- **An agent can run twice for one result** (`JamQueueTwice`).  Retry while the
  startup barrier still delivers (or waits to deliver) the same batch starts a
  second delivery; the barrier may give the batch up, failing its cards, and the
  other then posts and settles it, after which a failed card's Retry finds no saved
  words and runs the agent again.
- **Two listeners can both hold a session's lock** (`ListenerTwice`).  A start under
  the reclaim directory takes a missing file for stale (`listener.ts:34`) and
  removes it by force (`listener.ts:52`); a fresh start may have created the free name
  in between, and then both have won, although "two starts that both saw it stale
  never both win".  The one the file does not name ends within a second
  (`listenCommand`'s look, `cli/jam.ts:202`).

Others were met while modelling; the modules follow the code, and no property
claims the words it differs from:

- A tag answers only one of two questions of a thread: `tagged` closes the first
  asking card it finds (`queue.ts:108`), although "a tag answers a card that asks"
  (`queue.ts:110`).
- A resolved thread's card can turn failed: `undelivered` does not look at the card's
  `resolved` flag (`queue.ts:675`), which `fail` and `settle` both do.
- A session can hold more than `jam.sessionMax`: the place of a run the owner moved
  away is given to another (`runs.ts:166`), and "again" gives the first one back
  without looking for a place (`runs.ts:672`).
- A tab can stay empty in front of its canvas: when its canvas stops, the tab is brought
  forward, and the same instance is told again (`registry.ts:244-283`), `onRegistry`
  updates the tab without `atReady` (`tabs.ts:759-774`), and nothing loads it until it
  is brought forward once more or reloaded.
- What the model of a capture's landing showed to matter: only the server that took
  an upload in knows that it is landing, so a capture sent with E whose card is not
  made yet is the record's to wait for until the lock is had; the code does so
  (`openFor`), and `RecordWaits` fails without it.

## Not modelled

Listed with reasons in PROJECT.json.  In short:

- what the plan has not reached: the session's transport and receipts, the comment
  log's merge with sync and hosted comments, the page's queue view, chat holds,
  pruning by age;
- parts with a protocol of their own that came after those in importance: invitations
  and sign-in sessions, boards' and marks' writes, the update's checks, the mover;
- what has none: adapters, audio and speech, build and publish, performance records,
  rendering and DOM inspection, Electron's layout.

Most of the repository's lines are of the last kind, so the modelled share of its
lines is small although the parts with concurrency and recovery are the ones
modelled.

## Running it

    tlc -config JamQueueCrash.cfg MCJamQueue     # likewise the other runs, each with the MC module of its kind
    tlapm JamQueueProofs.tla                     # and each of the other ...Proofs modules
