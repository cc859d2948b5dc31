------------------------------ MODULE JamQueue ------------------------------
(***************************************************************************)
(* The Live Jam queue (src/server/jam/queue.ts) and the part of the daemon *)
(* that runs what it claims (src/server/jam/daemon.ts), for cards made by  *)
(* comments: an owner's tag becomes an ask of a card, cards are claimed    *)
(* into batches, an agent answers each member of a batch, the answers are  *)
(* saved, posted, and the cards settle.  The process may stop at any step  *)
(* and start again from what it had written.                               *)
(*                                                                         *)
(* The comment log is one sequence: the place of an entry is its id and    *)
(* its time.  A card is named by the tag that minted it.  No session takes *)
(* the work here: Marver spawns an agent for every batch, and one that     *)
(* answers a single card may say a first line early, while it still works. *)
(***************************************************************************)
EXTENDS Naturals, FiniteSets, Sequences

CONSTANTS
  Thread,       \* comment threads of the canvas
  Frame,        \* frames of the board
  NoFrame,      \* where a thread on the board itself sits
  FrameOf,      \* the frame each thread sits on
  Batch,        \* batch ids (randomUUID); finitely many bound a behaviour
  NoBatch,
  Concurrency,  \* jam.concurrency: the most agents Marver spawns at once
  MaxMembers,   \* MAX_MEMBERS, 8 in the code
  MaxAttempts,  \* MAX_ATTEMPTS, 2 in the code
  MaxTries,     \* how often a delivery is tried (5 times again; 4 at boot)
  MaxOwner,     \* bound: entries the owner writes
  MaxEarly,     \* bound: lines agents say early
  MaxCrash      \* bound: times the process stops

ASSUME FrameAssumption == FrameOf \in [Thread -> Frame \cup {NoFrame}]
ASSUME NoFrameAssumption == NoFrame \notin Frame
ASSUME NoBatchAssumption == NoBatch \notin Batch
ASSUME LimitAssumption ==
  /\ {Concurrency, MaxMembers, MaxAttempts, MaxTries} \subseteq Nat \ {0}
  /\ {MaxOwner, MaxEarly, MaxCrash} \subseteq Nat

VARIABLES
  log,      \* design/comments: every entry, in the order they were appended
  ledger,   \* the entries this device authorized (ledger.ts)
  seen,     \* journal.seen: the owner entries already ingested
  card,     \* journal.cards, by id
  batch,    \* journal.batches, by id
  phase,    \* where a batch's job (runBatch, then redeliver) stands
  tries,    \* redeliveries begun by that job; 0: it is not in `delivering`
  said,     \* `early`: the line its agent said early, and in which attempt
  boot,     \* "down", then the startup barrier, then "up"
  barrier,  \* the barrier's own delivery: what is left, and where it stands
  crashes   \* times the process stopped

journal == <<seen, card, batch>>
process == <<phase, tries, said, boot, barrier>>
vars ==
  <<log, ledger, seen, card, batch, phase, tries, said, boot, barrier, crashes>>

-----------------------------------------------------------------------------
(* Types *)

OwnerKind == {"tag", "plain", "resolve"}
Entry == [kind : OwnerKind \cup {"early", "agent"}, thread : Thread,
          batch : Batch \cup {NoBatch}, asks : BOOLEAN]
Id == DOMAIN log
Line == [at : Nat, attempt : Nat]
NoLine == [at |-> 0, attempt |-> 0]

CardState == {"queued", "working", "asks", "failed", "done", "dropped"}
Note == {"", "merged", "replied", "answered", "resolved", "retried"}
CardRec == [st : CardState, thread : Thread, events : SUBSET Nat,
            batch : Batch \cup {NoBatch}, resolved : BOOLEAN,
            exclusive : BOOLEAN, asked : Nat, note : Note]

Body == {"reply", "asks"}                   \* results that hold words to post
Result == Body \cup {"shared", "missing"}
Phase == {"off", "deferred", "run", "agent", "post", "retry"}
Boot == {"down", "barrier", "up"}
Barrier == [todo : SUBSET Batch, at : Batch \cup {NoBatch}, nap : BOOLEAN,
            tries : 0..MaxTries]
NoBarrier == [todo |-> {}, at |-> NoBatch, nap |-> FALSE, tries |-> 0]

-----------------------------------------------------------------------------
(* What the rules read *)

SmallestOf(S) == CHOOSE i \in S : \A k \in S : i <= k
Is(s) == {c \in DOMAIN card : card[c].st = s}
On(t, s) == {c \in Is(s) : card[c].thread = t}
FramesOf(t) == {FrameOf[t]} \ {NoFrame}

Saved(b) == batch[b].saved
Running == {b \in Batch : phase[b] # "off" \/ b \in barrier.todo \/ b = barrier.at}
Spawned == {b \in Batch : phase[b] = "agent"}
Delivering == {b \in Batch : tries[b] > 0}
Reserved == UNION {batch[b].frames : b \in Running}
ExclusiveRunning == \E b \in Running : batch[b].exclusive
Fresh == Batch \ DOMAIN batch

Bodies(b) == {c \in batch[b].members : batch[b].results[c] \in Body}

(* sameAsEarly: the words saved are those of the early line, which then is *)
(* the reply, and nothing more is posted.                                  *)
ReplyOf(b, c) ==
  {i \in Id : /\ log[i].batch = b
              /\ log[i].thread = card[c].thread
              /\ log[i].kind = "agent" \/ (batch[b].same /\ i = batch[b].early)}
Unposted(b) == {c \in Bodies(b) : ~batch[b].same /\ ReplyOf(b, c) = {}}

(* posted[m].asked: when a reply that asks did so. *)
AskedAt(b, c) == IF batch[b].same THEN batch[b].early ELSE SmallestOf(ReplyOf(b, c))

(* An owner message of the thread, ledgered, after the log's place i. *)
AnsweredSince(t, i) ==
  \E k \in Id \cap ledger : /\ k > i
                            /\ log[k].thread = t
                            /\ log[k].kind \in {"tag", "plain"}

(* earlyAsked and answered: a question asked by the early line already has *)
(* its answer when the owner wrote after that line.                        *)
Asks(b) == {c \in Bodies(b) : batch[b].results[c] = "asks"}
AnsweredEarly(b) ==
  {c \in Asks(b) : batch[b].asked /\ AnsweredSince(card[c].thread, batch[b].early)}

(* An early line that is the reply and must still be flagged as asking. *)
Unflagged(b) ==
  {c \in Asks(b) \ AnsweredEarly(b) : batch[b].same /\ ~log[batch[b].early].asks}

(* What the next ingest takes in.  Everything done under the queue's lock  *)
(* begins by ingesting, so those actions wait for this set to be empty.    *)
Eligible == {i \in Id \ seen : \/ log[i].kind = "resolve"
                               \/ log[i].kind \in OwnerKind /\ i \in ledger}
Locked == Eligible = {}

-----------------------------------------------------------------------------
(* How cards move.  Each operator gives the cards after the move. *)

End(c, s, why) == [card[c] EXCEPT !.st = s, !.note = why]

(* Mutant: a card goes back beside the one already queued. *)
RequeueBeside(cs, R) ==
  [c \in DOMAIN cs |-> IF c \in R THEN [cs[c] EXCEPT !.st = "queued", !.batch = NoBatch]
                                   ELSE cs[c]]

(* Mutant: a card merged away takes its asks with it. *)
RequeueLosing(cs, R) ==
  LET waiting(t) == \E d \in DOMAIN cs : cs[d].st = "queued" /\ cs[d].thread = t
  IN [c \in DOMAIN cs |->
        IF c \notin R THEN cs[c]
        ELSE IF waiting(cs[c].thread)
               THEN [cs[c] EXCEPT !.batch = NoBatch, !.note = "merged", !.st = "done"]
               ELSE [cs[c] EXCEPT !.batch = NoBatch, !.note = "", !.st = "queued"]]

(* requeue and merge: cards R of the cards cs go back to the queue; one    *)
(* whose thread already has a queued card is merged into that card, which  *)
(* keeps both cards' asks.                                                 *)
Requeue(cs, R) ==
  LET waiting(t) == {c \in DOMAIN cs : cs[c].st = "queued" /\ cs[c].thread = t}
      joins(c) == {r \in R : cs[r].thread = cs[c].thread}
      back(c) == [cs[c] EXCEPT !.batch = NoBatch, !.note = ""]
  IN [c \in DOMAIN cs |->
        CASE c \in R /\ waiting(cs[c].thread) = {} -> [back(c) EXCEPT !.st = "queued"]
          [] c \in R /\ waiting(cs[c].thread) # {} ->
               [back(c) EXCEPT !.st = "done", !.note = "merged"]
          [] c \notin R /\ cs[c].st = "queued" ->
               [cs[c] EXCEPT !.events = @ \cup UNION {cs[r].events : r \in joins(c)},
                             !.exclusive = @ \/ \E r \in joins(c) : cs[r].exclusive]
          [] OTHER -> cs[c]]

(* What a failure does to one working card: resolved while it ran, it is   *)
(* done - nothing comes back to it.                                        *)
Failed(c) == IF card[c].resolved THEN End(c, "done", "resolved")
                                 ELSE End(c, "failed", "")

(* Mutant: an answer that came before the question does not count. *)
SettledUntold(b, c, told) ==
  LET r == batch[b].results[c]
      asked == AskedAt(b, c)
  IN CASE r \in Body /\ card[c].resolved -> End(c, "done", "replied")
       [] r = "reply" /\ ~card[c].resolved -> End(c, "done", "replied")
       [] r = "asks" /\ ~card[c].resolved ->
            IF AnsweredSince(card[c].thread, asked)
              THEN End(c, "done", "answered")
              ELSE [End(c, "asks", "") EXCEPT !.asked = asked]
       [] r = "missing" \/ (r = "shared" /\ (card[c].resolved \/ card[c].exclusive)) ->
            Failed(c)
       [] OTHER -> [card[c] EXCEPT !.exclusive = TRUE]

(* settleOne, but for the requeue of a shared answer; told are the members *)
(* whose question had its answer before it was asked.                      *)
Settled(b, c, told) ==
  LET r == batch[b].results[c]
      asked == AskedAt(b, c)
  IN CASE r \in Body /\ card[c].resolved -> End(c, "done", "replied")
       [] r = "reply" /\ ~card[c].resolved -> End(c, "done", "replied")
       [] r = "asks" /\ ~card[c].resolved ->
            IF c \in told \/ AnsweredSince(card[c].thread, asked)
              THEN End(c, "done", "answered")
              ELSE [End(c, "asks", "") EXCEPT !.asked = asked]
       [] r = "missing" \/ (r = "shared" /\ (card[c].resolved \/ card[c].exclusive)) ->
            Failed(c)
       [] OTHER -> [card[c] EXCEPT !.exclusive = TRUE]

Live(b) == {c \in batch[b].members : card[c].st = "working" /\ card[c].batch = b}
Again(b, S) == {c \in S : /\ batch[b].results[c] = "shared"
                          /\ ~card[c].resolved /\ ~card[c].exclusive}

(* settle, for the members S of batch b. *)
SettleCards(b, S, told) ==
  Requeue([c \in DOMAIN card |-> IF c \in S THEN Settled(b, c, told) ELSE card[c]],
          Again(b, S))

-----------------------------------------------------------------------------
(* The owner, and the page's route that ledgers what the owner wrote *)

OwnerEntries == {i \in Id : log[i].kind \in OwnerKind}

Write(t, k) ==
  /\ Cardinality(OwnerEntries) < MaxOwner
  /\ log' = Append(log, [kind |-> k, thread |-> t, batch |-> NoBatch,
                         asks |-> FALSE])
  /\ UNCHANGED <<ledger, journal, process, crashes>>

(* Never sure to happen: an entry that came by sync is never ledgered, nor *)
(* one whose server stopped between the append and the ledger.  Requests   *)
(* ledger in the order in which they appended.                             *)
Ledger(i) ==
  /\ log[i].kind \in {"tag", "plain"}
  /\ \A k \in ledger : k < i
  /\ ledger' = ledger \cup {i}
  /\ UNCHANGED <<log, journal, process, crashes>>

-----------------------------------------------------------------------------
(* ingest: one entry, the oldest that may be taken in *)

(* tagged looks for one card of each state: of those that ask the first it *)
(* finds; of those that failed the last to fail, here any of them.         *)
FirstAsking(t) == LET S == On(t, "asks") IN IF S = {} THEN {} ELSE {SmallestOf(S)}
OneOf(S) == IF S = {} THEN {{}} ELSE {{c} : c \in S}

(* Mutant: a tag mints a card even where one is queued already. *)
TaggedTwice(i) ==
  card' = [c \in DOMAIN card \cup {i} |->
            IF c = i THEN [st |-> "queued", thread |-> log[i].thread, events |-> {i},
                           batch |-> NoBatch, resolved |-> FALSE, exclusive |-> FALSE,
                           asked |-> 0, note |-> ""]
            ELSE IF c \in On(log[i].thread, "queued")
                   THEN [card[c] EXCEPT !.events = @ \cup {i}] ELSE card[c]]

Tagged(i) ==
  LET t == log[i].thread
      queued == On(t, "queued")
      asking == FirstAsking(t)
      new == [st |-> "queued", thread |-> t, events |-> {i}, batch |-> NoBatch,
              resolved |-> FALSE, exclusive |-> FALSE, asked |-> 0, note |-> ""]
  IN \E failed \in OneOf(IF asking = {} THEN On(t, "failed") ELSE {}) :
       card' = [c \in DOMAIN card \cup (IF queued = {} THEN {i} ELSE {}) |->
                 CASE c \notin DOMAIN card -> new
                   [] c \in asking -> End(c, "done", "answered")
                   [] c \in failed -> End(c, "done", "retried")
                   [] c \in queued -> [card[c] EXCEPT !.events = @ \cup {i}]
                   [] OTHER -> card[c]]

Answered(i) ==
  card' = [c \in DOMAIN card |-> IF c \in On(log[i].thread, "asks")
                                   THEN End(c, "done", "answered") ELSE card[c]]

Resolved(i) ==
  card' = [c \in DOMAIN card |->
            IF card[c].thread # log[i].thread THEN card[c]
            ELSE CASE card[c].st = "queued" -> End(c, "dropped", "resolved")
                   [] card[c].st = "working" -> [card[c] EXCEPT !.resolved = TRUE]
                   [] card[c].st \in {"asks", "failed"} -> End(c, "done", "resolved")
                   [] OTHER -> card[c]]

Ingest ==
  /\ Eligible # {}
  /\ LET i == SmallestOf(Eligible)
     IN /\ seen' = seen \cup {i}
        /\ \/ log[i].kind = "tag" /\ Tagged(i)
           \/ log[i].kind = "plain" /\ Answered(i)
           \/ log[i].kind = "resolve" /\ Resolved(i)
  /\ UNCHANGED <<log, ledger, batch, process, crashes>>

-----------------------------------------------------------------------------
(* The page: Drop and Retry.  An action names the card's revision and is   *)
(* refused unless it is current, so one that applies sees the card as it is*)

(* The page reaches the daemon once its start is under way, and while the  *)
(* start waits: it runs on from reading what is left into the first        *)
(* delivery, and from each delivery into the next.                         *)
PageMayAct == Locked /\ boot # "down" /\ (barrier.at = NoBatch => barrier.todo = {})

Drop(c) ==
  /\ PageMayAct
  /\ card[c].st = "queued"
  /\ card' = [card EXCEPT ![c] = End(c, "dropped", "")]
  /\ UNCHANGED <<log, ledger, seen, batch, process, crashes>>

SavedReply(c) ==
  /\ card[c].batch \in DOMAIN batch
  /\ batch[card[c].batch].st = "claimed"
  /\ batch[card[c].batch].undelivered
  /\ c \in Bodies(card[c].batch)

(* Mutant: Retry does not look for words the batch still holds. *)
RetryAnew(c) ==
  /\ PageMayAct
  /\ card[c].st = "failed"
  /\ card' = Requeue(card, {c})
  /\ UNCHANGED <<log, ledger, seen, batch, process, crashes>>

Retry(c) ==
  /\ PageMayAct
  /\ card[c].st = "failed"
  /\ ~SavedReply(c)
  /\ card' = Requeue(card, {c})
  /\ UNCHANGED <<log, ledger, seen, batch, process, crashes>>

(* Mutant: the batch stays given up. *)
RedeliveringGivenUp(b) ==
  /\ card' = [c \in DOMAIN card |->
               IF c \in Bodies(b) /\ card[c].st = "failed" /\ card[c].batch = b
                 THEN End(c, "working", "") ELSE card[c]]
  /\ UNCHANGED batch

(* redelivering: the cards whose reply was never posted work again. *)
Redelivering(b) ==
  /\ card' = [c \in DOMAIN card |->
               IF c \in Bodies(b) /\ card[c].st = "failed" /\ card[c].batch = b
                 THEN End(c, "working", "") ELSE card[c]]
  /\ batch' = [batch EXCEPT ![b].undelivered = FALSE]

(* A job that already delivers this batch is taken over: two of them do    *)
(* what one does, each append of a reply but the first being none.         *)
RetryDelivery(c) ==
  LET b == card[c].batch
  IN /\ PageMayAct
     /\ card[c].st = "failed"
     /\ SavedReply(c)
     /\ Redelivering(b)
     /\ phase' = [phase EXCEPT ![b] = "retry"]
     /\ tries' = [tries EXCEPT ![b] = 1]
     /\ UNCHANGED <<log, ledger, seen, said, boot, barrier, crashes>>

-----------------------------------------------------------------------------
(* form: what the pump claims.  A card whose answer named shared files, or *)
(* one with no frame, runs alone; while one waits nothing else starts.     *)

Order(c) == SmallestOf(card[c].events)
RunsAlone(c) == card[c].exclusive \/ FramesOf(card[c].thread) = {}
AloneQueued == {c \in Is("queued") : RunsAlone(c)}

(* The first n of S, when its members stand in the order ord. *)
FirstOf(S, n, ord(_)) ==
  {x \in S : Cardinality({y \in S : ord(y) < ord(x)}) < n}

QueuedOn(f) == {c \in Is("queued") : FramesOf(card[c].thread) = {f}}
FrameOrder(f) == SmallestOf({Order(c) : c \in QueuedOn(f)})
JoiningOn(f) == FirstOf(QueuedOn(f), MaxMembers, Order)
Free == IF Cardinality(Running) < Concurrency
          THEN Concurrency - Cardinality(Running) ELSE 0
(* Mutant: a frame in use is started on again. *)
StartingAnywhere == FirstOf({f \in Frame : QueuedOn(f) # {}}, Free, FrameOrder)

Starting == FirstOf({f \in Frame \ Reserved : QueuedOn(f) # {}}, Free, FrameOrder)

NewBatch(S, fs, alone) ==
  [members |-> S, frames |-> fs, exclusive |-> alone, st |-> "claimed",
   attempts |-> 0, saved |-> FALSE, results |-> [c \in S |-> "missing"],
   undelivered |-> FALSE, early |-> 0, same |-> FALSE, asked |-> FALSE]

Claimed(c, b) == [card[c] EXCEPT !.st = "working", !.batch = b, !.note = ""]
MayPump == Locked /\ boot = "up" /\ Delivering = {}

FormAlone ==
  /\ MayPump
  /\ AloneQueued # {} /\ Running = {}
  /\ \E c \in FirstOf(AloneQueued, 1, Order), b \in Fresh :
       /\ card' = [card EXCEPT ![c] = Claimed(c, b)]
       /\ batch' = [x \in DOMAIN batch \cup {b} |->
                     IF x = b THEN NewBatch({c}, FramesOf(card[c].thread), TRUE)
                              ELSE batch[x]]
       /\ phase' = [phase EXCEPT ![b] = "run"]
  /\ UNCHANGED <<log, ledger, seen, tries, said, boot, barrier, crashes>>

FormOnFrames ==
  /\ MayPump
  /\ AloneQueued = {} /\ ~ExclusiveRunning /\ Starting # {}
  /\ \E new \in [Starting -> Fresh] :
       LET of(b) == CHOOSE f \in Starting : new[f] = b
           news == {new[f] : f \in Starting}
       IN /\ \A f, g \in Starting : new[f] = new[g] => f = g
          /\ card' = [c \in DOMAIN card |->
               IF \E f \in Starting : c \in JoiningOn(f)
                 THEN Claimed(c, new[CHOOSE f \in Starting : c \in JoiningOn(f)])
                 ELSE card[c]]
          /\ batch' = [b \in DOMAIN batch \cup news |->
               IF b \in news THEN NewBatch(JoiningOn(of(b)), {of(b)}, FALSE)
                             ELSE batch[b]]
          /\ phase' = [b \in Batch |-> IF b \in news THEN "run" ELSE phase[b]]
  /\ UNCHANGED <<log, ledger, seen, tries, said, boot, barrier, crashes>>

-----------------------------------------------------------------------------
(* runBatch and launch *)

(* A permit, then the first spawn: never more than Concurrency at once. *)
Spawn(b) ==
  /\ phase[b] = "run"
  /\ batch[b].attempts < MaxAttempts
  /\ Cardinality(Spawned) < Concurrency
  /\ phase' = [phase EXCEPT ![b] = "agent"]
  /\ batch' = [batch EXCEPT ![b].attempts = @ + 1]
  /\ UNCHANGED <<log, ledger, seen, card, tries, said, boot, barrier, crashes>>

Respawn(b) ==
  /\ phase[b] = "agent"
  /\ batch[b].attempts < MaxAttempts
  /\ batch' = [batch EXCEPT ![b].attempts = @ + 1]
  /\ UNCHANGED <<log, ledger, seen, card, phase, tries, said, boot, barrier, crashes>>

(* The first line of an agent with one card is posted at once, once in     *)
(* each attempt (its id names the attempt), and the last one remembered.   *)
SaysEarly(b) ==
  /\ phase[b] = "agent"
  /\ said[b].attempt # batch[b].attempts
  /\ Cardinality({i \in Id : log[i].kind = "early"}) < MaxEarly
  /\ \E c \in batch[b].members, asks \in BOOLEAN :
       /\ batch[b].members = {c}
       /\ log' = Append(log, [kind |-> "early", thread |-> card[c].thread, batch |-> b,
                              asks |-> asks])
  /\ said' = [said EXCEPT ![b] = [at |-> Len(log) + 1, attempt |-> batch[b].attempts]]
  /\ UNCHANGED <<ledger, journal, phase, tries, boot, barrier, crashes>>

(* fail: the attempts are spent, or the job broke before it had results. *)
Fail(b) ==
  /\ Locked
  /\ phase[b] \in {"run", "agent"}
  /\ card' = [c \in DOMAIN card |-> IF c \in Live(b) THEN Failed(c) ELSE card[c]]
  /\ batch' = [batch EXCEPT ![b].st = "failed"]
  /\ phase' = [phase EXCEPT ![b] = "off"]
  /\ said' = [said EXCEPT ![b] = NoLine]
  /\ UNCHANGED <<log, ledger, seen, tries, boot, barrier, crashes>>

(* Mutant: an agent that was given up on may still come back. *)
SaveLate(b) ==
  /\ Locked
  /\ phase[b] \in {"agent", "post"}
  /\ \E r \in [batch[b].members -> Result] :
       batch' = [batch EXCEPT ![b].saved = TRUE, ![b].results = r]
  /\ phase' = [phase EXCEPT ![b] = "post"]
  /\ UNCHANGED <<log, ledger, seen, card, tries, said, boot, barrier, crashes>>

(* Every member's result, in one write with the early line, before         *)
(* anything else is posted: whether the reply repeats that line, and       *)
(* whether a question was asked by that line already (the same words, its  *)
(* flag, or a question mark at its end).                                   *)
SaveResults(b) ==
  /\ Locked
  /\ phase[b] = "agent"
  /\ \E r \in [batch[b].members -> Result], same, asked \in BOOLEAN :
       LET early == said[b].at
           question == \E c \in batch[b].members : r[c] = "asks"
       IN /\ same => early # 0 /\ \A c \in batch[b].members : r[c] \in Body
          /\ asked => early # 0 /\ question
          /\ early # 0 /\ question /\ (same \/ log[early].asks) => asked
          /\ batch' = [batch EXCEPT ![b].saved = TRUE, ![b].results = r,
                         ![b].early = early, ![b].same = same, ![b].asked = asked]
  /\ phase' = [phase EXCEPT ![b] = "post"]
  /\ said' = [said EXCEPT ![b] = NoLine]
  /\ UNCHANGED <<log, ledger, seen, card, tries, boot, barrier, crashes>>

-----------------------------------------------------------------------------
(* deliver: by a batch's own job, or by the barrier - or by both at once,  *)
(* as Retry starts a job without asking what the barrier still has to do.  *)

AtBarrier(b) == barrier.at = b /\ ~barrier.nap

(* Mutant: each try appends its replies anew. *)
PostAgain(b, c) ==
  /\ phase[b] = "post" \/ AtBarrier(b)
  /\ c \in Bodies(b)
  /\ log' = Append(log, [kind |-> "agent", thread |-> card[c].thread, batch |-> b,
                         asks |-> c \in Asks(b)])
  /\ UNCHANGED <<ledger, journal, process, crashes>>

(* A reply has one id, so the second append of it is no append.  One that  *)
(* asks what is answered already is posted as not asking.                  *)
Post(b, c) ==
  /\ phase[b] = "post" \/ AtBarrier(b)
  /\ c \in Unposted(b)
  /\ log' = Append(log, [kind |-> "agent", thread |-> card[c].thread, batch |-> b,
                         asks |-> c \in Asks(b) \ AnsweredEarly(b)])
  /\ UNCHANGED <<ledger, journal, process, crashes>>

(* The edit that flags the early line as asking, where it is the reply. *)
Flags(b) ==
  /\ phase[b] = "post" \/ AtBarrier(b)
  /\ Unflagged(b) # {}
  /\ log' = [log EXCEPT ![batch[b].early].asks = TRUE]
  /\ UNCHANGED <<ledger, journal, process, crashes>>

(* The members whose question had its answer when its reply was posted, or *)
(* flagged: the try that settles the batch found that then, or finds what  *)
(* is so now.                                                              *)
AnsweredAtPost(b) ==
  {c \in Asks(b) : ~log[AskedAt(b, c)].asks}

SettleBatch(b) ==
  /\ Locked /\ Unposted(b) = {} /\ Unflagged(b) = {}
  /\ \E told \in {AnsweredAtPost(b), AnsweredEarly(b)} :
       card' = SettleCards(b, Live(b), told)
  /\ batch' = [batch EXCEPT ![b].st = "done"]

(* undelivered: what holds no words settles now, the rest fails and the    *)
(* batch keeps its results.                                                *)
GiveUp(b) ==
  LET cs == SettleCards(b, Live(b) \ Bodies(b), {})
  IN /\ Locked
     /\ card' = [c \in DOMAIN card |-> IF c \in Live(b) \cap Bodies(b)
                                         THEN End(c, "failed", "") ELSE cs[c]]
     /\ batch' = [batch EXCEPT ![b].undelivered = TRUE]

(* Mutant: a job that ends stays in `delivering`. *)
JobLingers(b) ==
  /\ phase' = [phase EXCEPT ![b] = "off"]
  /\ UNCHANGED <<log, ledger, seen, tries, said, boot, barrier, crashes>>

JobEnds(b) ==
  /\ phase' = [phase EXCEPT ![b] = "off"]
  /\ tries' = [tries EXCEPT ![b] = 0]
  /\ UNCHANGED <<log, ledger, seen, said, boot, barrier, crashes>>

Settle(b) == phase[b] = "post" /\ SettleBatch(b) /\ JobEnds(b)

(* Posting may throw before, between and after the replies: it is tried    *)
(* again later, and given up after the last try.                           *)
PostingFails(b) ==
  /\ phase[b] = "post"
  /\ tries[b] < MaxTries
  /\ phase' = [phase EXCEPT ![b] = "retry"]
  /\ tries' = [tries EXCEPT ![b] = @ + 1]
  /\ UNCHANGED <<log, ledger, journal, said, boot, barrier, crashes>>

Redeliver(b) ==
  /\ phase[b] = "retry"
  /\ phase' = [phase EXCEPT ![b] = "post"]
  /\ UNCHANGED <<log, ledger, journal, tries, said, boot, barrier, crashes>>

Undelivered(b) ==
  phase[b] = "post" /\ tries[b] = MaxTries /\ GiveUp(b) /\ JobEnds(b)

-----------------------------------------------------------------------------
(* Stop and start.  The journal, the logs and the ledger are files; what   *)
(* runs is not.  At the start, what has results is delivered before        *)
(* anything else may start, one batch after the other; the rest runs again.*)

Crash ==
  /\ crashes < MaxCrash
  /\ crashes' = crashes + 1
  /\ phase' = [b \in Batch |-> "off"]
  /\ tries' = [b \in Batch |-> 0]
  /\ said' = [b \in Batch |-> NoLine]
  /\ boot' = "down"
  /\ barrier' = NoBarrier
  /\ UNCHANGED <<log, ledger, journal>>

Leftover == {b \in DOMAIN batch : batch[b].st = "claimed"}

(* Mutants: the start forgets what has no results; it would deliver it.    *)
RecoverSavedOnly ==
  /\ Locked
  /\ boot = "down"
  /\ boot' = "barrier"
  /\ barrier' = [NoBarrier EXCEPT !.todo = {b \in Leftover : Saved(b)}]
  /\ UNCHANGED <<log, ledger, journal, phase, tries, said, crashes>>

(* What has no results runs again, but a batch whose packet cannot be read *)
(* (a stop tore its write): that one fails, and its cards may be retried.  *)
Recover ==
  /\ Locked
  /\ boot = "down"
  /\ boot' = "barrier"
  /\ barrier' = [NoBarrier EXCEPT !.todo = {b \in Leftover : Saved(b)}]
  /\ \E gone \in SUBSET {b \in Leftover : ~Saved(b)} :
       /\ phase' = [b \in Batch |-> IF b \in Leftover \ gone /\ ~Saved(b) THEN "deferred"
                                                                        ELSE phase[b]]
       /\ card' = [c \in DOMAIN card |-> IF \E b \in gone : c \in Live(b)
                                           THEN End(c, "failed", "") ELSE card[c]]
       /\ batch' = [b \in DOMAIN batch |-> IF b \in gone
                                             THEN [batch[b] EXCEPT !.st = "failed"]
                                             ELSE batch[b]]
  /\ UNCHANGED <<log, ledger, seen, tries, said, crashes>>

Reconcile(b) ==
  /\ Locked
  /\ b \in barrier.todo /\ barrier.at = NoBatch
  /\ Redelivering(b)
  /\ barrier' = [todo |-> barrier.todo \ {b}, at |-> b, nap |-> FALSE, tries |-> 1]
  /\ UNCHANGED <<log, ledger, seen, phase, tries, said, boot, crashes>>

NextAtBarrier ==
  /\ barrier' = [NoBarrier EXCEPT !.todo = barrier.todo]
  /\ UNCHANGED <<log, ledger, seen, phase, tries, said, boot, crashes>>

BarrierSettles(b) == AtBarrier(b) /\ SettleBatch(b) /\ NextAtBarrier

(* Mutant: one try too many. *)
BarrierFailsPast(b) ==
  /\ AtBarrier(b)
  /\ barrier.tries <= MaxTries
  /\ barrier' = [barrier EXCEPT !.nap = TRUE, !.tries = @ + 1]
  /\ UNCHANGED <<log, ledger, journal, phase, tries, said, boot, crashes>>

BarrierFails(b) ==
  /\ AtBarrier(b)
  /\ barrier.tries < MaxTries
  /\ barrier' = [barrier EXCEPT !.nap = TRUE, !.tries = @ + 1]
  /\ UNCHANGED <<log, ledger, journal, phase, tries, said, boot, crashes>>

BarrierWakes(b) ==
  /\ barrier.at = b /\ barrier.nap
  /\ barrier' = [barrier EXCEPT !.nap = FALSE]
  /\ UNCHANGED <<log, ledger, journal, phase, tries, said, boot, crashes>>

BarrierGivesUp(b) ==
  AtBarrier(b) /\ barrier.tries = MaxTries /\ GiveUp(b) /\ NextAtBarrier

Ready ==
  /\ boot = "barrier"
  /\ barrier.todo = {} /\ barrier.at = NoBatch
  /\ boot' = "up"
  /\ UNCHANGED <<log, ledger, journal, phase, tries, said, barrier, crashes>>

(* Mutant: what was deferred waits for every run to end, its own too. *)
LaunchWhenIdle(b) ==
  /\ boot = "up" /\ Running = {}
  /\ phase[b] = "deferred"
  /\ phase' = [phase EXCEPT ![b] = "run"]
  /\ UNCHANGED <<log, ledger, journal, tries, said, boot, barrier, crashes>>

LaunchDeferred(b) ==
  /\ boot = "up" /\ Delivering = {}
  /\ phase[b] = "deferred"
  /\ phase' = [phase EXCEPT ![b] = "run"]
  /\ UNCHANGED <<log, ledger, journal, tries, said, boot, barrier, crashes>>

-----------------------------------------------------------------------------
(* Specification *)

Init ==
  /\ log = <<>>
  /\ ledger = {} /\ seen = {}
  /\ card = [c \in {} |-> {}]
  /\ batch = [b \in {} |-> {}]
  /\ phase = [b \in Batch |-> "off"]
  /\ tries = [b \in Batch |-> 0] /\ said = [b \in Batch |-> NoLine]
  /\ boot = "down" /\ barrier = NoBarrier
  /\ crashes = 0

Owner ==
  \/ \E t \in Thread, k \in OwnerKind : Write(t, k)
  \/ \E i \in Id : Ledger(i)
  \/ \E c \in DOMAIN card : Drop(c) \/ Retry(c) \/ RetryDelivery(c)

(* What a batch's own job does next, and what the barrier does for it. *)
Replies(b) == SaysEarly(b) \/ Flags(b) \/ \E c \in Bodies(b) : Post(b, c)

Job(b) ==
  \/ LaunchDeferred(b) \/ Spawn(b) \/ Respawn(b) \/ Fail(b) \/ SaveResults(b)
  \/ Settle(b) \/ PostingFails(b) \/ Redeliver(b) \/ Undelivered(b)

AtStart(b) ==
  \/ Reconcile(b) \/ BarrierSettles(b) \/ BarrierFails(b)
  \/ BarrierWakes(b) \/ BarrierGivesUp(b)

Work(b) == Job(b) \/ AtStart(b) \/ Replies(b)

Next ==
  \/ Owner
  \/ Ingest
  \/ FormAlone \/ FormOnFrames
  \/ \E b \in DOMAIN batch : Work(b)
  \/ Crash \/ Recover \/ Ready

(* The daemon's own steps: rescans poke the ingest, every end of a batch   *)
(* pumps, an agent that does not answer is stopped after JOB_TIMEOUT, and  *)
(* each posting is tried at once or after a timer.  Nothing is assumed of  *)
(* the owner, of sync or of a stop.  What the pump starts is strongly fair:*)
(* a delivery that ends pumps before the owner's next Retry can start one. *)
Fairness ==
  /\ WF_vars(Ingest)
  /\ SF_vars(FormAlone \/ FormOnFrames)
  /\ \A b \in Batch : SF_vars(b \in DOMAIN batch /\ LaunchDeferred(b))
  /\ WF_vars(Recover) /\ WF_vars(Ready)
  /\ \A b \in Batch : WF_vars(b \in DOMAIN batch /\ Job(b))
  /\ \A b \in Batch : WF_vars(b \in DOMAIN batch /\ AtStart(b))

Spec == Init /\ [][Next]_vars
FairSpec == Spec /\ Fairness

-----------------------------------------------------------------------------
(* Properties *)

CardsTyped ==
  /\ DOMAIN card \subseteq Id
  /\ \A c \in DOMAIN card : card[c] \in CardRec

BatchRec(S) == [members : {S}, frames : SUBSET Frame, exclusive : BOOLEAN,
                st : {"claimed", "done", "failed"}, attempts : Nat,
                saved : BOOLEAN, undelivered : BOOLEAN, results : [S -> Result],
                early : Nat, same : BOOLEAN, asked : BOOLEAN]
BatchesTyped ==
  /\ DOMAIN batch \subseteq Batch
  /\ \A b \in DOMAIN batch : /\ batch[b].members \subseteq DOMAIN card
                             /\ batch[b] \in BatchRec(batch[b].members)

(* Every variable of the journal, the files and the process has its type:  *)
(* a batch's members are cards, and its results name exactly its members.  *)
TypeOK ==
  /\ log \in Seq(Entry)
  /\ ledger \subseteq Id /\ seen \subseteq Id
  /\ CardsTyped /\ BatchesTyped
  /\ phase \in [Batch -> Phase]
  /\ tries \in [Batch -> Nat] /\ said \in [Batch -> Line]
  /\ boot \in Boot
  /\ barrier \in Barrier
  /\ crashes \in Nat

(* queue.ts:5-6: a thread has at most one queued card, whatever merges,    *)
(* requeues and new tags meet on it.                                       *)
OneQueuedPerThread ==
  \A c, d \in Is("queued") : card[c].thread = card[d].thread => c = d

(* A card works exactly while one claimed batch holds it: through a crash, *)
(* a failed delivery and its retry no card is left working for nobody, and *)
(* none is in two runs.                                                    *)
WorkingIsClaimed ==
  \A c \in Is("working") :
    /\ card[c].batch \in DOMAIN batch
    /\ batch[card[c].batch].st = "claimed"
    /\ ~batch[card[c].batch].undelivered
    /\ c \in batch[card[c].batch].members

(* Once up, a claimed batch that is not given up is run or delivered by    *)
(* this process: a restart forgets none of them.                           *)
ClaimedIsRunning ==
  boot # "down" =>
    \A b \in DOMAIN batch :
      (batch[b].st = "claimed" /\ ~batch[b].undelivered) => b \in Running

(* No two agents ever edit one frame, and beside an exclusive one no other *)
(* works - whatever was recovered, requeued or merged.                     *)
FramesApart ==
  \A a, b \in Spawned :
    a # b => /\ batch[a].frames \cap batch[b].frames = {}
             /\ ~batch[a].exclusive

(* No tag is lost: one that was taken in is an ask of a card that was not  *)
(* merged away - merges hand their asks on.                                *)
NoAskLost ==
  \A i \in seen : log[i].kind = "tag" =>
    \E c \in DOMAIN card : i \in card[c].events /\ card[c].note # "merged"

(* An ask is in one card that still has something to do, never in two.     *)
NoAskTwice ==
  \A c, d \in DOMAIN card :
    (c # d /\ card[c].st \in {"queued", "working"} /\ card[d].st \in {"queued", "working"})
      => card[c].events \cap card[d].events = {}

(* A card says "replied" only when the words its run saved are in the      *)
(* thread - as the line the agent said early, when they are the same - and *)
(* each reply is there once, however often it was posted.                  *)
RepliedIsPosted ==
  /\ \A c \in DOMAIN card :
       card[c].note = "replied" => ReplyOf(card[c].batch, c) # {}
  /\ \A b \in DOMAIN batch : \A c \in batch[b].members :
       Cardinality(ReplyOf(b, c)) <= 1

(* A card that asks has its question in its thread, flagged as asking - one*)
(* that was answered before it was posted is not - and no plain reply taken*)
(* in came after it.                                                       *)
AskingIsUnanswered ==
  \A c \in Is("asks") :
    /\ card[c].asked \in Id
    /\ log[card[c].asked].thread = card[c].thread /\ log[card[c].asked].asks
    /\ \A i \in seen :
         ~(log[i].kind = "plain" /\ log[i].thread = card[c].thread /\ i > card[c].asked)

(* Saved work is never done again: a card does not run while words an      *)
(* earlier run saved for it are not in its thread.                         *)
SavedIsNotRerun ==
  \A c \in Is("working") : \A b \in DOMAIN batch :
    (b # card[c].batch /\ c \in batch[b].members) => c \notin Unposted(b)

(* Results stand once saved, and no agent is started for that batch again. *)
ResultsStand ==
  [][\A b \in DOMAIN batch : Saved(b) =>
       /\ batch'[b].results = batch[b].results
       /\ batch'[b].attempts = batch[b].attempts]_vars

(* Every claimed batch comes to an end: it settles, fails, or its replies  *)
(* are given up for good.                                                  *)
BatchesEnd ==
  \A b \in Batch :
    (b \in DOMAIN batch /\ batch[b].st = "claimed" /\ ~batch[b].undelivered)
      ~> (b \in DOMAIN batch /\ (batch[b].st # "claimed" \/ batch[b].undelivered))

(* The bound on batches: too few are left for what would start now.        *)
OutOfIds ==
  Cardinality(Fresh) < IF AloneQueued # {} THEN 1 ELSE Cardinality(Starting)

(* A queued card does not wait for ever - not behind results that do not   *)
(* post, not behind a start, not an exclusive one behind other runs.       *)
QueuedMoves ==
  \A c \in 1..MaxOwner :
    (c \in Is("queued")) ~> (c \notin Is("queued") \/ OutOfIds)

-----------------------------------------------------------------------------
(* The inductive invariant: what the properties above rest on.  A batch's  *)
(* members never share a thread, so no two of them meet in the queue again.*)

MembersApart ==
  \A b \in DOMAIN batch : \A c, d \in batch[b].members :
    card[c].thread = card[d].thread => c = d

(* A job that has no results yet holds a claimed batch; one that delivers, *)
(* the barrier included, has them.  Before a start there is no job.        *)
JobsFit ==
  /\ (boot = "down" => \A b \in Batch : phase[b] = "off")
  /\ {b \in Batch : phase[b] # "off"} \cup barrier.todo \subseteq DOMAIN batch
  /\ barrier.at \in (DOMAIN batch \ barrier.todo) \cup {NoBatch}
  /\ \A b \in DOMAIN batch :
       /\ (phase[b] \in {"deferred", "run", "agent"}
             => batch[b].st = "claimed" /\ ~Saved(b) /\ ~batch[b].undelivered)
       /\ (phase[b] \in {"post", "retry"} \/ b \in barrier.todo \/ b = barrier.at
             => Saved(b))
       /\ (batch[b].undelivered => Saved(b))
       /\ (Saved(b) => batch[b].st # "failed")

(* Of a batch that is delivered, or was while the barrier has not come to  *)
(* it, no card still waits for a Retry of its saved words.                 *)
FailedBodies(b) == {c \in Bodies(b) : card[c].st = "failed" /\ card[c].batch = b}
TodoFits ==
  \A b \in barrier.todo :
    (phase[b] # "off" \/ batch[b].st # "claimed") => FailedBodies(b) = {}

(* Two claimed batches without results share no frame, whatever the        *)
(* process knows of them.                                                  *)
Unsaved == {b \in DOMAIN batch : batch[b].st = "claimed" /\ ~Saved(b)}
ClaimsApart ==
  \A a, b \in Unsaved :
    a # b => batch[a].frames \cap batch[b].frames = {} /\ ~batch[a].exclusive

IInv == /\ TypeOK /\ OneQueuedPerThread /\ MembersApart /\ WorkingIsClaimed
        /\ JobsFit /\ TodoFits /\ ClaimedIsRunning /\ ClaimsApart

-----------------------------------------------------------------------------
(* What the source says of itself and its code does not keep *)

(* "the agent never runs twice for one result" (daemon.ts:1228-1229): no   *)
(* card runs again once a run of it has saved its words.                   *)
NeverTwiceForOneResult ==
  \A c \in Is("working") : \A b \in DOMAIN batch :
    (b # card[c].batch /\ c \in batch[b].members) => c \notin Bodies(b)
=============================================================================
