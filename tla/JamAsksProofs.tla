--------------------------- MODULE JamAsksProofs ---------------------------
(* What becomes of the owner's asks, of the words an agent saved and of the *)
(* questions it asked, for every number of threads, frames and batches and  *)
(* every bound.  The invariant here stands on the one of JamQueueProofs.    *)
EXTENDS JamQueueProofs, FiniteSetTheorems

-----------------------------------------------------------------------------
(* The asks                                                                 *)

Open(x) == x.st \notin {"done", "dropped"}

(* Of the cards cs, when the entries S were taken in: asks, and what minted *)
(* the cards, were taken in; a card that is not over has no note; no two of *)
(* those share an ask; and every tag is an ask of a card that was not       *)
(* merged away.                                                             *)
AsksHold(cs, S) ==
  /\ DOMAIN cs \subseteq S
  /\ \A c \in DOMAIN cs : cs[c].events \subseteq S
  /\ \A c \in DOMAIN cs : Open(cs[c]) => cs[c].note = ""
  /\ \A c, d \in DOMAIN cs :
       (c # d /\ Open(cs[c]) /\ Open(cs[d])) => cs[c].events \cap cs[d].events = {}
  /\ \A i \in S : log[i].kind = "tag" =>
       \E c \in DOMAIN cs : i \in cs[c].events /\ cs[c].note # "merged"

-----------------------------------------------------------------------------
(* The words                                                                *)

(* Replies are of batches the journal has, and each member has one at most. *)
RepliesFit ==
  /\ \A i \in Id : log[i].kind = "agent" => log[i].batch \in DOMAIN batch
  /\ \A b \in DOMAIN batch : \A c \in batch[b].members :
       \A i, j \in ReplyOf(b, c) : i = j
  /\ \A c \in DOMAIN card : card[c].note = "replied" =>
       card[c].batch \in DOMAIN batch /\ ReplyOf(card[c].batch, c) # {}

(* A claimed batch without results holds all of its members, and a batch    *)
(* without results has no words.  A batch that is done posted its words; of *)
(* one that is claimed a card that failed with words means it is given up.  *)
WordsKept ==
  /\ \A b \in Unsaved : batch[b].members \subseteq Live(b)
  /\ \A b \in DOMAIN batch : ~Saved(b) => Bodies(b) = {}
  /\ \A b \in DOMAIN batch : batch[b].st = "done" => Unposted(b) = {}
  /\ \A b \in DOMAIN batch :
       (batch[b].st = "claimed" /\ FailedBodies(b) # {}) => batch[b].undelivered

(* A card that is queued has left its batch, and a card that runs or may    *)
(* run again has no words that wait to be posted in a batch it left.        *)
NothingWaits ==
  /\ \A c \in Is("queued") : card[c].batch = NoBatch
  /\ \A c \in DOMAIN card : \A b \in DOMAIN batch :
       (card[c].st \in {"queued", "working", "failed"} /\ b # card[c].batch)
         => c \notin Unposted(b)

-----------------------------------------------------------------------------
(* The questions                                                            *)

(* Entry i is a line that an agent said early, for batch b: it stands in    *)
(* the thread of the member.                                                *)
EarlyLine(b, i) ==
  /\ i \in Id /\ log[i].kind = "early" /\ log[i].batch = b
  /\ \A c \in batch[b].members : log[i].thread = card[c].thread

(* The line that the process remembers of an agent, and the one saved with  *)
(* the results, are such lines; a batch that has no results, or whose reply *)
(* is its early line, has no other reply.                                   *)
EarlyFits ==
  /\ \A b \in Batch : said[b].at # 0 => b \in DOMAIN batch /\ EarlyLine(b, said[b].at)
  /\ \A b \in DOMAIN batch :
       /\ batch[b].early # 0 => EarlyLine(b, batch[b].early)
       /\ batch[b].same \/ batch[b].asked => batch[b].saved /\ batch[b].early # 0
       /\ ~batch[b].saved \/ batch[b].same =>
            \A i \in Id : ~(log[i].kind = "agent" /\ log[i].batch = b)

(* A reply that asks was posted as asking, unless the owner had answered.   *)
AskedFits ==
  \A b \in DOMAIN batch : \A c \in Asks(b) : \A i \in ReplyOf(b, c) :
    ~batch[b].same /\ ~log[i].asks => c \in AnsweredEarly(b)

(* What was taken in of tags and replies was authorized here.               *)
SeenLedgered == \A i \in seen : log[i].kind \in {"tag", "plain"} => i \in ledger

JInv == /\ AsksHold(card, seen)
        /\ RepliesFit /\ WordsKept /\ NothingWaits
        /\ EarlyFits /\ AskedFits
        /\ SeenLedgered /\ AskingIsUnanswered

-----------------------------------------------------------------------------
(* How the moves of cards keep the asks                                     *)

(* The cards of R that come to the queued card c, and the asks they bring.  *)
Joins(cs, R, c) == {r \in R : cs[r].thread = cs[c].thread}
Brought(cs, R, c) == UNION {cs[r].events : r \in Joins(cs, R, c)}

(* What becomes of a card c of cs that goes back to the queue: it is x.      *)
WentBack(cs, c, x) ==
  /\ x.events = cs[c].events
  /\ \/ x.st = "queued" /\ x.note = ""
     \/ /\ x.st = "done" /\ x.note = "merged"
        /\ \E d \in DOMAIN cs : cs[d].st = "queued" /\ cs[d].thread = cs[c].thread

(* requeue and merge (queue.ts:171-205): a card that goes back keeps its    *)
(* asks, and where it is merged away the queued card has them too.          *)
LEMMA RequeueBacks ==
  ASSUME NEW cs, NEW R, R \subseteq DOMAIN cs, \A c \in DOMAIN cs : cs[c] \in CardRec,
         NEW c \in R
  PROVE  WentBack(cs, c, Requeue(cs, R)[c])
<1> DEFINE x == Requeue(cs, R)[c]
           waiting(t) == {d \in DOMAIN cs : cs[d].st = "queued" /\ cs[d].thread = t}
<1>1. cs[c] \in CardRec
  OBVIOUS
<1>2. CASE waiting(cs[c].thread) = {}
  <2>1. x = [cs[c] EXCEPT !.batch = NoBatch, !.note = "", !.st = "queued"]
    BY <1>2 DEF Requeue
  <2> QED
    BY <1>1, <2>1 DEF CardRec, WentBack
<1>3. CASE waiting(cs[c].thread) # {}
  <2>1. x = [cs[c] EXCEPT !.batch = NoBatch, !.note = "merged", !.st = "done"]
    BY <1>3 DEF Requeue, CardRec
  <2>2. x.events = cs[c].events /\ x.st = "done" /\ x.note = "merged"
    BY <1>1, <2>1 DEF CardRec
  <2> QED
    BY <1>3, <2>2 DEF WentBack
<1> QED
  BY <1>2, <1>3

(* ... and a card that stays where it is gains asks only if it is queued.   *)
LEMMA RequeueStays ==
  ASSUME NEW cs, NEW R, R \subseteq DOMAIN cs, \A c \in DOMAIN cs : cs[c] \in CardRec,
         NEW c \in DOMAIN cs \ R
  PROVE  LET x == Requeue(cs, R)[c] IN
         /\ x.note = cs[c].note /\ x.asked = cs[c].asked
         /\ x.events = IF cs[c].st = "queued" THEN cs[c].events \cup Brought(cs, R, c)
                                             ELSE cs[c].events
<1> DEFINE x == Requeue(cs, R)[c]
           more == Brought(cs, R, c)
           alone == \E r \in Joins(cs, R, c) : cs[r].exclusive
<1>1. cs[c] \in CardRec
  OBVIOUS
<1>2. CASE cs[c].st = "queued"
  <2>1. x = [cs[c] EXCEPT !.events = @ \cup more, !.exclusive = @ \/ alone]
    BY <1>2 DEF Requeue, Joins, Brought
  <2>2. PICK al : x = [cs[c] EXCEPT !.events = cs[c].events \cup more, !.exclusive = al]
    BY <2>1
  <2> HIDE DEF x, more, alone
  <2>3. x.note = cs[c].note /\ x.asked = cs[c].asked /\ x.events = cs[c].events \cup more
    BY <1>1, <2>2 DEF CardRec
  <2> QED
    BY <1>2, <2>3 DEF x, more
<1>3. CASE cs[c].st # "queued"
  BY <1>3 DEF Requeue
<1> QED
  BY <1>2, <1>3

(* Cards keep their asks, end or stay as they are, and are not merged away. *)
Alike(cs, qs) ==
  /\ DOMAIN qs = DOMAIN cs
  /\ \A c \in DOMAIN cs :
       /\ qs[c].events = cs[c].events
       /\ Open(qs[c]) => Open(cs[c]) /\ qs[c].note = ""
       /\ qs[c].note = "merged" => cs[c].note = "merged"

(* What ends or moves cards one by one keeps the asks.                      *)
LEMMA AlikeKeepsAsks ==
  ASSUME NEW cs, NEW qs, NEW S, AsksHold(cs, S), Alike(cs, qs)
  PROVE  AsksHold(qs, S)
<1>1. DOMAIN qs \subseteq S /\ \A c \in DOMAIN qs : qs[c].events \subseteq S
  BY DEF AsksHold, Alike
<1>2. \A c \in DOMAIN qs : Open(qs[c]) => qs[c].note = ""
  BY DEF Alike
<1>3. \A c, d \in DOMAIN qs :
        (c # d /\ Open(qs[c]) /\ Open(qs[d])) => qs[c].events \cap qs[d].events = {}
  BY DEF AsksHold, Alike
<1>4. \A i \in S : log[i].kind = "tag" =>
        \E c \in DOMAIN qs : i \in qs[c].events /\ qs[c].note # "merged"
  BY DEF AsksHold, Alike
<1> QED
  BY <1>1, <1>2, <1>3, <1>4 DEF AsksHold

(* Cards that go back to the queue keep the asks: none is lost in a merge,  *)
(* and none is in two cards that are not over.                              *)
LEMMA RequeueKeepsAsks ==
  ASSUME NEW cs, NEW R, R \subseteq DOMAIN cs, \A c \in DOMAIN cs : cs[c] \in CardRec,
         NEW S, AsksHold(cs, S), OneQueuedIn(cs),
         \A c \in R : Open(cs[c]) /\ cs[c].st # "queued"
  PROVE  AsksHold(Requeue(cs, R), S)
<1> DEFINE q == Requeue(cs, R)
           from(c) == IF c \notin R /\ cs[c].st = "queued" THEN {c} \cup Joins(cs, R, c) ELSE {c}
<1>1. /\ DOMAIN q = DOMAIN cs
      /\ \A c \in DOMAIN cs \ R : q[c].st = cs[c].st
  BY RequeueFacts
<1>2. \A c \in R :
        /\ q[c].events = cs[c].events
        /\ \/ q[c].st = "queued" /\ q[c].note = ""
           \/ /\ q[c].st = "done" /\ q[c].note = "merged"
              /\ \E d \in DOMAIN cs : cs[d].st = "queued" /\ cs[d].thread = cs[c].thread
  <2>1. \A c \in R : WentBack(cs, c, q[c])
    BY RequeueBacks
  <2> QED
    BY <2>1 DEF WentBack
<1>3. \A c \in DOMAIN cs \ R :
        /\ q[c].note = cs[c].note
        /\ q[c].events = IF cs[c].st = "queued" THEN cs[c].events \cup Brought(cs, R, c)
                                               ELSE cs[c].events
  BY RequeueStays
<1>4. \A c \in R : q[c].st = "queued" =>
        \A d \in DOMAIN cs : cs[d].st = "queued" => cs[d].thread # cs[c].thread
  BY RequeueFacts
<1> HIDE DEF q
<1>5. \A c \in DOMAIN cs : \A i \in q[c].events : \E x \in from(c) : i \in cs[x].events
  <2>1. ASSUME NEW c \in DOMAIN cs, NEW i \in q[c].events
        PROVE  \E x \in from(c) : i \in cs[x].events
    <3>1. CASE c \in R \/ cs[c].st # "queued"
      BY <1>2, <1>3, <3>1
    <3>2. CASE c \notin R /\ cs[c].st = "queued"
      <4>1. i \in cs[c].events \cup Brought(cs, R, c)
        BY <1>3, <3>2
      <4>2. i \in Brought(cs, R, c) => \E x \in Joins(cs, R, c) : i \in cs[x].events
        BY DEF Brought
      <4> QED
        BY <3>2, <4>1, <4>2
    <3> QED
      BY <3>1, <3>2
  <2> QED
    BY <2>1
<1>6. \A c \in DOMAIN cs : from(c) \subseteq DOMAIN cs
  BY DEF Joins
<1>7. ASSUME NEW c \in DOMAIN cs, Open(q[c]), NEW x \in from(c)
      PROVE  /\ Open(cs[x])
             /\ x # c => x \in R /\ c \notin R /\ cs[c].st = "queued" /\ ~Open(q[x])
                           /\ cs[x].thread = cs[c].thread
  <2>1. CASE x = c
    BY <1>1, <1>7, <2>1 DEF Open
  <2>2. CASE x # c
    <3>1. x \in R /\ cs[x].thread = cs[c].thread /\ c \notin R /\ cs[c].st = "queued"
      BY <1>7, <2>2 DEF Joins
    <3>2. q[x].st # "queued"
      BY <1>4, <3>1
    <3> QED
      BY <1>2, <3>1, <3>2 DEF Open
  <2> QED
    BY <2>1, <2>2
<1>8. DOMAIN q \subseteq S /\ \A c \in DOMAIN q : q[c].events \subseteq S
  BY <1>1, <1>5, <1>6 DEF AsksHold
<1>9. \A c \in DOMAIN q : Open(q[c]) => q[c].note = ""
  BY <1>1, <1>2, <1>3 DEF AsksHold, Open
<1>10. ASSUME NEW c \in DOMAIN q, NEW d \in DOMAIN q, c # d, Open(q[c]), Open(q[d])
       PROVE  q[c].events \cap q[d].events = {}
  <2>1. c \in DOMAIN cs /\ d \in DOMAIN cs
    BY <1>1
  <2>2. ASSUME NEW x \in from(c) \cap from(d) PROVE FALSE
    <3>1. x # c => x \in R /\ c \notin R /\ cs[c].st = "queued" /\ ~Open(q[x])
                     /\ cs[x].thread = cs[c].thread
      BY <1>7, <1>10, <2>1
    <3>2. x # d => x \in R /\ d \notin R /\ cs[d].st = "queued" /\ ~Open(q[x])
                     /\ cs[x].thread = cs[d].thread
      BY <1>7, <1>10, <2>1
    <3> QED
      BY <1>10, <2>1, <3>1, <3>2 DEF OneQueuedIn
  <2>3. ASSUME NEW i \in q[c].events, i \in q[d].events PROVE FALSE
    <3>1. PICK x \in from(c) : i \in cs[x].events
      BY <1>5, <2>1
    <3>2. PICK y \in from(d) : i \in cs[y].events
      BY <1>5, <2>1, <2>3
    <3>3. x # y
      BY <2>2
    <3>4. Open(cs[x]) /\ Open(cs[y]) /\ x \in DOMAIN cs /\ y \in DOMAIN cs
      BY <1>6, <1>7, <1>10, <2>1
    <3> HIDE DEF from
    <3> QED
      BY <3>1, <3>2, <3>3, <3>4 DEF AsksHold
  <2> QED
    BY <2>3
<1>11. ASSUME NEW i \in S, log[i].kind = "tag"
       PROVE  \E c \in DOMAIN q : i \in q[c].events /\ q[c].note # "merged"
  <2>1. PICK c \in DOMAIN cs : i \in cs[c].events /\ cs[c].note # "merged"
    BY <1>11 DEF AsksHold
  <2>2. CASE c \notin R
    BY <1>1, <1>3, <2>1, <2>2
  <2>3. CASE c \in R /\ q[c].note # "merged"
    BY <1>1, <1>2, <2>1, <2>3
  <2>4. CASE c \in R /\ q[c].note = "merged"
    <3>1. PICK d \in DOMAIN cs : cs[d].st = "queued" /\ cs[d].thread = cs[c].thread
      BY <1>2, <2>4
    <3>2. d \notin R /\ c \in Joins(cs, R, d)
      BY <2>4, <3>1 DEF Joins
    <3>3. i \in q[d].events
      BY <1>3, <2>1, <3>1, <3>2 DEF Brought
    <3>4. q[d].note = ""
      BY <1>3, <3>1, <3>2 DEF AsksHold, Open
    <3> QED
      BY <1>1, <3>1, <3>3, <3>4
  <2> QED
    BY <2>2, <2>3, <2>4
<1> QED
  BY <1>8, <1>9, <1>10, <1>11 DEF AsksHold, q

(* A member c of batch b asks: its question is the entry a of its thread,   *)
(* flagged as asking, and nothing answered it since.                        *)
AsksAt(b, c, a) ==
  /\ a \in Id /\ log[a].thread = card[c].thread /\ log[a].asks
  /\ ~AnsweredSince(card[c].thread, a)

(* What a settled member c of batch b comes to: it is x.                    *)
SettledTo(b, c, x) ==
  /\ x.events = card[c].events
  /\ Open(x) => x.note = ""
  /\ x.note # "merged"
  /\ x.note = "replied" => c \in Bodies(b)
  /\ x.st = "asks" => AsksAt(b, c, x.asked)

(* Where a member of batch b asks, and was not told to have its answer, its *)
(* question is an entry of its thread that is flagged.                      *)
AskedRight(b, c, told) ==
  c \in Asks(b) \ told =>
    LET a == AskedAt(b, c)
    IN a \in Id /\ log[a].thread = card[c].thread /\ log[a].asks

(* settleOne (queue.ts:625-649): words are replied only by a result that    *)
(* has some, and a question asks only while nothing answered it.            *)
LEMMA SettledAsks ==
  ASSUME TypeOK, NEW b \in DOMAIN batch, NEW c \in batch[b].members,
         card[c].st = "working", card[c].note = "",
         NEW told, AskedRight(b, c, told)
  PROVE  SettledTo(b, c, Settled(b, c, told))
<1> DEFINE r == batch[b].results[c]
           asked == AskedAt(b, c)
           x == Settled(b, c, told)
<1>1. c \in DOMAIN card /\ card[c] \in CardRec /\ r \in Result
  BY DEF TypeOK, CardsTyped, BatchesTyped, BatchRec
<1>3. CASE r = "reply" \/ (r = "asks" /\ card[c].resolved)
  <2>1. x = End(c, "done", "replied")
    BY <1>3 DEF Settled, Body
  <2>2. c \in Bodies(b)
    BY <1>3 DEF Bodies, Body
  <2>3. x.events = card[c].events /\ x.st = "done" /\ x.note = "replied"
    BY <1>1, <2>1 DEF End, CardRec
  <2> QED
    BY <2>2, <2>3 DEF SettledTo, Open
<1>4. CASE r = "asks" /\ ~card[c].resolved
  <2>1. CASE c \in told \/ AnsweredSince(card[c].thread, asked)
    <3>1. x = End(c, "done", "answered")
      BY <1>4, <2>1 DEF Settled, Body
    <3>2. x.events = card[c].events /\ x.st = "done" /\ x.note = "answered"
      BY <1>1, <3>1 DEF End, CardRec
    <3> QED
      BY <3>2 DEF SettledTo, Open
  <2>2. CASE c \notin told /\ ~AnsweredSince(card[c].thread, asked)
    <3> DEFINE w == End(c, "asks", "")
    <3>1. x = [w EXCEPT !.asked = asked]
      BY <1>4, <2>2 DEF Settled, Body
    <3>2. w \in CardRec /\ w.events = card[c].events /\ w.st = "asks" /\ w.note = ""
      <4>1. w \in CardRec
        BY <1>1, EndType, EndNames
      <4>2. w.events = card[c].events /\ w.st = "asks" /\ w.note = ""
        BY <1>1 DEF End, CardRec
      <4> QED
        BY <4>1, <4>2
    <3>5. c \in Asks(b) \ told
      BY <1>4, <2>2 DEF Asks, Bodies, Body
    <3>6. asked \in Id /\ log[asked].thread = card[c].thread /\ log[asked].asks
      BY <3>5 DEF AskedRight
    <3> HIDE DEF asked, w, x
    <3>3. x.events = card[c].events /\ x.st = "asks" /\ x.note = "" /\ x.asked = asked
      BY <3>1, <3>2 DEF CardRec
    <3>4. AsksAt(b, c, x.asked)
      BY <2>2, <3>3, <3>6 DEF AsksAt
    <3> QED
      BY <3>3, <3>4 DEF SettledTo, x
  <2> QED
    BY <2>1, <2>2
<1>5. CASE r = "missing" \/ (r = "shared" /\ (card[c].resolved \/ card[c].exclusive))
  <2>1. x = Failed(c)
    BY <1>5 DEF Settled, Body
  <2>2. \/ x.events = card[c].events /\ x.st = "done" /\ x.note = "resolved"
        \/ x.events = card[c].events /\ x.st = "failed" /\ x.note = ""
    <3>1. x = End(c, "done", "resolved") \/ x = End(c, "failed", "")
      BY <2>1 DEF Failed
    <3> QED
      BY <1>1, <3>1 DEF End, CardRec
  <2> QED
    BY <2>2 DEF SettledTo, Open
<1>6. CASE r = "shared" /\ ~card[c].resolved /\ ~card[c].exclusive
  <2>1. x = [card[c] EXCEPT !.exclusive = TRUE]
    BY <1>6 DEF Settled, Body
  <2>2. x.events = card[c].events /\ x.st = "working" /\ x.note = ""
    BY <1>1, <2>1 DEF CardRec
  <2> QED
    BY <2>2 DEF SettledTo
<1> QED
  BY <1>1, <1>3, <1>4, <1>5, <1>6 DEF Result, Body

(* What a member c of batch b is after its batch settled it: it is x.       *)
SettledAs(b, c, x) ==
  /\ x.st = "failed" => x.batch = b
  /\ x.st = "queued" => x.batch = NoBatch /\ c \notin Bodies(b)
  /\ x.note = "replied" => x.batch = b /\ c \in Bodies(b)
  /\ x.st = "asks" => AsksAt(b, c, x.asked)

(* settle (queue.ts:600-623): members settle one by one, and a shared       *)
(* answer's card goes back to the queue; no ask is lost or asked twice.     *)
LEMMA SettleAsks ==
  ASSUME IInv, AsksHold(card, seen), NEW b \in DOMAIN batch, NEW S \in SUBSET Live(b),
         NEW told, S \cap Unposted(b) = {}, \A c \in S : AskedRight(b, c, told)
  PROVE  LET q == SettleCards(b, S, told) IN
         /\ AsksHold(q, seen)
         /\ \A c \in DOMAIN card \ S : q[c].note = card[c].note /\ q[c].asked = card[c].asked
         /\ \A c \in S : SettledAs(b, c, q[c])
<1> DEFINE cs == [c \in DOMAIN card |-> IF c \in S THEN Settled(b, c, told) ELSE card[c]]
           R == Again(b, S)
           q == Requeue(cs, R)
<1>1. /\ S \subseteq batch[b].members /\ S \subseteq DOMAIN card
      /\ \A c \in S : card[c].st = "working" /\ card[c].batch = b
      /\ \A c \in DOMAIN card : card[c] \in CardRec
  BY DEF Live, IInv, TypeOK, BatchesTyped, CardsTyped
<1>2. ASSUME NEW c \in S
      PROVE  /\ cs[c] \in CardRec /\ cs[c].thread = card[c].thread /\ cs[c].batch = b
             /\ IF c \in R THEN cs[c].st = "working"
                           ELSE cs[c].st \in {"done", "asks", "failed"}
             /\ SettledTo(b, c, cs[c])
  <2>1. cs[c] = Settled(b, c, told) /\ c \in batch[b].members
    BY <1>1, <1>2
  <2>2. c \in R <=> c \in Again(b, {c})
    BY <1>2 DEF Again
  <2>3. c \notin Unposted(b) /\ AskedRight(b, c, told)
    BY <1>2
  <2>4. TypeOK
    BY DEF IInv
  <2>5. /\ Settled(b, c, told) \in CardRec
        /\ Settled(b, c, told).thread = card[c].thread /\ Settled(b, c, told).batch = card[c].batch
        /\ IF c \in Again(b, {c}) THEN Settled(b, c, told).st = card[c].st
                                  ELSE Settled(b, c, told).st \in {"done", "asks", "failed"}
    BY <2>1, <2>3, <2>4, SettledFacts
  <2>6. card[c].note = ""
    BY <1>1, <1>2 DEF AsksHold, Open
  <2>7. SettledTo(b, c, Settled(b, c, told))
    BY <1>1, <2>1, <2>3, <2>4, <2>6, SettledAsks
  <2> HIDE DEF cs, R
  <2> QED
    BY <1>1, <2>1, <2>2, <2>5, <2>7
<1>3. DOMAIN cs = DOMAIN card /\ \A c \in DOMAIN card \ S : cs[c] = card[c]
  OBVIOUS
<1>4. R \subseteq S /\ \A c \in R : c \notin Bodies(b)
  BY <1>1 DEF Again, Bodies, Body
<1>5. q = SettleCards(b, S, told)
  BY DEF SettleCards
<1>6. \A c \in DOMAIN cs : cs[c] \in CardRec
  BY <1>1, <1>2, <1>3
<1> HIDE DEF cs, R
<1>7. OneQueuedIn(cs)
  <2>1. \A c \in DOMAIN cs : cs[c].st = "queued" => c \in Is("queued") /\ cs[c] = card[c]
    BY <1>2, <1>3 DEF Is
  <2> QED
    BY <2>1 DEF IInv, OneQueuedPerThread, OneQueuedIn
<1>8. AsksHold(cs, seen)
  <2>1. Alike(card, cs)
    <3>1. ASSUME NEW c \in S
          PROVE  /\ cs[c].events = card[c].events /\ Open(card[c])
                 /\ Open(cs[c]) => cs[c].note = ""
                 /\ cs[c].note # "merged"
      BY <1>1, <1>2 DEF SettledTo, Open
    <3>2. \A c \in DOMAIN card : Open(card[c]) => card[c].note = ""
      BY DEF AsksHold
    <3> QED
      BY <1>3, <3>1, <3>2 DEF Alike
  <2> QED
    BY <2>1, AlikeKeepsAsks
<1>9. AsksHold(q, seen)
  <2>1. \A c \in R : Open(cs[c]) /\ cs[c].st # "queued"
    BY <1>2, <1>4 DEF Open
  <2> QED
    BY <1>1, <1>3, <1>4, <1>6, <1>7, <1>8, <2>1, RequeueKeepsAsks
<1>10. R \subseteq DOMAIN cs
  BY <1>1, <1>3, <1>4
<1>11. \A c \in DOMAIN cs \ R : q[c].note = cs[c].note /\ q[c].asked = cs[c].asked
  BY <1>6, <1>10, RequeueStays
<1>12. /\ \A c \in DOMAIN cs \ R : q[c].st = cs[c].st /\ q[c].batch = cs[c].batch
       /\ \A c \in R : q[c].st \in {"queued", "done"} /\ q[c].batch = NoBatch
  BY <1>6, <1>10, RequeueFacts
<1>13. ASSUME NEW c \in R PROVE q[c].note \in {"", "merged"}
  <2>1. WentBack(cs, c, q[c])
    BY <1>6, <1>10, RequeueBacks
  <2> QED
    BY <2>1 DEF WentBack
<1> HIDE DEF q
<1>14. \A c \in DOMAIN card \ S : q[c].note = card[c].note /\ q[c].asked = card[c].asked
  BY <1>3, <1>4, <1>11
<1>15. ASSUME NEW c \in S PROVE SettledAs(b, c, q[c])
  <2>1. CASE c \in R
    BY <1>4, <1>12, <1>13, <2>1 DEF SettledAs
  <2>2. CASE c \notin R
    <3>1. c \in DOMAIN cs \ R
      BY <1>1, <1>3, <2>2
    <3>2. /\ q[c].st = cs[c].st /\ q[c].batch = b
          /\ q[c].note = cs[c].note /\ q[c].asked = cs[c].asked
      BY <1>2, <1>11, <1>12, <3>1
    <3> QED
      BY <1>2, <2>2, <3>2 DEF SettledAs, SettledTo
  <2> QED
    BY <2>1, <2>2
<1> QED
  BY <1>5, <1>9, <1>14, <1>15

-----------------------------------------------------------------------------
(* How early lines and questions are kept                                   *)

(* Members are cards, so replies and words that wait are read of cards the  *)
(* journal has.                                                             *)
LEMMA MembersAreCards ==
  ASSUME IInv
  PROVE  \A b \in DOMAIN batch : batch[b].members \subseteq DOMAIN card
  BY DEF IInv, TypeOK, BatchesTyped

(* Nothing is taken back: an entry keeps its words, one that asks asks on,  *)
(* and cards keep their threads and batches their members.                  *)
Grows ==
  /\ Id \subseteq Id' /\ ledger \subseteq ledger'
  /\ \A i \in Id : /\ log'[i].kind = log[i].kind /\ log'[i].thread = log[i].thread
                   /\ log'[i].batch = log[i].batch /\ (log[i].asks => log'[i].asks)
  /\ DOMAIN card \subseteq DOMAIN card' /\ DOMAIN batch \subseteq DOMAIN batch'
  /\ \A c \in DOMAIN card : card'[c].thread = card[c].thread
  /\ \A b \in DOMAIN batch : batch'[b].members = batch[b].members

(* What a step may do to the lines agents say early: one is said, or saved  *)
(* with the results, and only a batch with results, whose reply is not the  *)
(* early line, gets another.                                                *)
EarlyStep ==
  /\ \A b \in Batch : \/ said'[b].at \in {0, said[b].at}
                      \/ b \in DOMAIN batch /\ EarlyLine(b, said[b].at)'
  /\ \A b \in DOMAIN batch :
       /\ batch'[b].early \in {batch[b].early, said[b].at}
       /\ batch'[b].same \/ batch'[b].asked => batch'[b].saved /\ batch'[b].early # 0
       /\ ~batch'[b].saved \/ batch'[b].same => ~batch[b].saved \/ batch[b].same
  /\ \A b \in DOMAIN batch' \ DOMAIN batch :
       batch'[b].early = 0 /\ ~batch'[b].same /\ ~batch'[b].asked
  /\ \A i \in Id' \ Id : log'[i].kind = "agent" =>
       LET b == log'[i].batch IN b \in DOMAIN batch /\ batch[b].saved /\ ~batch[b].same

(* The early lines fit after such a step.                                   *)
LEMMA EarlyKept ==
  ASSUME IInv, JInv, Grows, EarlyStep
  PROVE  EarlyFits'
<1>1. \A b \in DOMAIN batch : b \in Batch /\ batch[b].members \subseteq DOMAIN card
  BY DEF IInv, TypeOK, BatchesTyped
<1>2. \A b, i : b \in DOMAIN batch /\ EarlyLine(b, i) => EarlyLine(b, i)'
  BY <1>1 DEF Grows, EarlyLine
<1>3. ASSUME NEW b \in Batch, said'[b].at # 0
      PROVE  b \in DOMAIN batch' /\ EarlyLine(b, said[b].at)'
  <2>1. CASE said'[b].at = said[b].at
    <3>1. b \in DOMAIN batch /\ EarlyLine(b, said[b].at)
      BY <1>3, <2>1 DEF JInv, EarlyFits
    <3>2. \A i : EarlyLine(b, i) => EarlyLine(b, i)'
      BY <1>2, <3>1
    <3>3. \A i : i = said[b].at => EarlyLine(b, i)'
      BY <3>1, <3>2
    <3>4. \A i : i = said'[b].at => EarlyLine(b, i)'
      BY <2>1, <3>3
    <3> QED
      BY <3>1, <3>4 DEF Grows, EarlyLine
  <2>2. CASE b \in DOMAIN batch /\ EarlyLine(b, said[b].at)'
    BY <2>2 DEF Grows
  <2> QED
    BY <1>3, <2>1, <2>2 DEF EarlyStep
<1>4. ASSUME NEW b \in DOMAIN batch', batch'[b].early # 0
      PROVE  EarlyLine(b, batch[b].early)'
  <2>1. b \in DOMAIN batch /\ batch'[b].early \in {batch[b].early, said[b].at}
    BY <1>4 DEF EarlyStep
  <2>2. ASSUME NEW i, i = batch'[b].early PROVE EarlyLine(b, i)
    BY <1>1, <1>4, <2>1, <2>2 DEF JInv, EarlyFits
  <2>3. \A i : i = batch'[b].early => EarlyLine(b, i)'
    BY <1>2, <2>1, <2>2
  <2> QED
    BY <2>3 DEF EarlyLine
<1>5. ASSUME NEW b \in DOMAIN batch', batch'[b].same \/ batch'[b].asked
      PROVE  batch'[b].saved /\ batch'[b].early # 0
  BY <1>5 DEF EarlyStep
<1>6. ASSUME NEW b \in DOMAIN batch', ~batch'[b].saved \/ batch'[b].same,
             NEW i \in Id', log'[i].kind = "agent", log'[i].batch = b
      PROVE  FALSE
  <2>1. CASE b \in DOMAIN batch
    <3>1. ~batch[b].saved \/ batch[b].same
      BY <1>6, <2>1 DEF EarlyStep
    <3>2. i \in Id
      BY <1>6, <3>1 DEF EarlyStep
    <3> QED
      BY <1>6, <2>1, <3>1, <3>2 DEF Grows, JInv, EarlyFits
  <2>2. CASE b \notin DOMAIN batch
    <3>1. i \in Id
      BY <1>6, <2>2 DEF EarlyStep
    <3> QED
      BY <1>6, <2>2, <3>1 DEF Grows, JInv, RepliesFit
  <2> QED
    BY <2>1, <2>2
<1> QED
  BY <1>3, <1>4, <1>5, <1>6 DEF EarlyFits

(* An answer stands.                                                        *)
LEMMA AnswersStand ==
  ASSUME Grows
  PROVE  \A t, i : AnsweredSince(t, i) => AnsweredSince(t, i)'
  BY DEF Grows, AnsweredSince

(* No reply is written, and batches keep theirs and what their results say. *)
NoReply ==
  /\ \A i \in Id' \ Id : log'[i].kind # "agent"
  /\ \A b \in DOMAIN batch : /\ batch'[b].results = batch[b].results
                             /\ batch'[b].saved = batch[b].saved /\ KeepsEarly(b)
  /\ \A b \in DOMAIN batch' \ DOMAIN batch :
       /\ batch'[b].early = 0 /\ ~batch'[b].same /\ ~batch'[b].asked
       /\ \A c \in batch'[b].members : batch'[b].results[c] = "missing"

(* A batch that keeps its results and its line keeps its questions, and an  *)
(* answer that came before one counts on.                                   *)
LEMMA AnswersEarlyStand ==
  ASSUME IInv, Grows, NEW b \in DOMAIN batch,
         batch'[b].results = batch[b].results, KeepsEarly(b)
  PROVE  Asks(b)' = Asks(b) /\ AnsweredEarly(b) \subseteq AnsweredEarly(b)'
<1>1. Asks(b)' = Asks(b) /\ Asks(b) \subseteq DOMAIN card
  BY MembersAreCards DEF Asks, Bodies, Grows
<1>2. \A t, i : AnsweredSince(t, i) => AnsweredSince(t, i)'
  BY AnswersStand
<1>3. ASSUME NEW c \in AnsweredEarly(b) PROVE c \in AnsweredEarly(b)'
  <2>1. c \in Asks(b) /\ batch[b].asked /\ AnsweredSince(card[c].thread, batch[b].early)
    BY DEF AnsweredEarly
  <2>2. \A t, i : t = card[c].thread /\ i = batch[b].early => AnsweredSince(t, i)'
    BY <1>2, <2>1
  <2>3. card'[c].thread = card[c].thread
    BY <1>1, <2>1 DEF Grows
  <2>4. \A t, i : t = card'[c].thread /\ i = batch'[b].early => AnsweredSince(t, i)'
    BY <2>2, <2>3 DEF KeepsEarly
  <2>5. AnsweredSince(card[c].thread, batch[b].early)'
    BY <2>4 DEF AnsweredSince
  <2> QED
    BY <1>1, <2>1, <2>5 DEF AnsweredEarly, KeepsEarly
<1> QED
  BY <1>1, <1>3

(* Such a step keeps what is said of early lines and of questions.          *)
LEMMA EarlyStays ==
  ASSUME IInv, JInv, Grows, NoReply, Mutes
  PROVE  EarlyFits' /\ AskedFits'
<1>1. EarlyStep
  <2>1. \A b \in Batch : said'[b].at \in {0, said[b].at}
    BY DEF Mutes, NoLine
  <2>2. \A b \in DOMAIN batch :
          batch[b].same \/ batch[b].asked => batch[b].saved /\ batch[b].early # 0
    BY DEF JInv, EarlyFits
  <2> QED
    BY <2>1, <2>2 DEF EarlyStep, NoReply, KeepsEarly
<1>2. EarlyFits'
  BY <1>1, EarlyKept
<1>3. ASSUME NEW b \in DOMAIN batch', NEW c \in Asks(b)', NEW i \in ReplyOf(b, c)',
             ~batch'[b].same, ~log'[i].asks
      PROVE  c \in AnsweredEarly(b)'
  <2>1. b \in DOMAIN batch
    BY <1>3 DEF NoReply, Asks, Bodies, Body
  <2>2. Asks(b)' = Asks(b) /\ AnsweredEarly(b) \subseteq AnsweredEarly(b)'
    BY <2>1, AnswersEarlyStand DEF NoReply
  <2>3. c \in Asks(b) /\ c \in DOMAIN card
    BY <1>3, <2>1, <2>2, MembersAreCards DEF Asks, Bodies
  <2>4. i \in Id /\ log'[i].kind = "agent" /\ ~log[i].asks /\ ~batch[b].same
    BY <1>3, <2>1 DEF ReplyOf, NoReply, KeepsEarly, Grows
  <2>5. i \in ReplyOf(b, c)
    BY <1>3, <2>3, <2>4 DEF ReplyOf, Grows
  <2> QED
    BY <2>1, <2>2, <2>3, <2>4, <2>5 DEF JInv, AskedFits
<1>4. AskedFits'
  BY <1>3 DEF AskedFits
<1> QED
  BY <1>2, <1>4

(* Cards that still ask, or that ask now with their question where it is,   *)
(* are unanswered; what was taken in must not answer them.                  *)
LEMMA QuestionsKept ==
  ASSUME IInv, JInv, Grows,
         \A c \in Is("asks")' :
           \/ /\ c \in Is("asks") /\ card'[c].asked = card[c].asked
              /\ \A i \in seen' \ seen : ~(log'[i].kind = "plain" /\ log'[i].thread = card[c].thread)
           \/ /\ c \in DOMAIN card /\ seen' = seen
              /\ \E b : AsksAt(b, c, card'[c].asked)
  PROVE  AskingIsUnanswered'
<1> SUFFICES ASSUME NEW c \in Is("asks")'
             PROVE  /\ card'[c].asked \in Id'
                    /\ log'[card'[c].asked].thread = card'[c].thread /\ log'[card'[c].asked].asks
                    /\ \A i \in seen' : ~(log'[i].kind = "plain" /\ log'[i].thread = card'[c].thread
                                            /\ i > card'[c].asked)
  BY DEF AskingIsUnanswered
<1>1. seen \subseteq Id
  BY DEF IInv, TypeOK
<1>2. CASE /\ c \in Is("asks") /\ card'[c].asked = card[c].asked
           /\ \A i \in seen' \ seen : ~(log'[i].kind = "plain" /\ log'[i].thread = card[c].thread)
  <2>1. /\ card[c].asked \in Id /\ c \in DOMAIN card
        /\ log[card[c].asked].thread = card[c].thread /\ log[card[c].asked].asks
        /\ \A i \in seen : ~(log[i].kind = "plain" /\ log[i].thread = card[c].thread
                               /\ i > card[c].asked)
    BY <1>2 DEF JInv, AskingIsUnanswered, Is
  <2> QED
    BY <1>1, <1>2, <2>1 DEF Grows
<1>3. CASE c \in DOMAIN card /\ seen' = seen /\ \E b : AsksAt(b, c, card'[c].asked)
  <2>1. /\ card'[c].asked \in Id
        /\ log[card'[c].asked].thread = card[c].thread /\ log[card'[c].asked].asks
        /\ ~AnsweredSince(card[c].thread, card'[c].asked)
    BY <1>3 DEF AsksAt
  <2>2. ASSUME NEW i \in seen, log[i].kind = "plain", log[i].thread = card[c].thread,
               i > card'[c].asked
        PROVE  FALSE
    <3>1. i \in Id \cap ledger
      BY <1>1, <2>2 DEF JInv, SeenLedgered
    <3> QED
      BY <2>1, <2>2, <3>1 DEF AnsweredSince
  <2> QED
    BY <1>1, <1>3, <2>1, <2>2 DEF Grows
<1> QED
  BY <1>2, <1>3

-----------------------------------------------------------------------------
(* Steps of the cards alone                                                 *)

(* A card stays as it is, ends, or - failed, and with no words that wait -  *)
(* goes back to the queue or into the card there.                           *)
Stays(c) ==
  /\ card'[c].st = card[c].st /\ card'[c].batch = card[c].batch
  /\ card'[c].note = card[c].note /\ card'[c].asked = card[c].asked
Closes(c) ==
  /\ card[c].st # "working"
  /\ card'[c].st \in {"done", "dropped"} /\ card'[c].note # "replied"
Returns(c) ==
  /\ card[c].st = "failed"
  /\ card'[c].st \in {"queued", "done"} /\ card'[c].note # "replied"
  /\ card'[c].batch = NoBatch /\ \A b \in DOMAIN batch : c \notin Unposted(b)

(* What a step of the cards alone does to the cards, as far as their words  *)
(* and questions go.                                                        *)
Turns ==
  /\ DOMAIN card \subseteq DOMAIN card'
  /\ \A c \in DOMAIN card : /\ card'[c].thread = card[c].thread
                            /\ Stays(c) \/ Closes(c) \/ Returns(c)
  /\ \A c \in DOMAIN card' \ DOMAIN card :
       card'[c].st = "queued" /\ card'[c].batch = NoBatch /\ card'[c].note = ""

(* A tag (queue.ts:103-132) becomes an ask of one card of its thread: the   *)
(* queued one, or the one it mints.                                         *)
LEMMA TaggedAsks ==
  ASSUME IInv, AsksHold(card, seen), NEW i \in Id \ seen, UNCHANGED log, Tagged(i)
  PROVE  AsksHold(card', seen \cup {i}) /\ Turns
<1> DEFINE t == log[i].thread
           queued == On(t, "queued")
           asking == FirstAsking(t)
           fresh == IF queued = {} THEN {i} ELSE {}
           new == [st |-> "queued", thread |-> t, events |-> {i}, batch |-> NoBatch,
                   resolved |-> FALSE, exclusive |-> FALSE, asked |-> 0, note |-> ""]
<1>1. PICK failed \in OneOf(IF asking = {} THEN On(t, "failed") ELSE {}) :
        card' = [c \in DOMAIN card \cup fresh |->
                  CASE c \notin DOMAIN card -> new
                    [] c \in asking -> End(c, "done", "answered")
                    [] c \in failed -> End(c, "done", "retried")
                    [] c \in queued -> [card[c] EXCEPT !.events = @ \cup {i}]
                    [] OTHER -> card[c]]
  BY DEF Tagged
<1>2. \A c \in DOMAIN card : card[c] \in CardRec
  BY DEF IInv, TypeOK, CardsTyped
<1>3. asking \subseteq Is("asks") /\ failed \subseteq Is("failed") /\ queued \subseteq Is("queued")
  <2>1. asking \subseteq On(t, "asks")
    <3>1. On(t, "asks") \subseteq Nat
      BY DEF On, Is, IInv, TypeOK, CardsTyped, Id
    <3> QED
      BY <3>1, SmallestIn DEF FirstAsking
  <2>2. failed \subseteq On(t, "failed")
    BY DEF OneOf
  <2> QED
    BY <2>1, <2>2 DEF On
<1>4. \A c, d \in queued : c = d
  BY DEF On, IInv, OneQueuedPerThread
<1>5. fresh \subseteq {i} /\ (fresh # {} <=> queued = {})
  OBVIOUS
<1>6. /\ new.st = "queued" /\ new.batch = NoBatch /\ new.note = "" /\ new.events = {i}
  OBVIOUS
<1> HIDE DEF queued, asking, fresh, new
<1>7. DOMAIN card' = DOMAIN card \cup fresh
  BY <1>1
<1>8. ASSUME NEW c \in DOMAIN card
      PROVE  /\ card'[c].thread = card[c].thread
             /\ \/ /\ c \notin queued /\ Open(card[c]) /\ Closes(c)
                   /\ card'[c].note # "merged" /\ card'[c].events = card[c].events
                \/ /\ c \in queued /\ Stays(c)
                   /\ card'[c].events = card[c].events \cup {i}
                \/ c \notin queued /\ card'[c] = card[c]
  <2>1. card[c] \in CardRec
    BY <1>2
  <2>2. CASE c \in asking \/ c \in failed
    <3>1. card'[c] = End(c, "done", "answered") \/ card'[c] = End(c, "done", "retried")
      <4>1. CASE c \in asking
        <5>1. c \notin failed /\ c \notin queued
          BY <1>3, <4>1 DEF Is
        <5> QED
          BY <1>1, <4>1, <5>1
      <4>2. CASE c \in failed
        <5>1. c \notin asking /\ c \notin queued
          BY <1>3, <4>2 DEF Is
        <5> QED
          BY <1>1, <4>2, <5>1
      <4> QED
        BY <2>2, <4>1, <4>2
    <3>2. card[c].st \in {"asks", "failed"} /\ c \notin queued
      BY <1>3, <2>2 DEF Is
    <3> QED
      BY <2>1, <3>1, <3>2 DEF End, CardRec, Closes, Open
  <2>3. CASE c \in queued
    <3>1. c \notin asking /\ c \notin failed
      BY <1>3, <2>3 DEF Is
    <3>2. card'[c] = [card[c] EXCEPT !.events = @ \cup {i}]
      BY <1>1, <2>3, <3>1
    <3> QED
      BY <2>1, <2>3, <3>2 DEF CardRec, Stays
  <2>4. CASE c \notin asking /\ c \notin failed /\ c \notin queued
    BY <1>1, <2>4
  <2> QED
    BY <2>2, <2>3, <2>4
<1>9. ASSUME NEW c \in DOMAIN card' \ DOMAIN card
      PROVE  card'[c] = new /\ queued = {} /\ c = i
  <2>1. c \in fresh /\ c \notin DOMAIN card
    BY <1>7, <1>9
  <2>2. c \notin asking /\ c \notin failed /\ c \notin queued
    BY <1>3, <2>1 DEF Is
  <2>3. card'[c] = new
    BY <1>1, <2>1, <2>2
  <2> QED
    BY <1>5, <2>1, <2>3
<1>10. Turns
  BY <1>6, <1>7, <1>8, <1>9 DEF Turns, Stays
<1>11. /\ DOMAIN card \subseteq seen
       /\ \A c \in DOMAIN card : card[c].events \subseteq seen /\ i \notin card[c].events
  BY DEF AsksHold
<1>12. /\ DOMAIN card' \subseteq seen \cup {i}
       /\ \A c \in DOMAIN card' : card'[c].events \subseteq seen \cup {i}
  BY <1>5, <1>6, <1>7, <1>8, <1>9, <1>11
<1>13. \A c \in DOMAIN card' : Open(card'[c]) => card'[c].note = ""
  <2>1. \A c \in DOMAIN card : Open(card[c]) => card[c].note = ""
    BY DEF AsksHold
  <2> QED
    BY <1>6, <1>8, <1>9, <2>1 DEF Open, Closes, Stays
<1>14. \A c \in DOMAIN card : Open(card'[c]) =>
         /\ Open(card[c])
         /\ card'[c].events = card[c].events \cup (IF c \in queued THEN {i} ELSE {})
  BY <1>8 DEF Open, Closes, Stays
<1>15. ASSUME NEW c \in DOMAIN card', NEW d \in DOMAIN card', c # d,
              Open(card'[c]), Open(card'[d])
       PROVE  card'[c].events \cap card'[d].events = {}
  <2>1. ASSUME NEW x \in DOMAIN card, NEW y \in DOMAIN card, x # y,
               Open(card'[x]), Open(card'[y])
        PROVE  card'[x].events \cap card'[y].events = {}
    <3>1. card[x].events \cap card[y].events = {}
      BY <1>14, <2>1 DEF AsksHold
    <3>2. x \notin queued \/ y \notin queued
      BY <1>4, <2>1
    <3> QED
      BY <1>11, <1>14, <2>1, <3>1, <3>2
  <2>2. ASSUME NEW x \in DOMAIN card, NEW y \in DOMAIN card' \ DOMAIN card, Open(card'[x])
        PROVE  card'[x].events \cap card'[y].events = {}
    BY <1>6, <1>9, <1>11, <1>14, <2>2
  <2>3. CASE c \notin DOMAIN card /\ d \notin DOMAIN card
    BY <1>9, <1>15, <2>3
  <2> QED
    BY <1>15, <2>1, <2>2, <2>3
<1>16. ASSUME NEW k \in seen \cup {i}, log[k].kind = "tag"
       PROVE  \E c \in DOMAIN card' : k \in card'[c].events /\ card'[c].note # "merged"
  <2>1. CASE k \in seen
    <3>1. PICK c \in DOMAIN card : k \in card[c].events /\ card[c].note # "merged"
      BY <1>16, <2>1 DEF AsksHold
    <3>2. c \in DOMAIN card'
      BY <1>7
    <3>3. k \in card'[c].events /\ card'[c].note # "merged"
      BY <1>8, <3>1 DEF Stays
    <3> QED
      BY <3>2, <3>3
  <2>2. CASE k = i /\ queued = {}
    <3>1. (i \in DOMAIN card' /\ i \notin DOMAIN card) \/ i \in DOMAIN card
      BY <1>5, <1>7, <2>2
    <3>2. i \notin DOMAIN card
      BY <1>11
    <3> QED
      BY <1>6, <1>9, <2>2, <3>1, <3>2
  <2>3. CASE k = i /\ queued # {}
    <3>1. PICK c \in queued : TRUE
      BY <2>3
    <3>2. c \in DOMAIN card /\ c \in DOMAIN card' /\ card[c].st = "queued"
      BY <1>3, <1>7, <3>1 DEF Is
    <3>3. card[c].note = ""
      BY <3>2 DEF AsksHold, Open
    <3>4. Stays(c) /\ card'[c].events = card[c].events \cup {i}
      BY <1>8, <3>1, <3>2
    <3> QED
      BY <2>3, <3>2, <3>3, <3>4 DEF Stays
  <2> QED
    BY <2>1, <2>2, <2>3
<1> QED
  BY <1>10, <1>12, <1>13, <1>15, <1>16 DEF AsksHold

(* An answer and a thread resolved by hand (queue.ts:134-163) end cards,    *)
(* and never one that works.                                                *)
LEMMA AnsweredAsks ==
  ASSUME IInv, AsksHold(card, seen), NEW i \in Id, UNCHANGED log, log[i].kind # "tag",
         Answered(i) \/ Resolved(i)
  PROVE  AsksHold(card', seen \cup {i}) /\ Turns
<1>1. DOMAIN card' = DOMAIN card
  BY DEF Answered, Resolved
<1>2. ASSUME NEW c \in DOMAIN card
      PROVE  /\ card'[c].thread = card[c].thread /\ card'[c].events = card[c].events
             /\ \/ Stays(c)
                \/ Closes(c) /\ card'[c].note # "merged"
  <2>1. card[c] \in CardRec
    BY DEF IInv, TypeOK, CardsTyped
  <2>2. CASE Answered(i)
    <3>1. card'[c] = IF c \in On(log[i].thread, "asks") THEN End(c, "done", "answered") ELSE card[c]
      BY <2>2 DEF Answered
    <3>2. c \in On(log[i].thread, "asks") => card[c].st = "asks"
      BY DEF On, Is
    <3> QED
      BY <2>1, <3>1, <3>2 DEF End, CardRec, Stays, Closes
  <2>3. CASE Resolved(i)
    <3>1. \/ card'[c] = End(c, "dropped", "resolved") /\ card[c].st = "queued"
          \/ card'[c] = End(c, "done", "resolved") /\ card[c].st \in {"asks", "failed"}
          \/ card'[c] = [card[c] EXCEPT !.resolved = TRUE]
          \/ card'[c] = card[c]
      BY <2>3 DEF Resolved
    <3>2. CASE card'[c] = [card[c] EXCEPT !.resolved = TRUE] \/ card'[c] = card[c]
      BY <2>1, <3>2 DEF CardRec, Stays
    <3>3. CASE card'[c] = End(c, "dropped", "resolved") /\ card[c].st = "queued"
      BY <2>1, <3>3 DEF End, CardRec, Closes
    <3>4. CASE card'[c] = End(c, "done", "resolved") /\ card[c].st \in {"asks", "failed"}
      BY <2>1, <3>4 DEF End, CardRec, Closes
    <3> QED
      BY <3>1, <3>2, <3>3, <3>4
  <2> QED
    BY <2>2, <2>3
<1>3. Turns
  BY <1>1, <1>2 DEF Turns
<1>4. Alike(card, card')
  <2>1. \A c \in DOMAIN card : Open(card[c]) => card[c].note = ""
    BY DEF AsksHold
  <2> QED
    BY <1>1, <1>2, <2>1 DEF Alike, Open, Stays, Closes
<1>5. AsksHold(card, seen \cup {i})
  BY DEF AsksHold
<1> QED
  BY <1>3, <1>4, <1>5, AlikeKeepsAsks

(* Dropping a queued card ends it.                                          *)
LEMMA DropAsks ==
  ASSUME IInv, AsksHold(card, seen), NEW c \in DOMAIN card, Drop(c)
  PROVE  AsksHold(card', seen) /\ Turns
<1>1. /\ DOMAIN card' = DOMAIN card /\ \A x \in DOMAIN card \ {c} : card'[x] = card[x]
      /\ card'[c] = End(c, "dropped", "") /\ card[c].st = "queued" /\ card[c] \in CardRec
  BY DEF Drop, IInv, TypeOK, CardsTyped
<1>2. /\ card'[c].thread = card[c].thread /\ card'[c].events = card[c].events
      /\ Closes(c) /\ card'[c].note = ""
  BY <1>1 DEF End, CardRec, Closes
<1>3. Turns
  BY <1>1, <1>2 DEF Turns, Stays
<1>4. Alike(card, card')
  <2>1. \A x \in DOMAIN card : Open(card[x]) => card[x].note = ""
    BY DEF AsksHold
  <2> QED
    BY <1>1, <1>2, <2>1 DEF Alike, Open, Closes
<1> QED
  BY <1>3, <1>4, AlikeKeepsAsks

(* Retry (daemon.ts:1705-1724) sends back only a card whose words do not    *)
(* wait: those of a batch that is done were posted, of one that failed      *)
(* there are none, and one that is claimed was given up.                    *)
LEMMA RetryAsks ==
  ASSUME IInv, JInv, NEW c \in DOMAIN card, Retry(c)
  PROVE  AsksHold(card', seen) /\ Turns
<1>1. /\ card' = Requeue(card, {c}) /\ card[c].st = "failed" /\ ~SavedReply(c)
      /\ UNCHANGED <<log, seen, batch>>
  BY DEF Retry
<1>2. AsksHold(card, seen) /\ \A x \in DOMAIN card : card[x] \in CardRec
  BY DEF JInv, IInv, TypeOK, CardsTyped
<1>3. AsksHold(card', seen)
  <2>1. OneQueuedIn(card)
    BY DEF IInv, OneQueuedPerThread, OneQueuedIn, Is
  <2>2. \A x \in {c} : Open(card[x]) /\ card[x].st # "queued"
    BY <1>1 DEF Open
  <2>3. {c} \subseteq DOMAIN card
    OBVIOUS
  <2> QED
    BY <1>1, <1>2, <2>1, <2>2, <2>3, RequeueKeepsAsks
<1>4. ASSUME NEW b \in DOMAIN batch PROVE c \notin Unposted(b)
  <2>1. SUFFICES ASSUME c \in Unposted(b) PROVE FALSE
    OBVIOUS
  <2>2. c \in Bodies(b) /\ b = card[c].batch
    BY <1>1, <2>1 DEF Unposted, JInv, NothingWaits
  <2>3. c \in FailedBodies(b)
    BY <1>1, <2>2 DEF FailedBodies
  <2>4. batch[b].st \in {"claimed", "done", "failed"}
    BY DEF IInv, TypeOK, BatchesTyped, BatchRec
  <2>5. batch[b].st # "done" /\ Saved(b)
    BY <2>1, <2>2 DEF JInv, WordsKept
  <2>6. batch[b].st = "claimed"
    BY <2>4, <2>5 DEF IInv, JobsFit
  <2>7. batch[b].undelivered
    BY <2>3, <2>6 DEF JInv, WordsKept
  <2> QED
    BY <1>1, <2>2, <2>6, <2>7 DEF SavedReply
<1>5. /\ DOMAIN card' = DOMAIN card
      /\ \A x \in DOMAIN card : card'[x].thread = card[x].thread
      /\ \A x \in DOMAIN card \ {c} : card'[x].st = card[x].st /\ card'[x].batch = card[x].batch
      /\ card'[c].st \in {"queued", "done"} /\ card'[c].batch = NoBatch
  BY <1>1, <1>2, RequeueFacts
<1>6. \A x \in DOMAIN card \ {c} : card'[x].note = card[x].note /\ card'[x].asked = card[x].asked
  <2> DEFINE q == Requeue(card, {c})
  <2>1. {c} \subseteq DOMAIN card
    OBVIOUS
  <2>2. \A x \in DOMAIN card \ {c} : q[x].note = card[x].note /\ q[x].asked = card[x].asked
    BY <1>2, <2>1, RequeueStays
  <2> QED
    BY <1>1, <2>2
<1>7. card'[c].note # "replied"
  <2>1. WentBack(card, c, card'[c])
    BY <1>1, <1>2, RequeueBacks
  <2> QED
    BY <2>1 DEF WentBack
<1>8. Returns(c)
  BY <1>1, <1>4, <1>5, <1>7 DEF Returns
<1>9. \A x \in DOMAIN card \ {c} : Stays(x)
  BY <1>5, <1>6 DEF Stays
<1> QED
  BY <1>3, <1>5, <1>8, <1>9 DEF Turns

-----------------------------------------------------------------------------
(* How the words and the questions are kept                                 *)

(* A step of the cards alone that brings back no card whose words wait      *)
(* keeps what is said of words.                                             *)
LEMMA TurnsKeepWords ==
  ASSUME IInv, JInv, Turns, Mutes, UNCHANGED <<log, ledger, batch>>
  PROVE  RepliesFit' /\ WordsKept' /\ NothingWaits' /\ EarlyFits' /\ AskedFits'
<1>1. \A b \in DOMAIN batch : batch[b].members \subseteq DOMAIN card
  BY MembersAreCards
<1>2. \A b, c : c \in DOMAIN card => ReplyOf(b, c)' = ReplyOf(b, c)
  BY DEF Turns, ReplyOf, Id
<1>3. ASSUME NEW b \in DOMAIN batch
      PROVE  Bodies(b)' = Bodies(b) /\ Unposted(b)' = Unposted(b)
  <2>1. Bodies(b)' = Bodies(b) /\ Bodies(b) \subseteq DOMAIN card
    BY <1>1 DEF Bodies
  <2> QED
    BY <1>2, <2>1 DEF Unposted
<1>4. \A c \in DOMAIN card : Stays(c) \/ Closes(c) \/ Returns(c)
  BY DEF Turns
<1>5. \A c \in DOMAIN card' \ DOMAIN card :
        card'[c].st = "queued" /\ card'[c].batch = NoBatch /\ card'[c].note = ""
  BY DEF Turns
<1>6. RepliesFit'
  <2>1. \A i \in Id' : log'[i].kind = "agent" => log'[i].batch \in DOMAIN batch'
    BY DEF JInv, RepliesFit, Id
  <2>2. \A b \in DOMAIN batch' : \A c \in batch'[b].members :
          \A i, j \in ReplyOf(b, c)' : i = j
    BY <1>1, <1>2 DEF JInv, RepliesFit
  <2>3. ASSUME NEW c \in DOMAIN card', card'[c].note = "replied"
        PROVE  card'[c].batch \in DOMAIN batch' /\ ReplyOf(card[c].batch, c)' # {}
    <3>1. c \in DOMAIN card /\ Stays(c)
      BY <1>4, <1>5, <2>3 DEF Closes, Returns
    <3>2. card[c].batch \in DOMAIN batch /\ ReplyOf(card[c].batch, c) # {}
      BY <2>3, <3>1 DEF Stays, JInv, RepliesFit
    <3>3. card'[c].thread = card[c].thread /\ card'[c].batch = card[c].batch
      BY <3>1 DEF Turns, Stays
    <3> QED
      BY <3>2, <3>3 DEF ReplyOf, Id
  <2>4. \A c \in DOMAIN card' : card'[c].note = "replied" =>
          card'[c].batch \in DOMAIN batch' /\ ReplyOf(card[c].batch, c)' # {}
    BY <2>3
  <2> QED
    BY <2>1, <2>2, <2>4 DEF RepliesFit
<1>7. WordsKept'
  <2>1. Unsaved' = Unsaved /\ \A b \in DOMAIN batch : Saved(b)' = Saved(b)
    BY DEF Unsaved, Saved
  <2>2. ASSUME NEW b \in Unsaved PROVE batch[b].members \subseteq Live(b)'
    <3>1. batch[b].members \subseteq Live(b)
      BY DEF JInv, WordsKept
    <3>2. \A c \in Live(b) : c \in DOMAIN card /\ Stays(c)
      BY <1>1, <1>4 DEF Live, Unsaved, Closes, Returns
    <3> QED
      BY <3>1, <3>2 DEF Live, Stays
  <2>3. ASSUME NEW b \in DOMAIN batch PROVE FailedBodies(b)' \subseteq FailedBodies(b)
    <3>1. \A c \in Bodies(b) : c \in DOMAIN card
      BY <1>1 DEF Bodies
    <3>2. \A c \in DOMAIN card : card'[c].st = "failed" => Stays(c)
      BY <1>4 DEF Closes, Returns
    <3> QED
      BY <1>3, <3>1, <3>2 DEF FailedBodies, Stays
  <2> QED
    BY <1>3, <2>1, <2>2, <2>3 DEF JInv, WordsKept
<1>8. NothingWaits'
  <2>1. ASSUME NEW c \in Is("queued")' PROVE card'[c].batch = NoBatch
    <3>1. CASE c \in DOMAIN card
      BY <1>4, <2>1, <3>1 DEF Is, Stays, Closes, Returns, JInv, NothingWaits
    <3>2. CASE c \notin DOMAIN card
      BY <1>5, <2>1, <3>2 DEF Is
    <3> QED
      BY <3>1, <3>2
  <2>2. ASSUME NEW c \in DOMAIN card', NEW b \in DOMAIN batch,
               card'[c].st \in {"queued", "working", "failed"}, b # card'[c].batch
        PROVE  c \notin Unposted(b)
    <3>1. CASE c \in DOMAIN card
      BY <1>4, <2>2, <3>1 DEF Stays, Closes, Returns, JInv, NothingWaits
    <3>2. CASE c \notin DOMAIN card
      BY <1>1, <3>2 DEF Unposted, Bodies
    <3> QED
      BY <3>1, <3>2
  <2> QED
    BY <1>3, <2>1, <2>2 DEF NothingWaits
<1>9. Grows /\ NoReply
  BY DEF Turns, Grows, NoReply, KeepsEarly, Id
<1> QED
  BY <1>6, <1>7, <1>8, <1>9, EarlyStays

(* ... and what is said of questions, where a plain reply that was taken in *)
(* left none of its thread open.                                            *)
LEMMA TurnsKeepQuestions ==
  ASSUME IInv, JInv, Turns, UNCHANGED <<log, ledger, batch>>,
         \A i \in seen' \ seen : log[i].kind \in {"tag", "plain"} => i \in ledger,
         \A i \in seen' \ seen : log[i].kind = "plain" =>
           \A c \in DOMAIN card : card'[c].st = "asks" => card[c].thread # log[i].thread
  PROVE  SeenLedgered' /\ AskingIsUnanswered'
<1>1. SeenLedgered'
  BY DEF JInv, SeenLedgered
<1>2. \A c \in Is("asks")' : /\ c \in Is("asks") /\ card'[c].asked = card[c].asked
                             /\ c \in DOMAIN card /\ card'[c].st = "asks"
  BY DEF Is, Turns, Stays, Closes, Returns
<1>3. Grows
  BY DEF Turns, Grows, Id
<1> QED
  BY <1>1, <1>2, <1>3, QuestionsKept

(* Steps of the owner on cards: Drop and Retry.                             *)
LEMMA ActKeeps ==
  ASSUME IInv, JInv, NEW c \in DOMAIN card, Drop(c) \/ Retry(c)
  PROVE  JInv'
<1>1. UNCHANGED <<log, ledger, seen, batch>> /\ Mutes
  BY DEF Drop, Retry, process, Mutes
<1>2. AsksHold(card, seen)
  BY DEF JInv
<1>3. AsksHold(card', seen) /\ Turns
  BY <1>2, DropAsks, RetryAsks
<1>4. RepliesFit' /\ WordsKept' /\ NothingWaits' /\ EarlyFits' /\ AskedFits'
  BY <1>1, <1>3, TurnsKeepWords
<1>5. SeenLedgered' /\ AskingIsUnanswered'
  BY <1>1, <1>3, TurnsKeepQuestions
<1>6. AsksHold(card, seen)'
  BY <1>1, <1>3 DEF AsksHold
<1> QED
  BY <1>4, <1>5, <1>6 DEF JInv

(* Taking in the oldest entry that may be.                                  *)
LEMMA IngestKeeps ==
  ASSUME IInv, JInv, Ingest
  PROVE  JInv'
<1> DEFINE i == SmallestOf(Eligible)
<1>1. i \in Eligible
  <2>1. Eligible \subseteq Nat /\ Eligible # {}
    BY DEF Ingest, Eligible, Id, IInv, TypeOK
  <2> QED
    BY <2>1, SmallestIn
<1>2. i \in Id \ seen /\ (log[i].kind \in {"tag", "plain"} => i \in ledger)
  BY <1>1 DEF Eligible
<1>3. UNCHANGED <<log, ledger, batch>> /\ seen' = seen \cup {i} /\ Mutes
  BY DEF Ingest, process, Mutes
<1>4. \/ log[i].kind = "tag" /\ Tagged(i)
      \/ log[i].kind = "plain" /\ Answered(i)
      \/ log[i].kind = "resolve" /\ Resolved(i)
  BY DEF Ingest
<1> HIDE DEF i
<1>5. AsksHold(card, seen)
  BY DEF JInv
<1>6. AsksHold(card', seen \cup {i}) /\ Turns
  <2>1. CASE log[i].kind = "tag" /\ Tagged(i)
    BY <1>2, <1>3, <1>5, <2>1, TaggedAsks
  <2>2. CASE log[i].kind # "tag" /\ (Answered(i) \/ Resolved(i))
    BY <1>2, <1>3, <1>5, <2>2, AnsweredAsks
  <2> QED
    BY <1>4, <2>1, <2>2
<1>7. RepliesFit' /\ WordsKept' /\ NothingWaits' /\ EarlyFits' /\ AskedFits'
  BY <1>3, <1>6, TurnsKeepWords
<1>8. ASSUME log[i].kind = "plain", NEW c \in DOMAIN card, card'[c].st = "asks"
      PROVE  card[c].thread # log[i].thread
  <2>1. Answered(i)
    BY <1>4, <1>8
  <2>2. card'[c] = IF c \in On(log[i].thread, "asks") THEN End(c, "done", "answered") ELSE card[c]
    BY <2>1 DEF Answered
  <2>3. card[c] \in CardRec
    BY DEF IInv, TypeOK, CardsTyped
  <2>4. c \notin On(log[i].thread, "asks")
    BY <1>8, <2>2, <2>3 DEF End, CardRec
  <2> QED
    BY <1>8, <2>2, <2>4 DEF On, Is
<1>9. SeenLedgered' /\ AskingIsUnanswered'
  <2>1. \A k \in seen' \ seen : log[k].kind \in {"tag", "plain"} => k \in ledger
    BY <1>2, <1>3
  <2>2. \A k \in seen' \ seen : log[k].kind = "plain" =>
          \A c \in DOMAIN card : card'[c].st = "asks" => card[c].thread # log[k].thread
    BY <1>3, <1>8
  <2> QED
    BY <1>3, <1>6, <2>1, <2>2, TurnsKeepQuestions
<1>10. AsksHold(card, seen)'
  BY <1>3, <1>6 DEF AsksHold
<1> QED
  BY <1>7, <1>9, <1>10 DEF JInv

-----------------------------------------------------------------------------
(* Steps of the log, of the ledger and of the process                       *)

(* A step that leaves cards, words and entries as they are, but for a flag: *)
(* the page ledgers, an agent is spawned, a delivery waits, the early line  *)
(* is flagged, the process stops or is up.                                  *)
LEMMA QuietKeeps ==
  ASSUME IInv, JInv, Grows, Id' = Id, NoReply, Mutes,
         UNCHANGED <<seen, card>>, DOMAIN batch' = DOMAIN batch,
         \A b \in DOMAIN batch : /\ batch'[b].st = batch[b].st
                                /\ batch'[b].undelivered = batch[b].undelivered
  PROVE  JInv'
<1>1. AsksHold(card, seen)'
  <2>1. seen \subseteq Id
    BY DEF IInv, TypeOK
  <2>2. \A i \in seen : log'[i].kind = log[i].kind
    BY <2>1 DEF Grows
  <2> QED
    BY <2>2 DEF JInv, AsksHold
<1>2. ASSUME NEW b \in DOMAIN batch PROVE \A c : ReplyOf(b, c)' = ReplyOf(b, c)
  BY DEF ReplyOf, Grows, NoReply, KeepsEarly
<1>3. \A b \in DOMAIN batch : /\ Bodies(b)' = Bodies(b) /\ Live(b)' = Live(b)
                              /\ Saved(b)' = Saved(b) /\ batch'[b].same = batch[b].same
  BY DEF Bodies, Live, Saved, Grows, NoReply, KeepsEarly
<1>4. \A b \in DOMAIN batch : Unposted(b)' = Unposted(b) /\ FailedBodies(b)' = FailedBodies(b)
  BY <1>2, <1>3 DEF Unposted, FailedBodies
<1>5. RepliesFit'
  <2>1. \A i \in Id' : log'[i].kind = "agent" => log'[i].batch \in DOMAIN batch'
    BY DEF JInv, RepliesFit, Grows
  <2>2. \A b \in DOMAIN batch' : \A c \in batch'[b].members :
          \A i, j \in ReplyOf(b, c)' : i = j
    BY <1>2 DEF JInv, RepliesFit, Grows
  <2>3. \A c \in DOMAIN card' : card'[c].note = "replied" =>
          card'[c].batch \in DOMAIN batch' /\ ReplyOf(card[c].batch, c)' # {}
    <3>1. \A c \in DOMAIN card : card[c].note = "replied" =>
            card[c].batch \in DOMAIN batch /\ ReplyOf(card[c].batch, c) # {}
      BY DEF JInv, RepliesFit
    <3>2. \A b \in DOMAIN batch : \A c : ReplyOf(b, c)' = ReplyOf(b, c)
      BY <1>2
    <3>3. \A c \in DOMAIN card : card[c].note = "replied" =>
            \A b : b = card[c].batch => ReplyOf(b, c)' # {}
      BY <3>1, <3>2
    <3> QED
      BY <3>1, <3>3 DEF ReplyOf
  <2> QED
    BY <2>1, <2>2, <2>3 DEF RepliesFit
<1>6. WordsKept'
  <2>1. Unsaved' = Unsaved
    BY <1>3 DEF Unsaved
  <2>2. Unsaved \subseteq DOMAIN batch
    BY DEF Unsaved
  <2>3. \A b \in DOMAIN batch : batch'[b].members = batch[b].members
    BY DEF Grows
  <2> QED
    BY <1>3, <1>4, <2>1, <2>2, <2>3 DEF JInv, WordsKept
<1>7. NothingWaits'
  BY <1>4 DEF JInv, NothingWaits, Is
<1>8. SeenLedgered'
  <2>1. seen \subseteq Id
    BY DEF IInv, TypeOK
  <2> QED
    BY <2>1 DEF JInv, SeenLedgered, Grows
<1>9. AskingIsUnanswered'
  <2>1. \A c \in Is("asks")' : c \in Is("asks") /\ card'[c].asked = card[c].asked
    BY DEF Is
  <2> QED
    BY <2>1, QuestionsKept
<1>10. EarlyFits' /\ AskedFits'
  BY EarlyStays
<1> QED
  BY <1>1, <1>5, <1>6, <1>7, <1>8, <1>9, <1>10 DEF JInv

(* An entry more: of the owner, a line said early (daemon.ts:919-926), or   *)
(* the one reply that a member's words waited for (326-338).                *)
LEMMA AppendKeeps ==
  ASSUME IInv, JInv, NEW e \in Entry, log' = Append(log, e),
         UNCHANGED <<ledger, journal>>,
         \A b \in Batch :
           \/ said'[b].at \in {0, said[b].at}
           \/ /\ b \in DOMAIN batch /\ said'[b].at = Len(log) + 1
              /\ e.kind = "early" /\ e.batch = b
              /\ \A c \in batch[b].members : e.thread = card[c].thread,
         \/ e.kind # "agent"
         \/ \E b \in DOMAIN batch : \E c \in Unposted(b) :
              /\ e.batch = b /\ e.thread = card[c].thread
              /\ e.asks = (c \in Asks(b) \ AnsweredEarly(b))
  PROVE  JInv'
<1> DEFINE n == Len(log) + 1
<1>1. UNCHANGED <<ledger, seen, card, batch>>
  BY DEF journal
<1>2. /\ Id' = Id \cup {n} /\ n \notin Id /\ log'[n] = e
      /\ \A i \in Id : log'[i] = log[i]
  <2>1. log \in Seq(Entry)
    BY DEF IInv, TypeOK
  <2> QED
    BY <2>1 DEF Id
<1>3. seen \subseteq Id
  BY DEF IInv, TypeOK
<1>4. \A b \in DOMAIN batch : batch[b].members \subseteq DOMAIN card
  BY MembersAreCards
<1> HIDE DEF n
<1>5. ASSUME NEW b \in DOMAIN batch
      PROVE  \A c : /\ ReplyOf(b, c) \subseteq ReplyOf(b, c)'
                    /\ ReplyOf(b, c)' \subseteq ReplyOf(b, c) \cup {n}
                    /\ n \in ReplyOf(b, c)' =>
                         e.kind = "agent" /\ e.batch = b /\ e.thread = card[c].thread
  <2>1. batch[b].same => batch[b].early # n
    BY <1>2 DEF JInv, EarlyFits, EarlyLine
  <2> QED
    BY <1>1, <1>2, <2>1 DEF ReplyOf
<1>6. AsksHold(card, seen)'
  <2>1. \A i \in seen : log'[i] = log[i]
    BY <1>2, <1>3
  <2>2. AsksHold(card, seen)
    BY DEF JInv
  <2>3. \A i \in seen : log'[i].kind = "tag" =>
          \E c \in DOMAIN card : i \in card[c].events /\ card[c].note # "merged"
    BY <2>1, <2>2 DEF AsksHold
  <2> QED
    BY <1>1, <2>2, <2>3 DEF AsksHold
<1>7. RepliesFit'
  <2>1. \A i \in Id' : log'[i].kind = "agent" => log'[i].batch \in DOMAIN batch'
    <3>1. e.kind = "agent" => e.batch \in DOMAIN batch
      OBVIOUS
    <3> QED
      BY <1>1, <1>2, <3>1 DEF JInv, RepliesFit
  <2>2. ASSUME NEW b \in DOMAIN batch, NEW c \in batch[b].members,
               NEW i \in ReplyOf(b, c)', NEW j \in ReplyOf(b, c)'
        PROVE  i = j
    <3>1. CASE n \notin ReplyOf(b, c)'
      <4>1. i \in ReplyOf(b, c) /\ j \in ReplyOf(b, c)
        BY <1>5, <3>1
      <4> QED
        BY <4>1 DEF JInv, RepliesFit
    <3>2. CASE n \in ReplyOf(b, c)'
      <4>1. PICK d \in Unposted(b) : e.thread = card[d].thread
        BY <1>5, <3>2
      <4>2. d \in batch[b].members /\ card[c].thread = card[d].thread
        BY <1>5, <3>2, <4>1 DEF Unposted, Bodies
      <4>3. ReplyOf(b, c) = {}
        <5>1. c = d
          BY <4>2 DEF IInv, MembersApart
        <5> QED
          BY <5>1 DEF Unposted
      <4> QED
        BY <1>5, <4>3
    <3> QED
      BY <3>1, <3>2
  <2>3. ASSUME NEW c \in DOMAIN card, card[c].note = "replied"
        PROVE  card[c].batch \in DOMAIN batch /\ ReplyOf(card[c].batch, c)' # {}
    <3>1. PICK i : i \in ReplyOf(card[c].batch, c)
      BY <2>3 DEF JInv, RepliesFit
    <3>2. i \in ReplyOf(card[c].batch, c)'
      BY <1>1, <1>2, <3>1 DEF ReplyOf
    <3> QED
      BY <2>3, <3>2 DEF JInv, RepliesFit
  <2> QED
    BY <1>1, <2>1, <2>2, <2>3 DEF RepliesFit
<1>8. \A b \in DOMAIN batch : /\ Bodies(b)' = Bodies(b) /\ Live(b)' = Live(b)
                              /\ Saved(b)' = Saved(b) /\ FailedBodies(b)' = FailedBodies(b)
  BY <1>1 DEF Bodies, Live, Saved, FailedBodies
<1>9. \A b \in DOMAIN batch : Unposted(b)' \subseteq Unposted(b)
  BY <1>1, <1>5, <1>8 DEF Unposted
<1>10. WordsKept'
  <2>1. Unsaved' = Unsaved /\ Unsaved \subseteq DOMAIN batch
    BY <1>1 DEF Unsaved, Saved
  <2>2. \A b \in DOMAIN batch : batch[b].st = "done" => Unposted(b)' = {}
    BY <1>9 DEF JInv, WordsKept
  <2> QED
    BY <1>1, <1>8, <2>1, <2>2 DEF JInv, WordsKept
<1>11. NothingWaits'
  <2>1. Is("queued")' = Is("queued")
    BY <1>1 DEF Is
  <2> QED
    BY <1>1, <1>9, <2>1 DEF JInv, NothingWaits
<1>12. Grows
  BY <1>1, <1>2 DEF Grows
<1>13. SeenLedgered' /\ AskingIsUnanswered'
  <2>1. \A i \in seen : log'[i] = log[i]
    BY <1>2, <1>3
  <2>2. Is("asks")' = Is("asks")
    BY <1>1 DEF Is
  <2> QED
    BY <1>1, <1>12, <2>1, <2>2, QuestionsKept DEF JInv, SeenLedgered
<1>14. EarlyFits'
  <2>1. ASSUME NEW b \in Batch
        PROVE  \/ said'[b].at \in {0, said[b].at}
               \/ b \in DOMAIN batch /\ EarlyLine(b, said[b].at)'
    BY <1>1, <1>2 DEF EarlyLine, n
  <2>2. \A b \in DOMAIN batch :
          batch[b].same \/ batch[b].asked => batch[b].saved /\ batch[b].early # 0
    BY DEF JInv, EarlyFits
  <2>3. ASSUME e.kind = "agent"
        PROVE  e.batch \in DOMAIN batch /\ batch[e.batch].saved /\ ~batch[e.batch].same
    BY <2>3 DEF Unposted, JInv, WordsKept, Saved
  <2>4. EarlyStep
    BY <1>1, <1>2, <2>1, <2>2, <2>3 DEF EarlyStep
  <2> QED
    BY <1>12, <2>4, EarlyKept
<1>15. ASSUME NEW b \in DOMAIN batch', NEW c \in Asks(b)', NEW i \in ReplyOf(b, c)',
              ~batch'[b].same, ~log'[i].asks
       PROVE  c \in AnsweredEarly(b)'
  <2>1. b \in DOMAIN batch /\ Asks(b)' = Asks(b) /\ Asks(b) \subseteq batch[b].members
    BY <1>1 DEF Asks, Bodies
  <2>2. AnsweredEarly(b) \subseteq AnsweredEarly(b)'
    BY <1>1, <1>12, <2>1, AnswersEarlyStand DEF KeepsEarly
  <2>3. CASE i \in ReplyOf(b, c)
    <3>1. i \in Id /\ ~log[i].asks /\ ~batch[b].same
      BY <1>1, <1>2, <1>15, <2>3 DEF ReplyOf
    <3> QED
      BY <2>1, <2>2, <2>3, <3>1, <1>15 DEF JInv, AskedFits
  <2>4. CASE i \notin ReplyOf(b, c)
    <3>1. i = n /\ n \in ReplyOf(b, c)'
      BY <1>5, <1>15, <2>1, <2>4
    <3>2. e.kind = "agent" /\ e.batch = b /\ e.thread = card[c].thread /\ ~e.asks
      BY <1>2, <1>5, <1>15, <2>1, <3>1
    <3>3. PICK d \in Unposted(b) : /\ e.thread = card[d].thread
                                   /\ e.asks = (d \in Asks(b) \ AnsweredEarly(b))
      BY <3>2
    <3>4. d \in batch[b].members /\ c \in batch[b].members
      BY <1>15, <2>1, <3>3 DEF Unposted, Bodies
    <3>5. d = c
      BY <2>1, <3>2, <3>3, <3>4 DEF IInv, MembersApart
    <3> QED
      BY <1>15, <2>1, <2>2, <3>2, <3>3, <3>5
  <2> QED
    BY <2>3, <2>4
<1>16. AskedFits'
  BY <1>15 DEF AskedFits
<1> QED
  BY <1>6, <1>7, <1>10, <1>11, <1>13, <1>14, <1>16 DEF JInv

(* Results are saved (daemon.ts:968-987) while every member still works   *)
(* for the batch, so none of them starts to wait beside another run.        *)
LEMMA SaveKeeps ==
  ASSUME IInv, JInv, NEW b \in DOMAIN batch, SaveResults(b)
  PROVE  JInv'
<1>1. UNCHANGED <<log, ledger, seen, card>> /\ phase[b] = "agent"
  BY DEF SaveResults
<1>2. PICK r \in [batch[b].members -> Result], same \in BOOLEAN, asked \in BOOLEAN :
        LET early == said[b].at
            question == \E c \in batch[b].members : r[c] = "asks"
        IN /\ same => early # 0 /\ \A c \in batch[b].members : r[c] \in Body
           /\ asked => early # 0 /\ question
           /\ early # 0 /\ question /\ (same \/ log[early].asks) => asked
           /\ batch' = [batch EXCEPT ![b].saved = TRUE, ![b].results = r,
                          ![b].early = early, ![b].same = same, ![b].asked = asked]
  BY DEF SaveResults
<1>3. /\ DOMAIN batch' = DOMAIN batch
      /\ \A x \in DOMAIN batch \ {b} : batch'[x] = batch[x]
  BY <1>2
<1>4. /\ batch'[b].members = batch[b].members /\ batch'[b].st = batch[b].st
      /\ batch'[b].undelivered = batch[b].undelivered /\ batch'[b].saved
      /\ batch'[b].early = said[b].at
      /\ batch'[b].same \/ batch'[b].asked => batch'[b].early # 0
  <2>1. batch[b] \in BatchRec(batch[b].members)
    BY DEF IInv, TypeOK, BatchesTyped
  <2> QED
    BY <1>2, <2>1 DEF BatchRec
<1>5. batch[b].st = "claimed" /\ b \in Unsaved /\ ~batch[b].saved
  BY <1>1 DEF IInv, JobsFit, Unsaved, Saved
<1>6. \A c \in batch[b].members : card[c].st = "working" /\ card[c].batch = b
  BY <1>5 DEF JInv, WordsKept, Live
<1>7. /\ \A x \in DOMAIN batch \ {b} : \A c : ReplyOf(x, c)' = ReplyOf(x, c)
      /\ \A c : ReplyOf(b, c) = {}
      /\ \A c : \A i \in ReplyOf(b, c)' : batch'[b].same /\ i = batch'[b].early
  <2>1. ~batch[b].same /\ \A i \in Id : ~(log[i].kind = "agent" /\ log[i].batch = b)
    BY <1>5 DEF JInv, EarlyFits
  <2> QED
    BY <1>1, <1>3, <2>1 DEF ReplyOf, Id
<1>8. \A x \in DOMAIN batch \ {b} :
        /\ Bodies(x)' = Bodies(x) /\ Live(x)' = Live(x) /\ Saved(x)' = Saved(x)
        /\ FailedBodies(x)' = FailedBodies(x)
  BY <1>1, <1>3 DEF Bodies, Live, Saved, FailedBodies
<1>9. \A x \in DOMAIN batch \ {b} : Unposted(x)' = Unposted(x)
  BY <1>3, <1>7, <1>8 DEF Unposted
<1>10. Unposted(b)' \subseteq batch[b].members /\ FailedBodies(b)' = {}
  BY <1>1, <1>4, <1>6 DEF Unposted, Bodies, FailedBodies
<1>11. RepliesFit'
  <2>1. \A i \in Id' : log'[i].kind = "agent" => log'[i].batch \in DOMAIN batch'
    BY <1>1, <1>3 DEF JInv, RepliesFit, Id
  <2>2. \A x \in DOMAIN batch' : \A c \in batch'[x].members :
          \A i, j \in ReplyOf(x, c)' : i = j
    BY <1>3, <1>4, <1>7 DEF JInv, RepliesFit
  <2>3. ASSUME NEW c \in DOMAIN card, card[c].note = "replied"
        PROVE  card[c].batch \in DOMAIN batch /\ ReplyOf(card[c].batch, c)' # {}
    <3>1. card[c].batch \in DOMAIN batch /\ ReplyOf(card[c].batch, c) # {}
      BY <2>3 DEF JInv, RepliesFit
    <3>2. card[c].batch \in DOMAIN batch \ {b}
      BY <1>7, <3>1
    <3>3. batch'[card[c].batch] = batch[card[c].batch]
      BY <1>3, <3>2
    <3> QED
      BY <1>1, <3>1, <3>3 DEF ReplyOf, Id
  <2> QED
    BY <1>1, <1>3, <2>1, <2>2, <2>3 DEF RepliesFit
<1>12. WordsKept'
  <2>1. Unsaved' \subseteq Unsaved \ {b}
    BY <1>3, <1>4 DEF Unsaved, Saved
  <2>2. ASSUME NEW x \in Unsaved' PROVE batch'[x].members \subseteq Live(x)'
    <3>1. x \in Unsaved /\ x \in DOMAIN batch \ {b}
      BY <2>1 DEF Unsaved
    <3> QED
      BY <1>3, <1>8, <3>1 DEF JInv, WordsKept
  <2>3. \A x \in DOMAIN batch : ~Saved(x)' => Bodies(x)' = {}
    BY <1>4, <1>8 DEF JInv, WordsKept, Saved
  <2>4. \A x \in DOMAIN batch : batch'[x].st = "done" => Unposted(x)' = {}
    BY <1>3, <1>4, <1>5, <1>9 DEF JInv, WordsKept
  <2>5. \A x \in DOMAIN batch :
          (batch'[x].st = "claimed" /\ FailedBodies(x)' # {}) => batch'[x].undelivered
    BY <1>3, <1>8, <1>10 DEF JInv, WordsKept
  <2> QED
    BY <1>3, <2>2, <2>3, <2>4, <2>5 DEF WordsKept
<1>13. NothingWaits'
  <2>1. ASSUME NEW c \in DOMAIN card, NEW x \in DOMAIN batch,
               card[c].st \in {"queued", "working", "failed"}, x # card[c].batch
        PROVE  c \notin Unposted(x)'
    <3>1. CASE x = b
      BY <1>6, <1>10, <2>1, <3>1
    <3>2. CASE x # b
      BY <1>9, <2>1, <3>2 DEF JInv, NothingWaits
    <3> QED
      BY <3>1, <3>2
  <2>2. \A c \in Is("queued")' : card'[c].batch = NoBatch
    BY <1>1 DEF JInv, NothingWaits, Is
  <2> QED
    BY <1>1, <1>3, <2>1, <2>2 DEF NothingWaits
<1>14. AsksHold(card, seen)' /\ SeenLedgered' /\ AskingIsUnanswered'
  <2>1. AsksHold(card, seen) /\ SeenLedgered /\ AskingIsUnanswered
    BY DEF JInv
  <2> QED
    BY <1>1, <2>1 DEF AsksHold, SeenLedgered, AskingIsUnanswered, Is, Id
<1>15. Grows
  BY <1>1, <1>3, <1>4 DEF Grows, Id
<1>16. EarlyFits'
  <2>1. \A x \in Batch : said'[x].at \in {0, said[x].at}
    BY DEF SaveResults, NoLine, IInv, TypeOK
  <2>2. \A x \in DOMAIN batch \ {b} :
          batch[x].same \/ batch[x].asked => batch[x].saved /\ batch[x].early # 0
    BY DEF JInv, EarlyFits
  <2>3. EarlyStep
    BY <1>1, <1>3, <1>4, <1>5, <2>1, <2>2 DEF EarlyStep, Id
  <2> QED
    BY <1>15, <2>3, EarlyKept
<1>17. ASSUME NEW x \in DOMAIN batch', NEW c \in Asks(x)', NEW i \in ReplyOf(x, c)',
              ~batch'[x].same, ~log'[i].asks
       PROVE  c \in AnsweredEarly(x)'
  <2>1. x \in DOMAIN batch \ {b}
    BY <1>3, <1>7, <1>17
  <2>2. Asks(x)' = Asks(x) /\ AnsweredEarly(x) \subseteq AnsweredEarly(x)'
    BY <1>3, <1>15, <2>1, AnswersEarlyStand DEF KeepsEarly
  <2>3. i \in ReplyOf(x, c) /\ ~log[i].asks /\ ~batch[x].same
    BY <1>1, <1>3, <1>7, <1>17, <2>1
  <2> QED
    BY <1>17, <2>1, <2>2, <2>3 DEF JInv, AskedFits
<1>18. AskedFits'
  BY <1>17 DEF AskedFits
<1> QED
  BY <1>11, <1>12, <1>13, <1>14, <1>16, <1>18 DEF JInv

-----------------------------------------------------------------------------
(* Steps that claim                                                         *)

(* New batches (queue.ts:476-568) are of queued cards, which have left every*)
(* batch they were in, and hold no words yet.                               *)
LEMMA FormsKeep ==
  ASSUME IInv, JInv, NEW N, NEW M, NEW F, NEW alone, Forms(N, M, F, alone)
  PROVE  JInv'
<1>1. /\ N \cap DOMAIN batch = {} /\ N \subseteq Batch /\ DOMAIN batch \subseteq Batch
      /\ DOMAIN batch' = DOMAIN batch \cup N /\ DOMAIN card' = DOMAIN card
      /\ \A x \in DOMAIN batch : batch'[x] = batch[x]
      /\ UNCHANGED <<log, ledger, seen, said>>
  BY DEF Forms, Fresh, IInv, TypeOK, BatchesTyped
<1>2. ASSUME NEW c \in DOMAIN card
      PROVE  \/ card'[c] = card[c]
             \/ /\ card[c].st = "queued" /\ card'[c].st = "working" /\ card'[c].note = ""
                /\ card'[c].events = card[c].events /\ card'[c].thread = card[c].thread
  <2>1. card[c] \in CardRec
    BY DEF IInv, TypeOK, CardsTyped
  <2>2. CASE \E b \in N : c \in M[b]
    <3>1. PICK b \in N : c \in M[b]
      BY <2>2
    <3>2. card'[c] = [card[c] EXCEPT !.st = "working", !.batch = b, !.note = ""]
      BY <3>1 DEF Forms, Claimed
    <3>3. card[c].st = "queued"
      BY <3>1 DEF Forms, Is
    <3> QED
      BY <2>1, <3>2, <3>3 DEF CardRec
  <2>3. CASE \A b \in N : c \notin M[b]
    BY <2>3 DEF Forms
  <2> QED
    BY <2>2, <2>3
<1>3. ASSUME NEW b \in N
      PROVE  /\ batch'[b].members = M[b] /\ batch'[b].st = "claimed" /\ ~batch'[b].saved
             /\ M[b] \subseteq DOMAIN card
             /\ \A c \in M[b] : batch'[b].results[c] = "missing"
             /\ batch'[b].early = 0 /\ ~batch'[b].same /\ ~batch'[b].asked
             /\ \A c \in M[b] : card'[c].st = "working" /\ card'[c].batch = b
  <2>1. batch'[b] = NewBatch(M[b], F[b], alone)
    BY DEF Forms
  <2>2. ASSUME NEW c \in M[b]
        PROVE  c \in DOMAIN card /\ card'[c].st = "working" /\ card'[c].batch = b
    <3>1. /\ c \in DOMAIN card
          /\ card'[c] = [card[c] EXCEPT !.st = "working", !.batch = b, !.note = ""]
      BY DEF Forms, Is, Claimed
    <3>2. card[c] \in CardRec
      BY <3>1 DEF IInv, TypeOK, CardsTyped
    <3> QED
      BY <3>1, <3>2 DEF CardRec
  <2> QED
    BY <2>1, <2>2 DEF NewBatch
<1>4. \A x \in DOMAIN batch : batch[x].members \subseteq DOMAIN card
  BY MembersAreCards
<1>5. ASSUME NEW x \in DOMAIN batch
      PROVE  \A c : c \in DOMAIN card => ReplyOf(x, c)' = ReplyOf(x, c)
  <2>1. batch'[x].same = batch[x].same /\ batch'[x].early = batch[x].early
    BY <1>1
  <2> QED
    BY <1>1, <1>2, <2>1 DEF ReplyOf, Id
<1>6. \A x \in N : \A c : ReplyOf(x, c)' = {}
  BY <1>1, <1>3 DEF ReplyOf, Id, JInv, RepliesFit
<1>7. ASSUME NEW x \in DOMAIN batch
      PROVE  Bodies(x)' = Bodies(x) /\ Unposted(x)' = Unposted(x) /\ Saved(x)' = Saved(x)
  <2>1. Bodies(x)' = Bodies(x) /\ Bodies(x) \subseteq DOMAIN card
    BY <1>1, <1>4 DEF Bodies
  <2> QED
    BY <1>1, <1>5, <2>1 DEF Unposted, Saved
<1>8. \A x \in N : Bodies(x)' = {} /\ Unposted(x)' = {} /\ FailedBodies(x)' = {}
  BY <1>3 DEF Bodies, Unposted, FailedBodies, Body
<1>9. AsksHold(card, seen)'
  <2>1. \A c \in DOMAIN card : Open(card[c]) => card[c].note = ""
    BY DEF JInv, AsksHold
  <2>2. Alike(card, card')
    BY <1>1, <1>2, <2>1 DEF Alike, Open
  <2>3. AsksHold(card', seen)
    BY <2>2, AlikeKeepsAsks DEF JInv
  <2> QED
    BY <1>1, <2>3 DEF AsksHold
<1>10. RepliesFit'
  <2>1. \A i \in Id' : log'[i].kind = "agent" => log'[i].batch \in DOMAIN batch'
    BY <1>1 DEF JInv, RepliesFit, Id
  <2>2. \A x \in DOMAIN batch' : \A c \in batch'[x].members :
          \A i, j \in ReplyOf(x, c)' : i = j
    BY <1>1, <1>4, <1>5, <1>6 DEF JInv, RepliesFit
  <2>3. ASSUME NEW c \in DOMAIN card, card'[c].note = "replied"
        PROVE  card'[c].batch \in DOMAIN batch' /\ ReplyOf(card[c].batch, c)' # {}
    <3>1. card'[c] = card[c]
      BY <1>2, <2>3
    <3>2. card[c].batch \in DOMAIN batch /\ ReplyOf(card[c].batch, c) # {}
      BY <2>3, <3>1 DEF JInv, RepliesFit
    <3> QED
      BY <1>1, <3>1, <3>2 DEF ReplyOf, Id
  <2>4. \A c \in DOMAIN card' : card'[c].note = "replied" =>
          card'[c].batch \in DOMAIN batch' /\ ReplyOf(card[c].batch, c)' # {}
    BY <1>1, <2>3
  <2> QED
    BY <2>1, <2>2, <2>4 DEF RepliesFit
<1>11. WordsKept'
  <2>1. ASSUME NEW x \in Unsaved' PROVE batch'[x].members \subseteq Live(x)'
    <3>1. CASE x \in N
      BY <1>3, <3>1 DEF Live
    <3>2. CASE x \in DOMAIN batch
      <4>1. batch[x].members \subseteq Live(x)
        BY <1>1, <2>1, <3>2 DEF Unsaved, Saved, JInv, WordsKept
      <4>2. \A c \in Live(x) : c \in DOMAIN card /\ card'[c] = card[c]
        BY <1>2, <1>4, <3>2 DEF Live
      <4> QED
        BY <1>1, <3>2, <4>1, <4>2 DEF Live
    <3> QED
      BY <1>1, <2>1, <3>1, <3>2 DEF Unsaved
  <2>2. ASSUME NEW x \in DOMAIN batch PROVE FailedBodies(x)' \subseteq FailedBodies(x)
    <3>1. Bodies(x) \subseteq DOMAIN card
      BY <1>4 DEF Bodies
    <3> QED
      BY <1>2, <1>7, <3>1 DEF FailedBodies
  <2>3. \A x \in DOMAIN batch' : ~Saved(x)' => Bodies(x)' = {}
    BY <1>1, <1>7, <1>8 DEF JInv, WordsKept
  <2>4. \A x \in DOMAIN batch' : batch'[x].st = "done" => Unposted(x)' = {}
    BY <1>1, <1>7, <1>8 DEF JInv, WordsKept
  <2>5. \A x \in DOMAIN batch' :
          (batch'[x].st = "claimed" /\ FailedBodies(x)' # {}) => batch'[x].undelivered
    BY <1>1, <1>8, <2>2 DEF JInv, WordsKept
  <2> QED
    BY <2>1, <2>3, <2>4, <2>5 DEF WordsKept
<1>12. NothingWaits'
  <2>1. ASSUME NEW c \in Is("queued")' PROVE card'[c].batch = NoBatch
    <3>1. c \in DOMAIN card /\ card'[c].st = "queued"
      BY <1>1 DEF Is
    <3>2. card'[c] = card[c]
      BY <1>2, <3>1
    <3>3. c \in Is("queued")
      BY <3>1, <3>2 DEF Is
    <3> QED
      BY <3>2, <3>3 DEF JInv, NothingWaits
  <2>2. ASSUME NEW c \in DOMAIN card, NEW x \in DOMAIN batch,
               card'[c].st \in {"queued", "working", "failed"}, x # card'[c].batch
        PROVE  c \notin Unposted(x)
    <3>1. CASE card'[c] = card[c]
      BY <2>2, <3>1 DEF JInv, NothingWaits
    <3>2. CASE card[c].st = "queued"
      <4>1. x # card[c].batch
        BY <1>1, <3>2, NoBatchAssumption DEF JInv, NothingWaits, Is
      <4> QED
        BY <3>2, <4>1 DEF JInv, NothingWaits
    <3> QED
      BY <1>2, <3>1, <3>2
  <2>3. \A c \in DOMAIN card' : \A x \in DOMAIN batch' :
          (card'[c].st \in {"queued", "working", "failed"} /\ x # card'[c].batch)
            => c \notin Unposted(x)'
    BY <1>1, <1>7, <1>8, <2>2
  <2> QED
    BY <2>1, <2>3 DEF NothingWaits
<1>13. SeenLedgered' /\ AskingIsUnanswered'
  <2>1. \A c \in Is("asks")' : c \in Is("asks") /\ card'[c] = card[c]
    BY <1>1, <1>2 DEF Is
  <2>2. SeenLedgered /\ AskingIsUnanswered
    BY DEF JInv
  <2> QED
    BY <1>1, <2>1, <2>2 DEF SeenLedgered, AskingIsUnanswered, Id
<1>14. EarlyFits' /\ AskedFits'
  <2>1. Grows
    BY <1>1, <1>2 DEF Grows, Id
  <2>2. NoReply
    BY <1>1, <1>3 DEF NoReply, KeepsEarly, Id
  <2>3. Mutes
    BY <1>1 DEF Mutes
  <2> QED
    BY <2>1, <2>2, <2>3, EarlyStays
<1> QED
  BY <1>9, <1>10, <1>11, <1>12, <1>13, <1>14 DEF JInv

-----------------------------------------------------------------------------
(* Steps that end a run, a delivery, or a try to deliver                    *)

(* How the cards and the words of a batch come out when it ends.            *)
Concludes(b) ==
  /\ AsksHold(card', seen)
  /\ \A c \in DOMAIN card \ Live(b) :
       card'[c].note = card[c].note /\ card'[c].asked = card[c].asked
  /\ \A c \in Live(b) : /\ SettledAs(b, c, card'[c])
                        /\ card'[c].note = "replied" => ReplyOf(b, c) # {}
  /\ batch'[b].st = "done" => Unposted(b) = {}

(* A batch that ends, or whose delivery is given up, leaves no words behind *)
(* that a card which runs again would not know of.                          *)
LEMMA EndsKeep ==
  ASSUME IInv, JInv, NEW b \in DOMAIN batch, Ends(b), Concludes(b)
  PROVE  JInv'
<1>1. /\ DOMAIN card' = DOMAIN card /\ DOMAIN batch' = DOMAIN batch
      /\ \A c \in DOMAIN card : card'[c].thread = card[c].thread
      /\ \A x \in DOMAIN batch \ {b} : batch'[x] = batch[x]
      /\ UNCHANGED <<log, ledger, seen>> /\ KeepsEarly(b) /\ Mutes
  BY DEF Ends
<1>2. /\ batch'[b].members = batch[b].members /\ batch'[b].results = batch[b].results
      /\ batch'[b].saved = batch[b].saved
      /\ \/ batch'[b].st \in {"done", "failed"}
         \/ batch'[b].st = batch[b].st /\ batch'[b].undelivered /\ batch[b].saved
  BY DEF Ends, BatchRec
<1>3. \A c \in DOMAIN card \ Live(b) :
        /\ card'[c].st = card[c].st /\ card'[c].batch = card[c].batch
        /\ card'[c].note = card[c].note /\ card'[c].asked = card[c].asked
  BY DEF Ends, Concludes
<1>4. \A c \in Live(b) :
        /\ c \in DOMAIN card /\ card[c].st = "working" /\ card[c].batch = b
        /\ card'[c].st # "working" /\ card'[c].batch \in {b, NoBatch}
        /\ card'[c].st = "failed" => card'[c].batch = b
        /\ card'[c].st = "queued" => card'[c].batch = NoBatch /\ c \notin Bodies(b)
        /\ card'[c].note = "replied" => card'[c].batch = b /\ ReplyOf(b, c) # {}
        /\ card'[c].st = "asks" => AsksAt(b, c, card'[c].asked)
  <2>1. Live(b) \subseteq DOMAIN card
    BY MembersAreCards DEF Live
  <2>2. \A c \in Live(b) : card[c].st = "working" /\ card[c].batch = b
    BY DEF Live
  <2>3. \A c \in Live(b) : card'[c].st # "working" /\ card'[c].batch \in {b, NoBatch}
    BY DEF Ends
  <2>4. \A c \in Live(b) : /\ SettledAs(b, c, card'[c])
                            /\ (card'[c].note = "replied" => ReplyOf(b, c) # {})
    BY DEF Concludes
  <2> QED
    BY <2>1, <2>2, <2>3, <2>4 DEF SettledAs
<1>5. \A x \in DOMAIN batch : batch[x].members \subseteq DOMAIN card /\ x # NoBatch
  BY MembersAreCards, NoBatchAssumption DEF IInv, TypeOK, BatchesTyped
<1>6. \A x \in DOMAIN batch : \A c : c \in DOMAIN card => ReplyOf(x, c)' = ReplyOf(x, c)
  BY <1>1 DEF KeepsEarly, ReplyOf, Id
<1>7. ASSUME NEW x \in DOMAIN batch
      PROVE  Bodies(x)' = Bodies(x) /\ Unposted(x)' = Unposted(x) /\ Saved(x)' = Saved(x)
  <2>1. /\ batch'[x].members = batch[x].members /\ batch'[x].results = batch[x].results
        /\ batch'[x].saved = batch[x].saved /\ batch'[x].same = batch[x].same
    BY <1>1, <1>2 DEF KeepsEarly
  <2>2. Bodies(x)' = Bodies(x) /\ Bodies(x) \subseteq DOMAIN card
    BY <1>5, <2>1 DEF Bodies
  <2> QED
    BY <1>6, <2>1, <2>2 DEF Unposted, Saved
<1>8. AsksHold(card, seen)'
  BY <1>1 DEF Concludes, AsksHold
<1>9. RepliesFit'
  <2>1. \A i \in Id' : log'[i].kind = "agent" => log'[i].batch \in DOMAIN batch'
    BY <1>1 DEF JInv, RepliesFit, Id
  <2>2. \A x \in DOMAIN batch' : \A c \in batch'[x].members :
          \A i, j \in ReplyOf(x, c)' : i = j
    BY <1>1, <1>2, <1>5, <1>6 DEF JInv, RepliesFit
  <2>3. ASSUME NEW c \in DOMAIN card, card'[c].note = "replied"
        PROVE  card'[c].batch \in DOMAIN batch' /\ ReplyOf(card[c].batch, c)' # {}
    <3>1. card'[c].batch \in DOMAIN batch /\ ReplyOf(card'[c].batch, c) # {}
      <4>1. CASE c \in Live(b)
        BY <1>4, <2>3, <4>1
      <4>2. CASE c \notin Live(b)
        <5>1. card[c].note = "replied" /\ card'[c].batch = card[c].batch
          BY <1>3, <2>3, <4>2
        <5> QED
          BY <5>1 DEF JInv, RepliesFit
      <4> QED
        BY <4>1, <4>2
    <3>2. ReplyOf(card[c].batch, c)' = ReplyOf(card'[c].batch, c)
      <4>1. batch'[card'[c].batch].same = batch[card'[c].batch].same
        BY <1>1, <3>1 DEF KeepsEarly
      <4>2. batch'[card'[c].batch].early = batch[card'[c].batch].early
        BY <1>1, <3>1 DEF KeepsEarly
      <4> QED
        BY <1>1, <4>1, <4>2 DEF ReplyOf, Id
    <3> QED
      BY <1>1, <3>1, <3>2
  <2>4. \A c \in DOMAIN card' : card'[c].note = "replied" =>
          card'[c].batch \in DOMAIN batch' /\ ReplyOf(card[c].batch, c)' # {}
    BY <1>1, <2>3
  <2> QED
    BY <2>1, <2>2, <2>4 DEF RepliesFit
<1>10. WordsKept'
  <2>1. ASSUME NEW x \in Unsaved' PROVE batch'[x].members \subseteq Live(x)'
    <3>1. x \in Unsaved /\ x \in DOMAIN batch \ {b}
      BY <1>1, <1>2 DEF Unsaved, Saved
    <3>2. batch[x].members \subseteq Live(x)
      BY <3>1 DEF JInv, WordsKept
    <3>3. \A c \in Live(x) : c \in DOMAIN card /\ c \notin Live(b)
      BY <1>5, <3>1 DEF Live
    <3> QED
      BY <1>1, <1>3, <3>1, <3>2, <3>3 DEF Live
  <2>2. ASSUME NEW x \in DOMAIN batch \ {b} PROVE FailedBodies(x)' \subseteq FailedBodies(x)
    <3>1. Bodies(x) \subseteq DOMAIN card
      BY <1>5 DEF Bodies
    <3>2. \A c \in Bodies(x) : card'[c].batch = x => c \notin Live(b)
      BY <1>4, <1>5
    <3> QED
      BY <1>3, <1>7, <3>1, <3>2 DEF FailedBodies
  <2>3. \A x \in DOMAIN batch : ~Saved(x)' => Bodies(x)' = {}
    BY <1>7 DEF JInv, WordsKept
  <2>4. ASSUME NEW x \in DOMAIN batch, batch'[x].st = "done" PROVE Unposted(x)' = {}
    BY <1>1, <1>7, <2>4 DEF JInv, WordsKept, Concludes
  <2>5. ASSUME NEW x \in DOMAIN batch, batch'[x].st = "claimed", FailedBodies(x)' # {}
        PROVE  batch'[x].undelivered
    BY <1>1, <1>2, <2>2, <2>5 DEF JInv, WordsKept
  <2> QED
    BY <1>1, <2>1, <2>3, <2>4, <2>5 DEF WordsKept
<1>11. NothingWaits'
  <2>1. ASSUME NEW c \in DOMAIN card, card'[c].st = "queued" PROVE card'[c].batch = NoBatch
    <3>1. CASE c \in Live(b)
      BY <1>4, <2>1, <3>1
    <3>2. CASE c \notin Live(b)
      <4>1. c \in Is("queued") /\ card'[c].batch = card[c].batch
        BY <1>3, <2>1, <3>2 DEF Is
      <4> QED
        BY <4>1 DEF JInv, NothingWaits
    <3> QED
      BY <3>1, <3>2
  <2>2. ASSUME NEW c \in DOMAIN card, NEW x \in DOMAIN batch,
               card'[c].st \in {"queued", "working", "failed"}, x # card'[c].batch
        PROVE  c \notin Unposted(x)
    <3>1. CASE c \notin Live(b)
      BY <1>3, <2>2, <3>1 DEF JInv, NothingWaits
    <3>2. CASE c \in Live(b) /\ x # b
      BY <1>4, <2>2, <3>2 DEF JInv, NothingWaits
    <3>3. CASE c \in Live(b) /\ x = b
      BY <1>4, <2>2, <3>3 DEF Unposted
    <3> QED
      BY <3>1, <3>2, <3>3
  <2>3. \A c \in Is("queued")' : card'[c].batch = NoBatch
    BY <1>1, <2>1 DEF Is
  <2> QED
    BY <1>1, <1>7, <2>2, <2>3 DEF NothingWaits
<1>12. SeenLedgered'
  BY <1>1 DEF JInv, SeenLedgered
<1>13. Grows /\ NoReply
  <2>1. \A x \in DOMAIN batch : KeepsEarly(x)
    BY <1>1 DEF KeepsEarly
  <2> QED
    BY <1>1, <1>2, <2>1 DEF Grows, NoReply, Id
<1>14. AskingIsUnanswered'
  <2>1. ASSUME NEW c \in Is("asks")'
        PROVE  \/ c \in Is("asks") /\ card'[c].asked = card[c].asked
               \/ c \in DOMAIN card /\ \E x : AsksAt(x, c, card'[c].asked)
    <3>1. c \in DOMAIN card /\ card'[c].st = "asks"
      BY <1>1, <2>1 DEF Is
    <3>2. CASE c \in Live(b)
      <4>1. AsksAt(b, c, card'[c].asked)
        BY <1>4, <3>1, <3>2
      <4> QED
        BY <3>1, <4>1
    <3>3. CASE c \notin Live(b)
      BY <1>3, <3>1, <3>3 DEF Is
    <3> QED
      BY <3>2, <3>3
  <2> QED
    BY <1>1, <1>13, <2>1, QuestionsKept
<1>15. EarlyFits' /\ AskedFits'
  BY <1>1, <1>13, EarlyStays
<1> QED
  BY <1>8, <1>9, <1>10, <1>11, <1>12, <1>14, <1>15 DEF JInv

(* fail (queue.ts:652-662): a run that fails saved no words.                *)
LEMMA FailKeeps ==
  ASSUME IInv, JInv, NEW b \in DOMAIN batch, Fail(b)
  PROVE  JInv'
<1>1. /\ Ends(b) /\ batch'[b].st = "failed" /\ Live(b) \subseteq DOMAIN card
      /\ \A c \in DOMAIN card \ Live(b) : card'[c] = card[c]
      /\ \A c \in Live(b) : card'[c] = Failed(c)
  BY FailEnds
<1>2. ASSUME NEW c \in Live(b)
      PROVE  /\ card'[c].batch = b /\ card'[c].events = card[c].events
             /\ \/ card'[c].st = "done" /\ card'[c].note = "resolved"
                \/ card'[c].st = "failed" /\ card'[c].note = ""
             /\ Open(card[c])
  <2>1. card[c] \in CardRec /\ card[c].batch = b /\ card[c].st = "working"
    BY <1>1 DEF Live, IInv, TypeOK, CardsTyped
  <2>2. card'[c] = End(c, "done", "resolved") \/ card'[c] = End(c, "failed", "")
    BY <1>1 DEF Failed
  <2> QED
    BY <2>1, <2>2 DEF End, CardRec, Open
<1>3. AsksHold(card', seen)
  <2>1. \A c \in DOMAIN card : Open(card[c]) => card[c].note = ""
    BY DEF JInv, AsksHold
  <2>2. DOMAIN card' = DOMAIN card
    BY <1>1 DEF Ends
  <2>3. Alike(card, card')
    BY <1>1, <1>2, <2>1, <2>2 DEF Alike, Open
  <2> QED
    BY <2>3, AlikeKeepsAsks DEF JInv
<1>4. Concludes(b)
  BY <1>1, <1>2, <1>3 DEF Concludes, SettledAs
<1> QED
  BY <1>1, <1>4, EndsKeep

(* Once everything is posted and flagged (daemon.ts:611-645), each member   *)
(* with words has its reply, and one that asks, and was not told to be      *)
(* answered, is flagged as asking.                                          *)
LEMMA PostedWords ==
  ASSUME IInv, JInv, NEW b \in DOMAIN batch, Unposted(b) = {}, Unflagged(b) = {},
         NEW told \in {AnsweredAtPost(b), AnsweredEarly(b)},
         NEW c \in batch[b].members
  PROVE  /\ c \in Bodies(b) => ReplyOf(b, c) # {}
         /\ AskedRight(b, c, told)
<1> DEFINE a == AskedAt(b, c)
<1>1. CASE batch[b].same
  <2>1. EarlyLine(b, batch[b].early) /\ a = batch[b].early
    BY <1>1 DEF JInv, EarlyFits, AskedAt
  <2>2. a \in Id /\ log[a].thread = card[c].thread /\ batch[b].early \in ReplyOf(b, c)
    BY <1>1, <2>1 DEF EarlyLine, ReplyOf
  <2>3. c \in Asks(b) \ told => log[a].asks
    BY <1>1, <2>1 DEF Unflagged, AnsweredAtPost
  <2> QED
    BY <2>2, <2>3 DEF AskedRight
<1>2. CASE ~batch[b].same
  <2>1. ASSUME c \in Bodies(b) PROVE a \in ReplyOf(b, c)
    <3>1. ReplyOf(b, c) # {} /\ a = SmallestOf(ReplyOf(b, c))
      BY <1>2, <2>1 DEF Unposted, AskedAt
    <3>2. ReplyOf(b, c) \subseteq Nat
      BY DEF ReplyOf, Id, IInv, TypeOK
    <3> QED
      BY <3>1, <3>2, SmallestIn
  <2>2. a \in ReplyOf(b, c) => a \in Id /\ log[a].thread = card[c].thread
    BY DEF ReplyOf
  <2>3. ASSUME c \in Asks(b) \ told PROVE log[a].asks
    <3>1. a \in ReplyOf(b, c)
      BY <2>1, <2>3 DEF Asks
    <3>2. told = AnsweredEarly(b) \/ told = AnsweredAtPost(b)
      OBVIOUS
    <3>3. CASE told = AnsweredEarly(b)
      BY <1>2, <2>3, <3>1, <3>3 DEF JInv, AskedFits
    <3>4. CASE told = AnsweredAtPost(b)
      BY <2>3, <3>4 DEF AnsweredAtPost
    <3> QED
      BY <3>2, <3>3, <3>4
  <2>4. c \in Asks(b) => c \in Bodies(b)
    BY DEF Asks
  <2> HIDE DEF a
  <2>5. c \in Asks(b) \ told => a \in Id /\ log[a].thread = card[c].thread /\ log[a].asks
    BY <2>1, <2>2, <2>3, <2>4
  <2> QED
    BY <2>1, <2>5 DEF AskedRight, a
<1> QED
  BY <1>1, <1>2

(* deliver, once everything is posted (daemon.ts:653-665).                  *)
LEMMA SettledKeeps ==
  ASSUME IInv, JInv, NEW b \in DOMAIN batch, Saved(b), SettleBatch(b),
         UNCHANGED <<log, ledger, seen, said, boot, crashes>>
  PROVE  JInv'
<1>0. PICK told \in {AnsweredAtPost(b), AnsweredEarly(b)} :
        card' = SettleCards(b, Live(b), told)
  BY DEF SettleBatch
<1> DEFINE q == SettleCards(b, Live(b), told)
<1>1. Ends(b)
  BY SettleEnds
<1>2. Unposted(b) = {} /\ Unflagged(b) = {} /\ card' = q
  BY <1>0 DEF SettleBatch
<1>3. \A c \in Live(b) : /\ c \in Bodies(b) => ReplyOf(b, c) # {}
                         /\ AskedRight(b, c, told)
  <2>1. Live(b) \subseteq batch[b].members
    BY DEF Live
  <2> QED
    BY <1>2, <2>1, PostedWords
<1>4. AsksHold(card, seen) /\ Live(b) \in SUBSET Live(b) /\ Live(b) \cap Unposted(b) = {}
  BY <1>2 DEF JInv
<1>5. /\ AsksHold(q, seen)
      /\ \A c \in DOMAIN card \ Live(b) : q[c].note = card[c].note /\ q[c].asked = card[c].asked
      /\ \A c \in Live(b) : SettledAs(b, c, q[c])
  BY <1>3, <1>4, SettleAsks
<1>6. \A c \in Live(b) : q[c].note = "replied" => c \in Bodies(b)
  BY <1>5 DEF SettledAs
<1> HIDE DEF q
<1>7. Concludes(b)
  BY <1>2, <1>3, <1>5, <1>6 DEF Concludes
<1> QED
  BY <1>1, <1>7, EndsKeep

(* undelivered (queue.ts:664-679): the words stay with the failed cards.    *)
LEMMA GivenUpKeeps ==
  ASSUME IInv, JInv, NEW b \in DOMAIN batch, Saved(b), GiveUp(b),
         UNCHANGED <<log, ledger, seen, said, boot, crashes>>
  PROVE  JInv'
<1> DEFINE S == Live(b) \ Bodies(b)
           q == SettleCards(b, S, {})
<1>1. Ends(b) /\ DOMAIN card' = DOMAIN card
  BY GiveUpEnds DEF Ends
<1>2. /\ card' = [c \in DOMAIN card |-> IF c \in Live(b) \cap Bodies(b)
                                          THEN End(c, "failed", "") ELSE q[c]]
      /\ batch' = [batch EXCEPT ![b].undelivered = TRUE]
  BY DEF GiveUp
<1>3. AsksHold(card, seen) /\ S \in SUBSET Live(b) /\ S \cap Bodies(b) = {}
  BY DEF JInv
<1>4. S \cap Unposted(b) = {} /\ \A c \in S : AskedRight(b, c, {})
  BY DEF Unposted, AskedRight, Asks
<1>5. /\ AsksHold(q, seen)
      /\ \A c \in DOMAIN card \ S : q[c].note = card[c].note /\ q[c].asked = card[c].asked
      /\ \A c \in S : SettledAs(b, c, q[c])
  BY <1>3, <1>4, SettleAsks
<1>6. /\ DOMAIN q = DOMAIN card
      /\ \A c \in DOMAIN card : q[c] \in CardRec
      /\ \A c \in DOMAIN card \ S : q[c].st = card[c].st
  BY <1>4, SettleFacts
<1>7. Live(b) \subseteq DOMAIN card
  BY MembersAreCards DEF Live
<1>8. \A c \in Live(b) \cap Bodies(b) : q[c].events = card[c].events
  <2>1. SUFFICES ASSUME NEW c \in Live(b) \cap Bodies(b) PROVE q[c].events = card[c].events
    OBVIOUS
  <2> DEFINE cs == [x \in DOMAIN card |-> IF x \in S THEN Settled(b, x, {}) ELSE card[x]]
             R == Again(b, S)
  <2>2. c \in DOMAIN card /\ c \notin S /\ cs[c] = card[c] /\ card[c].st = "working"
    BY <1>7 DEF Live
  <2>3. R \subseteq S /\ S \subseteq batch[b].members /\ DOMAIN cs = DOMAIN card
    BY DEF Again, Live
  <2>4. \A x \in DOMAIN cs : cs[x] \in CardRec
    <3>1. ASSUME NEW x \in S PROVE Settled(b, x, {}) \in CardRec
      <4>1. x \in batch[b].members /\ TypeOK /\ x \notin Unposted(b)
        BY <1>4, <2>3, <3>1 DEF IInv
      <4> QED
        BY <4>1, SettledFacts
    <3> QED
      BY <3>1 DEF IInv, TypeOK, CardsTyped
  <2>5. R \subseteq DOMAIN cs /\ c \in DOMAIN cs \ R
    BY <1>7, <2>2, <2>3
  <2>6. q = Requeue(cs, R)
    BY DEF SettleCards
  <2> HIDE DEF cs, R, q
  <2>7. q[c].events = IF cs[c].st = "queued" THEN cs[c].events \cup Brought(cs, R, c)
                                             ELSE cs[c].events
    BY <2>4, <2>5, <2>6, RequeueStays
  <2> QED
    BY <2>2, <2>7
<1> HIDE DEF q
<1>9. ASSUME NEW c \in Live(b) \cap Bodies(b)
      PROVE  /\ card'[c].st = "failed" /\ card'[c].note = "" /\ card'[c].batch = b
             /\ card'[c].events = q[c].events /\ Open(q[c])
  <2>1. /\ c \in DOMAIN card /\ card[c] \in CardRec /\ card[c].batch = b
        /\ card[c].st = "working" /\ c \notin S
    BY <1>7 DEF Live, IInv, TypeOK, CardsTyped
  <2>2. card'[c] = End(c, "failed", "")
    BY <1>2, <2>1
  <2>3. q[c].st = "working"
    BY <1>6, <2>1
  <2> QED
    BY <1>8, <2>1, <2>2, <2>3 DEF End, CardRec, Open
<1>10. \A c \in DOMAIN card : c \notin Live(b) \cap Bodies(b) => card'[c] = q[c]
  BY <1>2
<1>11. AsksHold(card', seen)
  <2>1. \A c \in DOMAIN card : Open(q[c]) => q[c].note = ""
    BY <1>5, <1>6 DEF AsksHold
  <2>2. Alike(q, card')
    BY <1>1, <1>6, <1>9, <1>10, <2>1 DEF Alike, Open
  <2> QED
    BY <1>5, <2>2, AlikeKeepsAsks
<1>12. ASSUME NEW c \in Live(b)
       PROVE  SettledAs(b, c, card'[c]) /\ card'[c].note # "replied"
  <2>1. CASE c \in Bodies(b)
    BY <1>9, <2>1 DEF SettledAs
  <2>2. CASE c \notin Bodies(b)
    <3>1. SettledAs(b, c, q[c]) /\ card'[c] = q[c]
      BY <1>5, <1>7, <1>10, <2>2
    <3> QED
      BY <2>2, <3>1 DEF SettledAs
  <2> QED
    BY <2>1, <2>2
<1>13. \A c \in DOMAIN card \ Live(b) :
         card'[c].note = card[c].note /\ card'[c].asked = card[c].asked
  BY <1>5, <1>10
<1>14. batch'[b].st = "done" => Unposted(b) = {}
  <2>1. batch[b] \in BatchRec(batch[b].members)
    BY DEF IInv, TypeOK, BatchesTyped
  <2>2. batch'[b].st = batch[b].st
    BY <1>2, <2>1 DEF BatchRec
  <2> QED
    BY <2>2 DEF JInv, WordsKept
<1>15. Concludes(b)
  BY <1>11, <1>12, <1>13, <1>14 DEF Concludes
<1> QED
  BY <1>1, <1>15, EndsKeep

(* Settling and giving up, by a job or by the barrier.                      *)
LEMMA DeliveryKeeps ==
  ASSUME IInv, JInv, NEW b \in DOMAIN batch,
         Settle(b) \/ Undelivered(b) \/ BarrierSettles(b) \/ BarrierGivesUp(b)
  PROVE  JInv'
<1>1. /\ SettleBatch(b) \/ GiveUp(b)
      /\ phase[b] = "post" \/ barrier.at = b
      /\ UNCHANGED <<log, ledger, seen, said, boot, crashes>>
  BY DEF Settle, Undelivered, BarrierSettles, BarrierGivesUp, JobEnds, NextAtBarrier, AtBarrier
<1>2. Saved(b)
  BY <1>1 DEF IInv, JobsFit
<1> QED
  BY <1>1, <1>2, SettledKeeps, GivenUpKeeps

-----------------------------------------------------------------------------
(* Steps that take saved words up again                                     *)

(* A card that takes its saved words up again keeps its asks and its batch, *)
(* so nothing else comes to hold words for it.                              *)
LEMMA RedeliveringKeeps ==
  ASSUME IInv, JInv, NEW b \in DOMAIN batch, Redelivering(b),
         UNCHANGED <<log, ledger, seen, said>>,
         batch[b].st = "claimed" \/ FailedBodies(b) = {}
  PROVE  JInv'
<1>1. /\ FailedBodies(b)' = {}
      /\ \A x \in DOMAIN batch \ {b} : FailedBodies(x)' \subseteq FailedBodies(x)
      /\ DOMAIN batch' = DOMAIN batch
      /\ \A x \in DOMAIN batch : /\ batch'[x].saved = batch[x].saved
                                 /\ batch'[x].st = batch[x].st
                                 /\ (x # b => batch'[x].undelivered = batch[x].undelivered)
  BY RedeliveringFacts
<1>2. \A x \in DOMAIN batch :
        /\ batch'[x].members = batch[x].members /\ batch'[x].results = batch[x].results
        /\ KeepsEarly(x)
  <2>1. batch[b] \in BatchRec(batch[b].members)
    BY DEF IInv, TypeOK, BatchesTyped
  <2>2. batch' = [batch EXCEPT ![b].undelivered = FALSE]
    BY DEF Redelivering
  <2> QED
    BY <2>1, <2>2 DEF BatchRec, KeepsEarly
<1>3. DOMAIN card' = DOMAIN card
  BY DEF Redelivering
<1>4. ASSUME NEW c \in DOMAIN card
      PROVE  \/ card'[c] = card[c]
             \/ /\ card[c].st = "failed" /\ card'[c].st = "working"
                /\ card'[c].note = "" /\ card'[c].batch = card[c].batch
                /\ card'[c].events = card[c].events /\ card'[c].thread = card[c].thread
  <2>1. card[c] \in CardRec
    BY DEF IInv, TypeOK, CardsTyped
  <2>2. CASE c \in Bodies(b) /\ card[c].st = "failed" /\ card[c].batch = b
    <3>1. card'[c] = End(c, "working", "")
      BY <2>2 DEF Redelivering
    <3> QED
      BY <2>1, <2>2, <3>1 DEF End, CardRec
  <2>3. CASE ~(c \in Bodies(b) /\ card[c].st = "failed" /\ card[c].batch = b)
    BY <2>3 DEF Redelivering
  <2> QED
    BY <2>2, <2>3
<1>5. \A x \in DOMAIN batch : batch[x].members \subseteq DOMAIN card
  BY MembersAreCards
<1>6. ASSUME NEW x \in DOMAIN batch
      PROVE  \A c : c \in DOMAIN card => ReplyOf(x, c)' = ReplyOf(x, c)
  <2>1. batch'[x].same = batch[x].same /\ batch'[x].early = batch[x].early
    BY <1>2 DEF KeepsEarly
  <2> QED
    BY <1>4, <2>1 DEF ReplyOf, Id
<1>7. ASSUME NEW x \in DOMAIN batch
      PROVE  Bodies(x)' = Bodies(x) /\ Unposted(x)' = Unposted(x) /\ Saved(x)' = Saved(x)
  <2>1. Bodies(x)' = Bodies(x) /\ Bodies(x) \subseteq DOMAIN card
    BY <1>2, <1>5 DEF Bodies
  <2> QED
    BY <1>1, <1>2, <1>6, <2>1 DEF Unposted, KeepsEarly, Saved
<1>8. AsksHold(card, seen)'
  <2>1. \A c \in DOMAIN card : Open(card[c]) => card[c].note = ""
    BY DEF JInv, AsksHold
  <2>2. Alike(card, card')
    BY <1>3, <1>4, <2>1 DEF Alike, Open
  <2>3. AsksHold(card', seen)
    BY <2>2, AlikeKeepsAsks DEF JInv
  <2> QED
    BY <2>3 DEF AsksHold
<1>9. RepliesFit'
  <2>1. \A i \in Id' : log'[i].kind = "agent" => log'[i].batch \in DOMAIN batch'
    BY <1>1 DEF JInv, RepliesFit, Id
  <2>2. \A x \in DOMAIN batch' : \A c \in batch'[x].members :
          \A i, j \in ReplyOf(x, c)' : i = j
    BY <1>1, <1>2, <1>5, <1>6 DEF JInv, RepliesFit
  <2>3. ASSUME NEW c \in DOMAIN card, card'[c].note = "replied"
        PROVE  card'[c].batch \in DOMAIN batch' /\ ReplyOf(card[c].batch, c)' # {}
    <3>1. card'[c] = card[c]
      BY <1>4, <2>3
    <3>2. card[c].batch \in DOMAIN batch /\ ReplyOf(card[c].batch, c) # {}
      BY <2>3, <3>1 DEF JInv, RepliesFit
    <3> QED
      BY <1>1, <1>2, <3>1, <3>2 DEF KeepsEarly, ReplyOf, Id
  <2>4. \A c \in DOMAIN card' : card'[c].note = "replied" =>
          card'[c].batch \in DOMAIN batch' /\ ReplyOf(card[c].batch, c)' # {}
    BY <1>3, <2>3
  <2> QED
    BY <2>1, <2>2, <2>4 DEF RepliesFit
<1>10. WordsKept'
  <2>1. ASSUME NEW x \in Unsaved' PROVE batch'[x].members \subseteq Live(x)'
    <3>1. x \in Unsaved /\ x \in DOMAIN batch
      BY <1>1 DEF Unsaved, Saved
    <3>2. batch[x].members \subseteq Live(x)
      BY <3>1 DEF JInv, WordsKept
    <3>3. \A c \in Live(x) : c \in DOMAIN card /\ card'[c] = card[c]
      BY <1>4, <1>5, <3>1 DEF Live
    <3> QED
      BY <1>2, <3>1, <3>2, <3>3 DEF Live
  <2>2. \A x \in DOMAIN batch : ~Saved(x)' => Bodies(x)' = {}
    BY <1>7 DEF JInv, WordsKept
  <2>3. \A x \in DOMAIN batch : batch'[x].st = "done" => Unposted(x)' = {}
    BY <1>1, <1>7 DEF JInv, WordsKept
  <2>4. \A x \in DOMAIN batch :
          (batch'[x].st = "claimed" /\ FailedBodies(x)' # {}) => batch'[x].undelivered
    BY <1>1 DEF JInv, WordsKept
  <2> QED
    BY <1>1, <2>1, <2>2, <2>3, <2>4 DEF WordsKept
<1>11. NothingWaits'
  <2>1. ASSUME NEW c \in Is("queued")' PROVE card'[c].batch = NoBatch
    <3>1. c \in Is("queued") /\ card'[c] = card[c]
      BY <1>3, <1>4 DEF Is
    <3> QED
      BY <3>1 DEF JInv, NothingWaits
  <2>2. ASSUME NEW c \in DOMAIN card, NEW x \in DOMAIN batch,
               card'[c].st \in {"queued", "working", "failed"}, x # card'[c].batch
        PROVE  c \notin Unposted(x)
    BY <1>4, <2>2 DEF JInv, NothingWaits
  <2> QED
    BY <1>1, <1>3, <1>7, <2>1, <2>2 DEF NothingWaits
<1>12. SeenLedgered' /\ AskingIsUnanswered'
  <2>1. \A c \in Is("asks")' : c \in Is("asks") /\ card'[c] = card[c]
    BY <1>3, <1>4 DEF Is
  <2>2. SeenLedgered /\ AskingIsUnanswered
    BY DEF JInv
  <2> QED
    BY <2>1, <2>2 DEF SeenLedgered, AskingIsUnanswered, Id
<1>13. EarlyFits' /\ AskedFits'
  <2>1. Grows /\ NoReply
    BY <1>1, <1>2, <1>3, <1>4 DEF Grows, NoReply, Id
  <2>2. Mutes
    BY DEF Mutes
  <2> QED
    BY <2>1, <2>2, EarlyStays
<1> QED
  BY <1>8, <1>9, <1>10, <1>11, <1>12, <1>13 DEF JInv

(* Retry of saved words, and the barrier's next batch.                      *)
LEMMA RedeliverKeeps ==
  ASSUME IInv, JInv,
         \/ \E c \in DOMAIN card : RetryDelivery(c)
         \/ \E b \in DOMAIN batch : Reconcile(b)
  PROVE  JInv'
<1>1. CASE \E c \in DOMAIN card : RetryDelivery(c)
  <2>1. PICK b \in DOMAIN batch : batch[b].st = "claimed" /\ Redelivering(b)
    BY <1>1 DEF RetryDelivery, SavedReply
  <2>2. UNCHANGED <<log, ledger, seen, said>>
    BY <1>1 DEF RetryDelivery
  <2> QED
    BY <2>1, <2>2, RedeliveringKeeps
<1>2. CASE \E b \in DOMAIN batch : Reconcile(b)
  <2>1. PICK b \in DOMAIN batch : Reconcile(b)
    BY <1>2
  <2>2. b \in barrier.todo /\ Redelivering(b) /\ UNCHANGED <<log, ledger, seen, said>>
    BY <2>1 DEF Reconcile
  <2>3. batch[b].st = "claimed" \/ FailedBodies(b) = {}
    BY <2>2 DEF IInv, TodoFits
  <2> QED
    BY <2>2, <2>3, RedeliveringKeeps
<1> QED
  BY <1>1, <1>2

(* At the start a batch whose packet is gone fails (daemon.ts:1300-1342);   *)
(* it had no results, so no words are left with its cards.                  *)
LEMMA RecoverKeeps ==
  ASSUME IInv, JInv, Recover
  PROVE  JInv'
<1>1. PICK gone \in SUBSET {b \in Leftover : ~Saved(b)} :
        /\ card' = [c \in DOMAIN card |-> IF \E b \in gone : c \in Live(b)
                                            THEN End(c, "failed", "") ELSE card[c]]
        /\ batch' = [b \in DOMAIN batch |-> IF b \in gone
                                              THEN [batch[b] EXCEPT !.st = "failed"]
                                              ELSE batch[b]]
  BY DEF Recover
<1>2. UNCHANGED <<log, ledger, seen, said>>
  BY DEF Recover
<1>3. /\ DOMAIN batch' = DOMAIN batch /\ DOMAIN card' = DOMAIN card
      /\ \A x \in DOMAIN batch :
           /\ batch'[x].members = batch[x].members /\ batch'[x].results = batch[x].results
           /\ batch'[x].saved = batch[x].saved /\ KeepsEarly(x)
           /\ batch'[x].undelivered = batch[x].undelivered
           /\ batch'[x].st = IF x \in gone THEN "failed" ELSE batch[x].st
  <2>1. \A x \in DOMAIN batch : batch[x] \in BatchRec(batch[x].members)
    BY DEF IInv, TypeOK, BatchesTyped
  <2> QED
    BY <1>1, <2>1 DEF BatchRec, KeepsEarly
<1>4. ASSUME NEW c \in DOMAIN card
      PROVE  \/ card'[c] = card[c] /\ \A x \in gone : c \notin Live(x)
             \/ /\ card[c].st = "working" /\ card[c].batch \in gone
                /\ card'[c].st = "failed" /\ card'[c].note = ""
                /\ card'[c].batch = card[c].batch
                /\ card'[c].events = card[c].events /\ card'[c].thread = card[c].thread
  <2>1. card[c] \in CardRec
    BY DEF IInv, TypeOK, CardsTyped
  <2>2. CASE \E b \in gone : c \in Live(b)
    <3>1. card'[c] = End(c, "failed", "")
      BY <1>1, <2>2
    <3> QED
      BY <2>1, <2>2, <3>1 DEF End, CardRec, Live
  <2>3. CASE ~(\E b \in gone : c \in Live(b))
    BY <1>1, <2>3
  <2> QED
    BY <2>2, <2>3
<1>5. \A x \in DOMAIN batch : batch[x].members \subseteq DOMAIN card
  BY MembersAreCards
<1>6. ASSUME NEW x \in DOMAIN batch
      PROVE  \A c : c \in DOMAIN card => ReplyOf(x, c)' = ReplyOf(x, c)
  <2>1. batch'[x].same = batch[x].same /\ batch'[x].early = batch[x].early
    BY <1>3 DEF KeepsEarly
  <2> QED
    BY <1>2, <1>4, <2>1 DEF ReplyOf, Id
<1>7. ASSUME NEW x \in DOMAIN batch
      PROVE  Bodies(x)' = Bodies(x) /\ Unposted(x)' = Unposted(x) /\ Saved(x)' = Saved(x)
  <2>1. Bodies(x)' = Bodies(x) /\ Bodies(x) \subseteq DOMAIN card
    BY <1>3, <1>5 DEF Bodies
  <2> QED
    BY <1>3, <1>6, <2>1 DEF Unposted, KeepsEarly, Saved
<1>8. AsksHold(card, seen)'
  <2>1. \A c \in DOMAIN card : Open(card[c]) => card[c].note = ""
    BY DEF JInv, AsksHold
  <2>2. Alike(card, card')
    <3>1. ASSUME NEW c \in DOMAIN card
          PROVE  /\ card'[c].events = card[c].events
                 /\ Open(card'[c]) => Open(card[c]) /\ card'[c].note = ""
                 /\ card'[c].note = "merged" => card[c].note = "merged"
      BY <1>4, <2>1 DEF Open
    <3> QED
      BY <1>3, <3>1 DEF Alike
  <2>3. AsksHold(card', seen)
    BY <2>2, AlikeKeepsAsks DEF JInv
  <2> QED
    BY <1>2, <2>3 DEF AsksHold
<1>9. RepliesFit'
  <2>1. \A i \in Id' : log'[i].kind = "agent" => log'[i].batch \in DOMAIN batch'
    BY <1>2, <1>3 DEF JInv, RepliesFit, Id
  <2>2. \A b \in DOMAIN batch' : \A c \in batch'[b].members :
          \A i, j \in ReplyOf(b, c)' : i = j
    BY <1>3, <1>5, <1>6 DEF JInv, RepliesFit
  <2>3. ASSUME NEW c \in DOMAIN card, card'[c].note = "replied"
        PROVE  card'[c].batch \in DOMAIN batch' /\ ReplyOf(card[c].batch, c)' # {}
    <3>1. card'[c] = card[c]
      BY <1>4, <2>3
    <3>2. card[c].batch \in DOMAIN batch /\ ReplyOf(card[c].batch, c) # {}
      BY <2>3, <3>1 DEF JInv, RepliesFit
    <3> QED
      BY <1>2, <1>3, <3>1, <3>2 DEF KeepsEarly, ReplyOf, Id
  <2>4. \A c \in DOMAIN card' : card'[c].note = "replied" =>
          card'[c].batch \in DOMAIN batch' /\ ReplyOf(card[c].batch, c)' # {}
    BY <1>3, <2>3
  <2> QED
    BY <2>1, <2>2, <2>4 DEF RepliesFit
<1>10. WordsKept'
  <2>1. ASSUME NEW x \in Unsaved' PROVE batch'[x].members \subseteq Live(x)'
    <3>1. x \in Unsaved /\ x \in DOMAIN batch /\ x \notin gone
      BY <1>3, <2>1 DEF Unsaved, Saved
    <3>2. batch[x].members \subseteq Live(x)
      BY <3>1 DEF JInv, WordsKept
    <3>3. \A c \in Live(x) : c \in DOMAIN card /\ card'[c] = card[c]
      BY <1>4, <1>5, <3>1 DEF Live
    <3> QED
      BY <1>3, <3>1, <3>2, <3>3 DEF Live
  <2>2. \A x \in DOMAIN batch : ~Saved(x)' => Bodies(x)' = {}
    BY <1>7 DEF JInv, WordsKept
  <2>3. \A x \in DOMAIN batch : batch'[x].st = "done" => Unposted(x)' = {}
    BY <1>3, <1>7 DEF JInv, WordsKept
  <2>4. ASSUME NEW x \in DOMAIN batch, batch'[x].st = "claimed"
        PROVE  FailedBodies(x)' \subseteq FailedBodies(x)
    <3>1. x \notin gone /\ Bodies(x) \subseteq DOMAIN card
      BY <1>3, <1>5, <2>4 DEF Bodies
    <3> QED
      BY <1>4, <1>7, <3>1 DEF FailedBodies
  <2>5. \A x \in DOMAIN batch :
          (batch'[x].st = "claimed" /\ FailedBodies(x)' # {}) => batch'[x].undelivered
    BY <1>3, <2>4 DEF JInv, WordsKept
  <2> QED
    BY <1>3, <2>1, <2>2, <2>3, <2>5 DEF WordsKept
<1>11. NothingWaits'
  <2>1. ASSUME NEW c \in Is("queued")' PROVE card'[c].batch = NoBatch
    <3>1. c \in Is("queued") /\ card'[c] = card[c]
      BY <1>3, <1>4, <2>1 DEF Is
    <3> QED
      BY <3>1 DEF JInv, NothingWaits
  <2>2. ASSUME NEW c \in DOMAIN card, NEW x \in DOMAIN batch,
               card'[c].st \in {"queued", "working", "failed"}, x # card'[c].batch
        PROVE  c \notin Unposted(x)
    BY <1>4, <2>2 DEF JInv, NothingWaits
  <2> QED
    BY <1>3, <1>7, <2>1, <2>2 DEF NothingWaits
<1>12. SeenLedgered' /\ AskingIsUnanswered'
  <2>1. \A c \in Is("asks")' : c \in Is("asks") /\ card'[c] = card[c]
    BY <1>3, <1>4 DEF Is
  <2>2. SeenLedgered /\ AskingIsUnanswered
    BY DEF JInv
  <2> QED
    BY <1>2, <2>1, <2>2 DEF SeenLedgered, AskingIsUnanswered, Id
<1>13. EarlyFits' /\ AskedFits'
  <2>1. Grows /\ NoReply
    BY <1>2, <1>3, <1>4 DEF Grows, NoReply, Id
  <2>2. Mutes
    BY <1>2 DEF Mutes
  <2> QED
    BY <2>1, <2>2, EarlyStays
<1> QED
  BY <1>8, <1>9, <1>10, <1>11, <1>12, <1>13 DEF JInv

-----------------------------------------------------------------------------
(* The invariant                                                            *)

(* What the owner writes, the lines said early, and the replies.            *)
LEMMA LogGrowsKeeps ==
  ASSUME IInv, JInv,
         \/ \E t \in Thread, k \in OwnerKind : Write(t, k)
         \/ \E b \in DOMAIN batch : SaysEarly(b)
         \/ \E b \in DOMAIN batch : \E c \in Bodies(b) : Post(b, c)
  PROVE  JInv'
<1>1. ASSUME NEW b \in DOMAIN batch, NEW c \in batch[b].members, NEW k \in {"early", "agent"},
             NEW asks \in BOOLEAN
      PROVE  [kind |-> k, thread |-> card[c].thread, batch |-> b, asks |-> asks] \in Entry
  <2>1. c \in DOMAIN card /\ b \in Batch
    BY MembersAreCards DEF IInv, TypeOK, BatchesTyped
  <2> QED
    BY <2>1 DEF Entry, IInv, TypeOK, CardsTyped, CardRec
<1>2. CASE \E t \in Thread, k \in OwnerKind : Write(t, k)
  <2>1. PICK t \in Thread, k \in OwnerKind : Write(t, k)
    BY <1>2
  <2> DEFINE e == [kind |-> k, thread |-> t, batch |-> NoBatch, asks |-> FALSE]
  <2>2. e \in Entry /\ e.kind # "agent" /\ log' = Append(log, e)
    BY <2>1 DEF Entry, OwnerKind, Write
  <2>3. UNCHANGED <<ledger, journal, said>>
    BY <2>1 DEF Write, process
  <2> HIDE DEF e
  <2> QED
    BY <2>2, <2>3, AppendKeeps
<1>3. CASE \E b \in DOMAIN batch : SaysEarly(b)
  <2>1. PICK b \in DOMAIN batch : SaysEarly(b)
    BY <1>3
  <2>2. PICK c \in batch[b].members, asks \in BOOLEAN :
          /\ batch[b].members = {c}
          /\ log' = Append(log, [kind |-> "early", thread |-> card[c].thread, batch |-> b,
                                 asks |-> asks])
    BY <2>1 DEF SaysEarly
  <2> DEFINE e == [kind |-> "early", thread |-> card[c].thread, batch |-> b, asks |-> asks]
  <2>3. e \in Entry /\ e.kind = "early" /\ e.batch = b /\ e.thread = card[c].thread
        /\ log' = Append(log, e)
    BY <1>1, <2>2
  <2>4. UNCHANGED <<ledger, journal>>
    BY <2>1 DEF SaysEarly
  <2>5. said' = [said EXCEPT ![b] = [at |-> Len(log) + 1, attempt |-> batch[b].attempts]]
    BY <2>1 DEF SaysEarly
  <2>6. said \in [Batch -> Line]
    BY DEF IInv, TypeOK
  <2>7. \A x \in Batch : said'[x].at = IF x = b THEN Len(log) + 1 ELSE said[x].at
    BY <2>5, <2>6
  <2> HIDE DEF e
  <2>8. \A d \in batch[b].members : e.thread = card[d].thread
    BY <2>2, <2>3
  <2> QED
    BY <2>3, <2>4, <2>7, <2>8, AppendKeeps
<1>4. CASE \E b \in DOMAIN batch : \E c \in Bodies(b) : Post(b, c)
  <2>1. PICK b \in DOMAIN batch : \E c \in Bodies(b) : Post(b, c)
    BY <1>4
  <2>2. PICK c \in Unposted(b) : Post(b, c)
    BY <2>1 DEF Post
  <2> DEFINE asks == c \in Asks(b) \ AnsweredEarly(b)
             e == [kind |-> "agent", thread |-> card[c].thread, batch |-> b, asks |-> asks]
  <2>3. c \in batch[b].members /\ asks \in BOOLEAN
    BY DEF Unposted, Bodies
  <2>4. e \in Entry
    <3> HIDE DEF asks
    <3> QED
      BY <1>1, <2>3
  <2>5. /\ e.batch = b /\ e.thread = card[c].thread /\ e.asks = asks
        /\ log' = Append(log, e) /\ UNCHANGED <<ledger, journal, said>>
    BY <2>2 DEF Post, process
  <2> HIDE DEF e
  <2> QED
    BY <2>4, <2>5, AppendKeeps
<1> QED
  BY <1>2, <1>3, <1>4

(* The steps that neither move a card nor write words: the ledger's, an     *)
(* agent's start, the early line's flag, a delivery that waits, a stop.     *)
LEMMA QuietSteps ==
  ASSUME IInv, JInv,
         \/ \E i \in Id : Ledger(i)
         \/ \E b \in DOMAIN batch :
              \/ LaunchDeferred(b) \/ Spawn(b) \/ Respawn(b) \/ Flags(b)
              \/ PostingFails(b) \/ Redeliver(b) \/ BarrierFails(b) \/ BarrierWakes(b)
         \/ Crash \/ Ready \/ UNCHANGED vars
  PROVE  JInv'
<1>1. CASE \E b \in DOMAIN batch : Spawn(b) \/ Respawn(b)
  <2>1. PICK b \in DOMAIN batch : Spawn(b) \/ Respawn(b)
    BY <1>1
  <2>2. /\ UNCHANGED <<log, ledger, seen, card, said>>
        /\ batch' = [batch EXCEPT ![b].attempts = batch[b].attempts + 1]
    BY <2>1 DEF Spawn, Respawn
  <2>3. batch[b] \in BatchRec(batch[b].members)
    BY DEF IInv, TypeOK, BatchesTyped
  <2>4. /\ DOMAIN batch' = DOMAIN batch
        /\ \A x \in DOMAIN batch :
             /\ batch'[x].members = batch[x].members /\ batch'[x].results = batch[x].results
             /\ batch'[x].saved = batch[x].saved /\ batch'[x].st = batch[x].st
             /\ batch'[x].undelivered = batch[x].undelivered /\ KeepsEarly(x)
    BY <2>2, <2>3 DEF BatchRec, KeepsEarly
  <2>5. Grows /\ NoReply /\ Mutes /\ Id' = Id
    BY <2>2, <2>4 DEF Grows, NoReply, Mutes, Id
  <2> QED
    BY <2>2, <2>4, <2>5, QuietKeeps
<1>2. CASE \E b \in DOMAIN batch : Flags(b)
  <2>1. PICK b \in DOMAIN batch : Flags(b)
    BY <1>2
  <2> DEFINE i == batch[b].early
  <2>2. /\ log' = [log EXCEPT ![i].asks = TRUE] /\ UNCHANGED <<ledger, seen, card, batch, said>>
        /\ batch[b].same
    BY <2>1 DEF Flags, Unflagged, process, journal
  <2>3. i \in Id /\ log \in Seq(Entry) /\ DOMAIN log = 1..Len(log)
    BY <2>2 DEF JInv, EarlyFits, EarlyLine, IInv, TypeOK
  <2>4. Id' = Id
    BY <2>2, <2>3 DEF Id
  <2>5. ASSUME NEW k \in Id
        PROVE  /\ log'[k].kind = log[k].kind /\ log'[k].thread = log[k].thread
               /\ log'[k].batch = log[k].batch /\ (log[k].asks => log'[k].asks)
    <3>1. log[k] \in Entry
      BY <2>3 DEF Id
    <3> QED
      BY <2>2, <2>3, <3>1 DEF Entry, Id
  <2>6. Grows /\ NoReply /\ Mutes
    BY <2>2, <2>4, <2>5 DEF Grows, NoReply, KeepsEarly, Mutes
  <2> QED
    BY <2>2, <2>4, <2>6, QuietKeeps
<1>3. CASE UNCHANGED <<log, seen, card, batch>> /\ ledger \subseteq ledger' /\ Mutes
  <2>1. Grows /\ NoReply /\ Id' = Id
    BY <1>3 DEF Grows, NoReply, KeepsEarly, Id
  <2> QED
    BY <1>3, <2>1, QuietKeeps
<1>4. (\E i \in Id : Ledger(i))
        => UNCHANGED <<log, seen, card, batch>> /\ ledger \subseteq ledger' /\ Mutes
  BY DEF Ledger, journal, process, Mutes
<1>5. (\E b \in DOMAIN batch :
         \/ LaunchDeferred(b) \/ PostingFails(b) \/ Redeliver(b)
         \/ BarrierFails(b) \/ BarrierWakes(b))
      => UNCHANGED <<log, seen, card, batch>> /\ ledger \subseteq ledger' /\ Mutes
  BY DEF LaunchDeferred, PostingFails, Redeliver, BarrierFails, BarrierWakes, journal, Mutes
<1>6. Crash \/ Ready \/ UNCHANGED vars
      => UNCHANGED <<log, seen, card, batch>> /\ ledger \subseteq ledger' /\ Mutes
  BY DEF Crash, Ready, vars, journal, process, Mutes
<1> QED
  BY <1>1, <1>2, <1>3, <1>4, <1>5, <1>6

(* An empty journal keeps every word.                                       *)
LEMMA InitiallyAsks ==
  Init => JInv
<1> SUFFICES ASSUME Init PROVE JInv
  OBVIOUS
<1>1. Id = {} /\ seen = {} /\ DOMAIN card = {} /\ DOMAIN batch = {}
  BY DEF Init, Id
<1> QED
  BY <1>1 DEF Init, JInv, AsksHold, RepliesFit, WordsKept, NothingWaits, EarlyFits,
     AskedFits, SeenLedgered, AskingIsUnanswered, Unsaved, Is, NoLine

(* Every step of Next, and a stutter, keeps it.                             *)
LEMMA AsksInductive ==
  IInv /\ JInv /\ [Next]_vars => JInv'
<1> SUFFICES ASSUME IInv, JInv, [Next]_vars PROVE JInv'
  OBVIOUS
<1>1. CASE Owner
  <2>1. CASE \E t \in Thread, k \in OwnerKind : Write(t, k)
    BY <2>1, LogGrowsKeeps
  <2>2. CASE \E i \in Id : Ledger(i)
    BY <2>2, QuietSteps
  <2>3. CASE \E c \in DOMAIN card : Drop(c) \/ Retry(c)
    BY <2>3, ActKeeps
  <2>4. CASE \E c \in DOMAIN card : RetryDelivery(c)
    BY <2>4, RedeliverKeeps
  <2> QED
    BY <1>1, <2>1, <2>2, <2>3, <2>4 DEF Owner
<1>2. CASE Ingest
  BY <1>2, IngestKeeps
<1>3. CASE FormAlone \/ FormOnFrames
  <2>1. \E N, M, F, alone : Forms(N, M, F, alone)
    BY <1>3, FormAloneForms, FormOnFramesForms
  <2> QED
    BY <2>1, FormsKeep
<1>4. CASE \E b \in DOMAIN batch : Work(b)
  <2>1. PICK b \in DOMAIN batch : Work(b)
    BY <1>4
  <2>2. CASE Replies(b)
    BY <2>2, LogGrowsKeeps, QuietSteps DEF Replies
  <2>3. CASE Job(b)
    BY <2>3, QuietSteps, FailKeeps, SaveKeeps, DeliveryKeeps DEF Job
  <2>4. CASE AtStart(b)
    BY <2>4, RedeliverKeeps, DeliveryKeeps, QuietSteps DEF AtStart
  <2> QED
    BY <2>1, <2>2, <2>3, <2>4 DEF Work
<1>5. CASE Crash \/ Recover \/ Ready \/ UNCHANGED vars
  BY <1>5, QuietSteps, RecoverKeeps
<1> QED
  BY <1>1, <1>2, <1>3, <1>4, <1>5 DEF Next

(* Both invariants hold in every behaviour, for all threads, frames,        *)
(* batches and limits: what the queue has taken in, an agent has saved or   *)
(* asked stays accounted for, wherever the process stops.                   *)
THEOREM AsksHoldAlways ==
  Spec => [](IInv /\ JInv)
<1>1. Init => IInv /\ JInv
  BY Initially, InitiallyAsks
<1>2. (IInv /\ JInv) /\ [Next]_vars => (IInv /\ JInv)'
  BY Inductive, AsksInductive
<1> QED
  BY <1>1, <1>2, PTL DEF Spec

-----------------------------------------------------------------------------
(* The theorems                                                             *)

(* queue.ts:103-132, 171-205: a tag that was taken in is an ask of a card   *)
(* that was not merged away, whatever was merged, dropped or failed since.  *)
THEOREM NoAskLostHolds ==
  Spec => []NoAskLost
<1>1. JInv => NoAskLost
  BY DEF JInv, AsksHold, NoAskLost
<1> QED
  BY <1>1, AsksHoldAlways, PTL

(* ... and it is in one card at most that still has something to do.        *)
THEOREM NoAskTwiceHolds ==
  Spec => []NoAskTwice
<1>1. JInv => NoAskTwice
  BY DEF JInv, AsksHold, NoAskTwice, Open
<1> QED
  BY <1>1, AsksHoldAlways, PTL

(* A card that says "replied" (queue.ts:625-649) has its words in the       *)
(* thread - the line its agent said early, where they are the same          *)
(* (daemon.ts:611, 620-642) - and each reply is there once (326-338),       *)
(* however often it was posted.                                             *)
THEOREM RepliedIsPostedHolds ==
  Spec => []RepliedIsPosted
<1>1. IInv /\ JInv => RepliedIsPosted
  <2> SUFFICES ASSUME IInv, JInv PROVE RepliedIsPosted
    OBVIOUS
  <2>1. ASSUME NEW b \in DOMAIN batch, NEW c \in batch[b].members
        PROVE  Cardinality(ReplyOf(b, c)) <= 1
    <3>1. CASE ReplyOf(b, c) = {}
      BY <3>1, FS_EmptySet
    <3>2. CASE ReplyOf(b, c) # {}
      <4>1. PICK i : i \in ReplyOf(b, c)
        BY <3>2
      <4>2. \A j \in ReplyOf(b, c) : j = i
        BY <4>1 DEF JInv, RepliesFit
      <4>3. ReplyOf(b, c) = {i}
        BY <4>1, <4>2
      <4>4. Cardinality({i}) = 1
        BY FS_Singleton
      <4> QED
        BY <4>3, <4>4
    <3> QED
      BY <3>1, <3>2
  <2> QED
    BY <2>1 DEF JInv, RepliesFit, RepliedIsPosted
<1> QED
  BY <1>1, AsksHoldAlways, PTL

(* A question that still asks (queue.ts:634-642) is an entry of its thread  *)
(* that says so - one answered before it was posted does not (daemon.ts:    *)
(* 620-642) - and was answered by no reply the queue has taken in after it. *)
THEOREM AskingIsUnansweredHolds ==
  Spec => []AskingIsUnanswered
<1>1. JInv => AskingIsUnanswered
  BY DEF JInv
<1> QED
  BY <1>1, AsksHoldAlways, PTL

(* daemon.ts:1227-1229: no card runs while words an earlier run saved for   *)
(* it are not in its thread.                                                *)
THEOREM SavedIsNotRerunHolds ==
  Spec => []SavedIsNotRerun
<1>1. JInv => SavedIsNotRerun
  BY DEF JInv, NothingWaits, SavedIsNotRerun, Is
<1> QED
  BY <1>1, AsksHoldAlways, PTL

(* daemon.ts:603-607: "a batch with results is reconciled, not rerun": its  *)
(* results are never written again, and no agent is started for it.         *)
THEOREM ResultsStandHolds ==
  Spec => ResultsStand
<1> DEFINE Stand == \A b \in DOMAIN batch : Saved(b) =>
                      /\ batch'[b].results = batch[b].results
                      /\ batch'[b].attempts = batch[b].attempts
<1>1. IInv /\ [Next]_vars => Stand
  <2> SUFFICES ASSUME IInv, [Next]_vars, NEW b \in DOMAIN batch, Saved(b)
               PROVE  batch'[b].results = batch[b].results /\ batch'[b].attempts = batch[b].attempts
    OBVIOUS
  <2> DEFINE Same == batch'[b].results = batch[b].results /\ batch'[b].attempts = batch[b].attempts
  <2>1. batch[b] \in BatchRec(batch[b].members) /\ phase[b] \notin {"deferred", "run", "agent"}
    BY DEF IInv, TypeOK, BatchesTyped, JobsFit, Saved
  <2>2. ASSUME NEW x \in DOMAIN batch,
               \/ batch' = [batch EXCEPT ![x].undelivered = FALSE]
               \/ batch' = [batch EXCEPT ![x].undelivered = TRUE]
               \/ batch' = [batch EXCEPT ![x].st = "done"]
        PROVE  Same
    BY <2>1, <2>2 DEF BatchRec
  <2>3. ASSUME NEW x \in DOMAIN batch, phase[x] \in {"run", "agent"},
               \A y \in DOMAIN batch \ {x} : batch'[y] = batch[y]
        PROVE  Same
    BY <2>1, <2>3
  <2>4. CASE UNCHANGED batch
    BY <2>4
  <2>5. CASE Owner
    <3>1. CASE \E c \in DOMAIN card : RetryDelivery(c)
      BY <2>2, <3>1 DEF RetryDelivery, SavedReply, Redelivering
    <3>2. CASE UNCHANGED batch
      BY <3>2
    <3> QED
      BY <2>5, <3>1, <3>2 DEF Owner, Write, Ledger, Drop, Retry, journal
  <2>6. CASE FormAlone \/ FormOnFrames
    <3>1. PICK N, M, F, alone : Forms(N, M, F, alone)
      BY <2>6, FormAloneForms, FormOnFramesForms
    <3>2. batch'[b] = batch[b]
      BY <3>1 DEF Forms
    <3> QED
      BY <3>2
  <2>7. CASE \E x \in DOMAIN batch : Work(x)
    <3>1. PICK x \in DOMAIN batch : Work(x)
      BY <2>7
    <3>2. CASE Spawn(x) \/ Respawn(x) \/ Fail(x) \/ SaveResults(x)
      <4>1. /\ phase[x] \in {"run", "agent"}
            /\ \A y \in DOMAIN batch \ {x} : batch'[y] = batch[y]
        BY <3>2 DEF Spawn, Respawn, Fail, SaveResults
      <4> QED
        BY <2>3, <4>1
    <3>3. CASE Settle(x) \/ BarrierSettles(x)
      BY <2>2, <3>3 DEF Settle, BarrierSettles, SettleBatch
    <3>4. CASE Undelivered(x) \/ BarrierGivesUp(x)
      BY <2>2, <3>4 DEF Undelivered, BarrierGivesUp, GiveUp
    <3>5. CASE Reconcile(x)
      BY <2>2, <3>5 DEF Reconcile, Redelivering
    <3>6. CASE \/ LaunchDeferred(x) \/ PostingFails(x) \/ Redeliver(x)
               \/ BarrierFails(x) \/ BarrierWakes(x) \/ Replies(x)
      BY <3>6 DEF LaunchDeferred, PostingFails, Redeliver, BarrierFails, BarrierWakes,
         Replies, Post, SaysEarly, Flags, journal
    <3> QED
      BY <3>1, <3>2, <3>3, <3>4, <3>5, <3>6 DEF Work, Job, AtStart
  <2>8. Ingest \/ Crash \/ Ready \/ UNCHANGED vars => UNCHANGED batch
    BY DEF Ingest, Crash, Ready, vars, journal
  <2>9. CASE Recover
    BY <2>1, <2>9 DEF Recover, BatchRec
  <2> QED
    BY <2>4, <2>5, <2>6, <2>7, <2>8, <2>9 DEF Next
<1>2. IInv /\ [Next]_vars => [Stand]_vars
  BY <1>1
<1> QED
  BY <1>2, InvariantHolds, PTL DEF Spec, ResultsStand
=============================================================================
