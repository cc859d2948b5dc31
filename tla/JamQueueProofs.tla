--------------------------- MODULE JamQueueProofs ---------------------------
(* What holds of the Live Jam queue for every number of threads, frames and *)
(* batches and every bound: its types, and the invariants of JamQueue that  *)
(* rest on the inductive invariant IInv.                                    *)
EXTENDS JamQueue, SequenceTheorems, WellFoundedInduction, TLAPS

-----------------------------------------------------------------------------
(* The operators *)

(* A set of numbers that is not empty holds its smallest: CHOOSE finds the *)
(* oldest entry, ask or card.                                              *)
LEMMA SmallestIn ==
  ASSUME NEW S, S \subseteq Nat, S # {}
  PROVE  SmallestOf(S) \in S
<1>1. PICK x \in S : \A y \in S : ~(<<y, x>> \in OpToRel(<, Nat))
  BY NatLessThanWellFounded, WFMin
<1>2. ASSUME NEW y \in S PROVE x <= y
  <2>1. x \in Nat /\ y \in Nat /\ <<y, x>> \notin OpToRel(<, Nat)
    BY <1>1
  <2> QED
    BY <2>1 DEF OpToRel
<1> QED
  BY <1>2 DEF SmallestOf

(* requeue (queue.ts:197-205): what goes back is queued or merged away,    *)
(* and a card already queued only gains asks; no thread, no other state    *)
(* moves.                                                                  *)
LEMMA RequeueFacts ==
  ASSUME NEW cs, NEW R, R \subseteq DOMAIN cs, \A c \in DOMAIN cs : cs[c] \in CardRec
  PROVE  LET q == Requeue(cs, R) IN
         /\ DOMAIN q = DOMAIN cs
         /\ \A c \in DOMAIN cs : q[c] \in CardRec /\ q[c].thread = cs[c].thread
         /\ \A c \in DOMAIN cs \ R : q[c].st = cs[c].st /\ q[c].batch = cs[c].batch
         /\ \A c \in R : /\ q[c].st \in {"queued", "done"} /\ q[c].batch = NoBatch
                         /\ q[c].st = "queued" =>
                              \A d \in DOMAIN cs : cs[d].st = "queued" => cs[d].thread # cs[c].thread
<1> DEFINE q == Requeue(cs, R)
           waiting(t) == {c \in DOMAIN cs : cs[c].st = "queued" /\ cs[c].thread = t}
           joins(c) == {r \in R : cs[r].thread = cs[c].thread}
<1>1. DOMAIN q = DOMAIN cs
  BY DEF Requeue
<1>2. ASSUME NEW c \in R, waiting(cs[c].thread) = {}
      PROVE  q[c] = [cs[c] EXCEPT !.batch = NoBatch, !.note = "", !.st = "queued"]
  BY <1>2 DEF Requeue
<1>3. ASSUME NEW c \in R, waiting(cs[c].thread) # {}
      PROVE  q[c] = [cs[c] EXCEPT !.batch = NoBatch, !.note = "merged", !.st = "done"]
  BY <1>3 DEF Requeue, CardRec
<1>4. ASSUME NEW c \in DOMAIN cs \ R, cs[c].st = "queued"
      PROVE  q[c] = [cs[c] EXCEPT !.events = @ \cup UNION {cs[r].events : r \in joins(c)},
                             !.exclusive = @ \/ \E r \in joins(c) : cs[r].exclusive]
  BY <1>4 DEF Requeue
<1>5. ASSUME NEW c \in DOMAIN cs \ R, cs[c].st # "queued"
      PROVE  q[c] = cs[c]
  BY <1>5 DEF Requeue
<1>6. ASSUME NEW c \in R
      PROVE  /\ q[c] \in CardRec /\ q[c].thread = cs[c].thread
             /\ q[c].st \in {"queued", "done"} /\ q[c].batch = NoBatch
             /\ q[c].st = "queued" =>
                   \A d \in DOMAIN cs : cs[d].st = "queued" => cs[d].thread # cs[c].thread
  <2>1. cs[c] \in CardRec
    OBVIOUS
  <2>2. CASE waiting(cs[c].thread) = {}
    <3>1. q[c] = [cs[c] EXCEPT !.batch = NoBatch, !.note = "", !.st = "queued"]
      BY <1>2, <2>2
    <3>2. /\ q[c] \in CardRec /\ q[c].thread = cs[c].thread /\ q[c].st = "queued"
          /\ q[c].batch = NoBatch
      BY <2>1, <3>1 DEF CardRec, CardState, Note
    <3> QED
      BY <2>2, <3>2
  <2>3. CASE waiting(cs[c].thread) # {}
    <3>1. q[c] = [cs[c] EXCEPT !.batch = NoBatch, !.note = "merged", !.st = "done"]
      BY <1>3, <2>3
    <3>2. /\ q[c] \in CardRec /\ q[c].thread = cs[c].thread /\ q[c].st = "done"
          /\ q[c].batch = NoBatch
      BY <2>1, <3>1 DEF CardRec, CardState, Note
    <3> QED
      BY <3>2
  <2> QED BY <2>2, <2>3
<1>7. ASSUME NEW c \in DOMAIN cs \ R
      PROVE  /\ q[c] \in CardRec /\ q[c].thread = cs[c].thread
             /\ q[c].st = cs[c].st /\ q[c].batch = cs[c].batch
  <2>1. cs[c] \in CardRec /\ \A r \in R : cs[r].events \in SUBSET Nat
    BY DEF CardRec
  <2> DEFINE more == UNION {cs[r].events : r \in joins(c)}
             alone == \E r \in joins(c) : cs[r].exclusive
  <2>2. more \in SUBSET Nat /\ alone \in BOOLEAN
    BY <2>1
  <2>3. CASE cs[c].st = "queued"
    <3>1. q[c] = [cs[c] EXCEPT !.events = @ \cup more, !.exclusive = @ \/ alone]
      BY <1>4, <2>3
    <3>2. cs[c].events \cup more \in SUBSET Nat /\ (cs[c].exclusive \/ alone) \in BOOLEAN
      BY <2>1, <2>2 DEF CardRec
    <3>3. PICK ev \in SUBSET Nat, al \in BOOLEAN :
            q[c] = [cs[c] EXCEPT !.events = ev, !.exclusive = al]
      BY <3>1, <3>2
    <3> HIDE DEF more, alone, q
    <3> QED
      BY <2>1, <3>3 DEF CardRec
  <2>4. CASE cs[c].st # "queued"
    BY <1>5, <2>1, <2>4
  <2> QED BY <2>3, <2>4
<1> QED
  BY <1>1, <1>6, <1>7

(* The states and notes cards end with are of their types.                  *)
LEMMA EndNames ==
  /\ "asks" \in CardState /\ "failed" \in CardState
  /\ "done" \in CardState /\ "dropped" \in CardState
  /\ "" \in Note /\ "merged" \in Note /\ "replied" \in Note
  /\ "answered" \in Note /\ "resolved" \in Note /\ "retried" \in Note
BY DEF CardState, Note

(* A card that ends is still a card, of the same thread and batch          *)
(* (queue.ts:41-45).                                                       *)
LEMMA EndType ==
  ASSUME NEW c \in DOMAIN card, card[c] \in CardRec
  PROVE  \A s \in CardState, why \in Note :
           /\ End(c, s, why) \in CardRec
           /\ End(c, s, why).st = s
           /\ End(c, s, why).thread = card[c].thread
           /\ End(c, s, why).batch = card[c].batch
  BY DEF End, CardRec

(* settleOne (queue.ts:625-649): a settled member no longer works, except  *)
(* the shared answer that goes back to the queue to run alone.             *)
LEMMA SettledFacts ==
  ASSUME TypeOK, NEW b \in DOMAIN batch, NEW c \in batch[b].members, NEW told,
         c \notin Unposted(b)
  PROVE  /\ Settled(b, c, told) \in CardRec
         /\ Settled(b, c, told).thread = card[c].thread
         /\ Settled(b, c, told).batch = card[c].batch
         /\ IF c \in Again(b, {c}) THEN Settled(b, c, told).st = card[c].st
                                   ELSE Settled(b, c, told).st \in {"done", "asks", "failed"}
         /\ c \in Bodies(b) => Settled(b, c, told).st \in {"done", "asks"}
<1> DEFINE r == batch[b].results[c]
           asked == AskedAt(b, c)
           Fits(x) == /\ x \in CardRec /\ x.thread = card[c].thread
                      /\ x.batch = card[c].batch
<1>1. c \in DOMAIN card /\ card[c] \in CardRec /\ r \in Result
  BY DEF TypeOK, CardsTyped, BatchesTyped, BatchRec
<1>2. ASSUME r \in Body PROVE asked \in Nat
  <2>1. ReplyOf(b, c) \subseteq Nat
    BY DEF TypeOK, ReplyOf, Id
  <2>2. CASE batch[b].same
    BY <2>2 DEF AskedAt, TypeOK, BatchesTyped, BatchRec
  <2>3. CASE ~batch[b].same
    <3>1. ReplyOf(b, c) # {}
      BY <1>2, <2>3 DEF Bodies, Unposted
    <3> QED
      BY <2>1, <2>3, <3>1, SmallestIn DEF AskedAt
  <2> QED
    BY <2>2, <2>3
<1>3. \A s \in CardState, why \in Note : Fits(End(c, s, why)) /\ End(c, s, why).st = s
  BY <1>1, EndType
<1>4. Fits(Failed(c)) /\ Failed(c).st \in {"done", "failed"}
  <2>1. Failed(c) = End(c, "done", "resolved") \/ Failed(c) = End(c, "failed", "")
    BY DEF Failed
  <2>2. "done" \in CardState /\ "failed" \in CardState /\ "resolved" \in Note /\ "" \in Note
    BY EndNames
  <2> HIDE DEF Fits
  <2> QED
    BY <1>3, <2>1, <2>2
<1>5. ASSUME r \in Body, Settled(b, c, told).st \in {"done", "asks"}, Fits(Settled(b, c, told))
      PROVE  /\ IF c \in Again(b, {c}) THEN Settled(b, c, told).st = card[c].st
                                       ELSE Settled(b, c, told).st \in {"done", "asks", "failed"}
             /\ c \in Bodies(b) => Settled(b, c, told).st \in {"done", "asks"}
  <2>1. c \notin Again(b, {c})
    BY <1>5 DEF Again, Body
  <2> QED
    BY <1>5, <2>1
<1>6. CASE r = "reply" \/ (r = "asks" /\ card[c].resolved)
  <2>1. Settled(b, c, told) = End(c, "done", "replied")
    BY <1>6 DEF Settled, Body
  <2>2. Settled(b, c, told).st = "done" /\ Fits(Settled(b, c, told))
    BY <1>1, <2>1 DEF End, CardRec, CardState, Note
  <2>3. r \in Body
    BY <1>6 DEF Body
  <2> QED
    BY <1>5, <2>2, <2>3
<1>7. CASE r = "asks" /\ ~card[c].resolved
  <2> DEFINE q == End(c, "asks", "")
  <2>1. \/ Settled(b, c, told) = End(c, "done", "answered")
        \/ Settled(b, c, told) = [q EXCEPT !.asked = asked]
    BY <1>7 DEF Settled, Body
  <2>2. r \in Body
    BY <1>7 DEF Body
  <2>3. Fits(q) /\ q.st = "asks"
    BY <1>3, EndNames
  <2>4. Fits([q EXCEPT !.asked = asked]) /\ [q EXCEPT !.asked = asked].st = "asks"
    <3>1. asked \in Nat
      BY <1>2, <2>2
    <3> HIDE DEF q, asked
    <3> QED
      BY <2>3, <3>1 DEF CardRec
  <2>5. Fits(End(c, "done", "answered")) /\ End(c, "done", "answered").st = "done"
    BY <1>3, EndNames
  <2>6. Fits(Settled(b, c, told)) /\ Settled(b, c, told).st \in {"done", "asks"}
    BY <2>1, <2>4, <2>5
  <2> QED
    BY <1>5, <2>2, <2>6
<1>8. CASE r = "missing" \/ (r = "shared" /\ (card[c].resolved \/ card[c].exclusive))
  <2>1. Settled(b, c, told) = Failed(c)
    BY <1>8 DEF Settled, Body
  <2>2. c \notin Again(b, {c}) /\ c \notin Bodies(b)
    BY <1>8 DEF Again, Bodies, Body
  <2> QED
    BY <1>4, <2>1, <2>2
<1>9. CASE r = "shared" /\ ~card[c].resolved /\ ~card[c].exclusive
  <2>1. Settled(b, c, told) = [card[c] EXCEPT !.exclusive = TRUE]
    BY <1>9 DEF Settled, Body
  <2>2. c \in Again(b, {c}) /\ c \notin Bodies(b)
    BY <1>9 DEF Again, Bodies, Body
  <2> QED
    BY <1>1, <2>1, <2>2 DEF CardRec
<1> QED
  BY <1>1, <1>6, <1>7, <1>8, <1>9 DEF Result, Body

(* Cards that are at most one to a thread in the queue stay so when cards   *)
(* of different threads go back to it.                                      *)
OneQueuedIn(cs) ==
  \A c, d \in DOMAIN cs :
    (cs[c].st = "queued" /\ cs[d].st = "queued" /\ cs[c].thread = cs[d].thread) => c = d

(* merge (queue.ts:171-193): cards of different threads go back without    *)
(* giving a thread a second queued card.                                   *)
LEMMA RequeueKeepsOne ==
  ASSUME NEW cs, NEW R, R \subseteq DOMAIN cs, \A c \in DOMAIN cs : cs[c] \in CardRec,
         OneQueuedIn(cs),
         \A c, d \in R : cs[c].thread = cs[d].thread => c = d
  PROVE  OneQueuedIn(Requeue(cs, R))
<1> DEFINE q == Requeue(cs, R)
<1>1. /\ DOMAIN q = DOMAIN cs
      /\ \A c \in DOMAIN cs : q[c].thread = cs[c].thread
      /\ \A c \in DOMAIN cs \ R : q[c].st = cs[c].st
      /\ \A c \in R : q[c].st = "queued" =>
           \A d \in DOMAIN cs : cs[d].st = "queued" => cs[d].thread # cs[c].thread
  BY RequeueFacts
<1> HIDE DEF q
<1>2. ASSUME NEW c \in DOMAIN cs, NEW d \in DOMAIN cs, q[c].st = "queued",
             q[d].st = "queued", q[c].thread = q[d].thread
      PROVE  c = d
  BY <1>1, <1>2 DEF OneQueuedIn
<1> QED
  BY <1>1, <1>2 DEF OneQueuedIn, q

(* What settling does to the cards S, which still work for batch b.         *)
LEMMA SettleFacts ==
  ASSUME IInv, NEW b \in DOMAIN batch, NEW S \in SUBSET Live(b),
         NEW told, S \cap Unposted(b) = {}
  PROVE  LET q == SettleCards(b, S, told) IN
         /\ DOMAIN q = DOMAIN card
         /\ \A c \in DOMAIN card : q[c] \in CardRec /\ q[c].thread = card[c].thread
         /\ \A c \in DOMAIN card \ S : q[c].st = card[c].st /\ q[c].batch = card[c].batch
         /\ \A c \in S : /\ q[c].st # "working" /\ q[c].batch \in {b, NoBatch}
                         /\ c \in Bodies(b) => q[c].st # "failed"
         /\ OneQueuedIn(q)
<1> DEFINE cs == [c \in DOMAIN card |-> IF c \in S THEN Settled(b, c, told) ELSE card[c]]
           R == Again(b, S)
           q == Requeue(cs, R)
<1>1. /\ S \subseteq batch[b].members /\ S \subseteq DOMAIN card
      /\ \A c \in S : card[c].st = "working" /\ card[c].batch = b
      /\ \A c \in DOMAIN card : card[c] \in CardRec
  BY DEF Live, IInv, TypeOK, BatchesTyped, CardsTyped
<1>2. ASSUME NEW c \in S
      PROVE  /\ cs[c] \in CardRec /\ cs[c].thread = card[c].thread /\ cs[c].batch = b
             /\ IF c \in R THEN cs[c].st = "working"
                           ELSE cs[c].st \in {"done", "asks", "failed"}
             /\ c \in Bodies(b) => cs[c].st \in {"done", "asks"}
  <2>1. cs[c] = Settled(b, c, told) /\ c \in batch[b].members
    BY <1>1, <1>2
  <2>2. c \in R <=> c \in Again(b, {c})
    BY <1>2 DEF Again
  <2>3. c \notin Unposted(b)
    BY <1>2
  <2>4. TypeOK
    BY DEF IInv
  <2>5. /\ Settled(b, c, told) \in CardRec
        /\ Settled(b, c, told).thread = card[c].thread /\ Settled(b, c, told).batch = card[c].batch
        /\ IF c \in Again(b, {c}) THEN Settled(b, c, told).st = card[c].st
                                  ELSE Settled(b, c, told).st \in {"done", "asks", "failed"}
        /\ c \in Bodies(b) => Settled(b, c, told).st \in {"done", "asks"}
    BY <2>1, <2>3, <2>4, SettledFacts
  <2> HIDE DEF cs, R
  <2> QED
    BY <1>1, <2>1, <2>2, <2>5
<1>3. DOMAIN cs = DOMAIN card /\ \A c \in DOMAIN card \ S : cs[c] = card[c]
  OBVIOUS
<1>4. R \subseteq S
  BY DEF Again
<1>5. q = SettleCards(b, S, told)
  BY DEF SettleCards
<1>6. \A c \in DOMAIN cs : cs[c] \in CardRec
  BY <1>1, <1>2, <1>3
<1>7. \A c \in R : c \notin Bodies(b)
  BY <1>1, <1>4 DEF Again, Bodies, Body
<1> HIDE DEF cs, R
<1>8. /\ DOMAIN q = DOMAIN cs
      /\ \A c \in DOMAIN cs : q[c] \in CardRec /\ q[c].thread = cs[c].thread
      /\ \A c \in DOMAIN cs \ R : q[c].st = cs[c].st /\ q[c].batch = cs[c].batch
      /\ \A c \in R : q[c].st \in {"queued", "done"} /\ q[c].batch = NoBatch
  BY <1>1, <1>3, <1>4, <1>6, RequeueFacts
<1>9. OneQueuedIn(cs)
  <2>1. \A c \in DOMAIN cs : cs[c].st = "queued" => c \in Is("queued") /\ cs[c] = card[c]
    BY <1>2, <1>3 DEF Is
  <2> QED
    BY <2>1 DEF IInv, OneQueuedPerThread, OneQueuedIn
<1>10. \A c, d \in R : cs[c].thread = cs[d].thread => c = d
  BY <1>1, <1>2, <1>4 DEF IInv, MembersApart
<1>11. OneQueuedIn(q)
  BY <1>1, <1>3, <1>4, <1>6, <1>9, <1>10, RequeueKeepsOne
<1> HIDE DEF q
<1>12. \A c \in DOMAIN card \ S : q[c].st = card[c].st /\ q[c].batch = card[c].batch
  BY <1>3, <1>4, <1>8
<1>13. \A c \in S : /\ q[c].st # "working" /\ q[c].batch \in {b, NoBatch}
                    /\ c \in Bodies(b) => q[c].st # "failed"
  BY <1>1, <1>2, <1>3, <1>7, <1>8
<1>14. \A c \in DOMAIN card : q[c] \in CardRec /\ q[c].thread = card[c].thread
  BY <1>2, <1>3, <1>8
<1>15. DOMAIN q = DOMAIN card
  BY <1>3, <1>8
<1> QED
  BY <1>5, <1>11, <1>12, <1>13, <1>14, <1>15

-----------------------------------------------------------------------------
(* Steps of the log and of the ledger *)

(* The invariant reads the log only for its length and its kinds, so a     *)
(* longer log keeps it.                                                    *)
LEMMA LogStep ==
  ASSUME IInv, log' \in Seq(Entry), Id \subseteq Id', ledger' \subseteq Id',
         said' \in [Batch -> Line],
         UNCHANGED <<journal, phase, tries, boot, barrier, crashes>>
  PROVE  IInv'
<1>1. TypeOK'
  BY DEF IInv, TypeOK, CardsTyped, BatchesTyped, journal
<1> QED
  BY <1>1 DEF IInv, journal, OneQueuedPerThread, MembersApart,
     WorkingIsClaimed, JobsFit, TodoFits, ClaimedIsRunning, ClaimsApart, Is,
     Running, FailedBodies, Bodies, Unsaved, Saved

(* Appending an entry keeps the invariant.                                 *)
LEMMA AppendStep ==
  ASSUME IInv, NEW e \in Entry, log' = Append(log, e),
         said' \in [Batch -> Line],
         UNCHANGED <<ledger, journal, phase, tries, boot, barrier, crashes>>
  PROVE  IInv'
<1>1. log' \in Seq(Entry) /\ Id \subseteq Id'
  BY DEF IInv, TypeOK, Id
<1>2. ledger' \subseteq Id'
  BY <1>1 DEF IInv, TypeOK
<1> QED
  BY <1>1, <1>2, LogStep

(* What the owner writes and what the page ledgers keep the invariant.     *)
LEMMA OwnerWrites ==
  ASSUME IInv,
         \/ \E t \in Thread, k \in OwnerKind : Write(t, k)
         \/ \E i \in Id : Ledger(i)
  PROVE  IInv'
<1>1. ASSUME NEW t \in Thread, NEW k \in OwnerKind, Write(t, k) PROVE IInv'
  <2>1. [kind |-> k, thread |-> t, batch |-> NoBatch, asks |-> FALSE] \in Entry
    BY DEF Entry
  <2> QED
    BY <1>1, <2>1, AppendStep DEF Write, process, IInv, TypeOK
<1>2. ASSUME NEW i \in Id, Ledger(i) PROVE IInv'
  <2>1. log' \in Seq(Entry) /\ Id \subseteq Id' /\ ledger' \subseteq Id'
    BY <1>2 DEF IInv, TypeOK, Ledger, Id
  <2> QED
    BY <1>2, <2>1, LogStep DEF Ledger, process, IInv, TypeOK
<1> QED
  BY <1>1, <1>2

(* Posting a reply (daemon.ts:326-338), saying a line early (919-926) and  *)
(* flagging it later (621-628) keep the invariant.                         *)
LEMMA PostStep ==
  ASSUME IInv, NEW b \in DOMAIN batch, Replies(b)
  PROVE  IInv'
<1>1. b \in Batch /\ batch[b].members \subseteq DOMAIN card /\ batch[b].attempts \in Nat
  BY DEF IInv, TypeOK, BatchesTyped, BatchRec
<1>2. \A c \in DOMAIN card, k \in {"early", "agent"}, asks \in BOOLEAN :
        [kind |-> k, thread |-> card[c].thread, batch |-> b, asks |-> asks] \in Entry
  BY <1>1 DEF IInv, TypeOK, CardsTyped, CardRec, Entry
<1>3. log \in Seq(Entry) /\ said \in [Batch -> Line] /\ Len(log) \in Nat
  BY DEF IInv, TypeOK
<1>4. CASE SaysEarly(b)
  <2>1. PICK c \in batch[b].members, asks \in BOOLEAN :
          log' = Append(log, [kind |-> "early", thread |-> card[c].thread, batch |-> b,
                              asks |-> asks])
    BY <1>4 DEF SaysEarly
  <2>2. said' \in [Batch -> Line]
    BY <1>1, <1>3, <1>4 DEF SaysEarly, Line
  <2> QED
    BY <1>1, <1>2, <1>4, <2>1, <2>2, AppendStep DEF SaysEarly
<1>5. CASE Flags(b)
  <2>1. log' \in Seq(Entry) /\ Id' = Id
    <3>1. log' = [log EXCEPT ![batch[b].early].asks = TRUE]
      BY <1>5 DEF Flags
    <3>2. CASE batch[b].early \in 1..Len(log)
      <4> DEFINE i == batch[b].early
                 e == [log[i] EXCEPT !.asks = TRUE]
      <4>1. e \in Entry
        <5>1. log[i] \in Entry
          BY <1>3, <3>2, ElementOfSeq
        <5> QED
          BY <5>1 DEF Entry
      <4>2. log' = [log EXCEPT ![i] = e]
        BY <3>1
      <4> HIDE DEF e, i
      <4>3. i \in 1..Len(log)
        BY <3>2 DEF i
      <4>4. log' \in Seq(Entry) /\ Len(log') = Len(log)
        BY <1>3, <4>1, <4>2, <4>3, ExceptSeq
      <4> QED
        BY <1>3, <4>2, <4>4 DEF Id
    <3>3. CASE batch[b].early \notin 1..Len(log)
      <4>1. log \in [1..Len(log) -> Entry] /\ DOMAIN log = 1..Len(log)
        BY <1>3, LenProperties
      <4>2. DOMAIN log' = 1..Len(log) /\ \A i \in 1..Len(log) : log'[i] = log[i]
        BY <3>1, <3>3, <4>1
      <4>3. log' = [i \in 1..Len(log) |-> log'[i]]
        BY <3>1, <4>1
      <4>4. log' = log
        BY <4>1, <4>2, <4>3
      <4> QED
        BY <1>3, <4>4 DEF Id
    <3> QED
      BY <3>2, <3>3
  <2> QED
    BY <1>3, <1>5, <2>1, LogStep DEF Flags, process, IInv, TypeOK
<1>6. ASSUME NEW c \in Bodies(b), Post(b, c) PROVE IInv'
  <2>1. c \in DOMAIN card /\ (c \in Asks(b) \ AnsweredEarly(b)) \in BOOLEAN
    BY <1>1 DEF Bodies
  <2> QED
    BY <1>2, <1>3, <1>6, <2>1, AppendStep DEF Post, process
<1> QED
  BY <1>4, <1>5, <1>6 DEF Replies

-----------------------------------------------------------------------------
(* Steps of the process alone *)

(* A step that leaves the journal alone keeps what the invariant says of   *)
(* the journal.                                                            *)
LEMMA ProcessStep ==
  ASSUME IInv, UNCHANGED <<log, ledger, journal>>,
         phase' \in [Batch -> Phase], tries' \in [Batch -> Nat],
         said' \in [Batch -> Line], boot' \in Boot, barrier' \in Barrier, crashes' \in Nat,
         JobsFit', TodoFits', ClaimedIsRunning'
  PROVE  IInv'
<1>1. TypeOK'
  BY DEF IInv, TypeOK, CardsTyped, BatchesTyped, journal, Id
<1> QED
  BY <1>1 DEF IInv, journal, OneQueuedPerThread, MembersApart, WorkingIsClaimed,
     ClaimsApart, Is, Unsaved, Saved

(* A delivery that fails and waits for its next try (daemon.ts:1238-1255)  *)
(* still has its results.                                                  *)
LEMMA DeliveryWaits ==
  ASSUME IInv, NEW b \in DOMAIN batch, PostingFails(b) \/ Redeliver(b)
  PROVE  IInv'
<1>1. phase[b] \in {"post", "retry"} /\ phase'[b] \in {"post", "retry"}
  BY DEF PostingFails, Redeliver, IInv, TypeOK, BatchesTyped
<1>2. phase' \in [Batch -> Phase] /\ tries' \in [Batch -> Nat]
  BY DEF PostingFails, Redeliver, IInv, TypeOK, Phase
<1>3. \A x \in Batch \ {b} : phase'[x] = phase[x]
  BY DEF PostingFails, Redeliver, IInv, TypeOK
<1>4. UNCHANGED <<log, ledger, journal, said, boot, barrier, crashes>>
  BY DEF PostingFails, Redeliver
<1>5. DOMAIN batch \subseteq Batch
  BY DEF IInv, TypeOK, BatchesTyped
<1>6. JobsFit'
  BY <1>1, <1>3, <1>4, <1>5 DEF IInv, JobsFit, journal, Saved
<1>7. TodoFits' /\ ClaimedIsRunning'
  BY <1>1, <1>3, <1>4, <1>5, <1>6 DEF IInv, JobsFit, TodoFits, ClaimedIsRunning,
     journal, FailedBodies, Bodies, Running
<1> QED
  BY <1>2, <1>4, <1>6, <1>7, ProcessStep DEF IInv, TypeOK

(* The barrier failing, napping and waking keeps the batch it stands at.   *)
LEMMA BarrierWaits ==
  ASSUME IInv, NEW b \in DOMAIN batch, BarrierFails(b) \/ BarrierWakes(b)
  PROVE  IInv'
<1>1. barrier' \in Barrier
  <2>1. barrier \in Barrier /\ MaxTries \in Nat
    BY LimitAssumption DEF IInv, TypeOK
  <2>2. CASE BarrierFails(b)
    <3>1. barrier' = [todo |-> barrier.todo, at |-> barrier.at, nap |-> TRUE,
                      tries |-> barrier.tries + 1]
      BY <2>1, <2>2 DEF BarrierFails, Barrier
    <3>2. barrier.tries + 1 \in 0..MaxTries
      BY <2>1, <2>2 DEF BarrierFails, Barrier
    <3> QED
      BY <2>1, <3>1, <3>2 DEF Barrier
  <2>3. CASE BarrierWakes(b)
    BY <2>1, <2>3 DEF BarrierWakes, Barrier
  <2> QED
    BY <2>2, <2>3
<1>2. barrier'.todo = barrier.todo /\ barrier'.at = barrier.at
  BY DEF BarrierFails, BarrierWakes, IInv, TypeOK, Barrier
<1>3. UNCHANGED <<log, ledger, journal, phase, tries, said, boot, crashes>>
  BY DEF BarrierFails, BarrierWakes
<1>4. JobsFit'
  BY <1>2, <1>3 DEF IInv, JobsFit, journal, Saved
<1>5. TodoFits' /\ ClaimedIsRunning'
  BY <1>2, <1>3 DEF IInv, TodoFits, ClaimedIsRunning, journal, FailedBodies, Bodies, Running
<1> QED
  BY <1>1, <1>3, <1>4, <1>5, ProcessStep DEF IInv, TypeOK

(* The start is over only when the barrier has delivered all it had.       *)
LEMMA ReadyStep ==
  ASSUME IInv, Ready
  PROVE  IInv'
<1>1. JobsFit' /\ TodoFits' /\ ClaimedIsRunning'
  BY DEF Ready, IInv, JobsFit, TodoFits, ClaimedIsRunning, journal, Saved,
     FailedBodies, Bodies, Running
<1> QED
  BY <1>1, ProcessStep DEF Ready, IInv, TypeOK, Boot

(* Launching a batch the start deferred (daemon.ts:1365-1375) keeps it     *)
(* claimed and without results.                                            *)
LEMMA LaunchStep ==
  ASSUME IInv, NEW b \in DOMAIN batch, LaunchDeferred(b)
  PROVE  IInv'
<1>1. phase' \in [Batch -> Phase] /\ phase[b] = "deferred" /\ phase'[b] = "run"
  BY DEF LaunchDeferred, IInv, TypeOK, BatchesTyped, Phase
<1>2. \A x \in Batch \ {b} : phase'[x] = phase[x]
  BY DEF LaunchDeferred, IInv, TypeOK
<1>3. UNCHANGED <<log, ledger, journal, tries, said, boot, barrier, crashes>>
  BY DEF LaunchDeferred
<1>4. DOMAIN batch \subseteq Batch
  BY DEF IInv, TypeOK, BatchesTyped
<1>5. JobsFit'
  BY <1>1, <1>2, <1>3, <1>4 DEF IInv, JobsFit, journal, Saved
<1>6. TodoFits' /\ ClaimedIsRunning'
  BY <1>1, <1>2, <1>3, <1>4, <1>5 DEF IInv, JobsFit, TodoFits, ClaimedIsRunning,
     journal, FailedBodies, Bodies, Running
<1> QED
  BY <1>1, <1>3, <1>5, <1>6, ProcessStep DEF IInv, TypeOK

(* A stop leaves the journal as it was and no job behind.                  *)
LEMMA CrashStep ==
  ASSUME IInv, Crash
  PROVE  IInv'
<1>1. /\ phase' \in [Batch -> Phase] /\ tries' \in [Batch -> Nat]
      /\ said' \in [Batch -> Line] /\ crashes' \in Nat /\ boot' \in Boot
  BY DEF Crash, Phase, Boot, Line, NoLine, IInv, TypeOK
<1>2. barrier' \in Barrier
  BY LimitAssumption DEF Crash, Barrier, NoBarrier
<1>3. JobsFit'
  BY NoBatchAssumption DEF Crash, IInv, JobsFit, NoBarrier, Saved, journal, TypeOK, BatchesTyped
<1>4. TodoFits' /\ ClaimedIsRunning'
  BY DEF Crash, TodoFits, ClaimedIsRunning, NoBarrier
<1> QED
  BY <1>1, <1>2, <1>3, <1>4, ProcessStep DEF Crash

(* Nothing runs before a start: what was claimed is delivered or deferred, *)
(* or fails with its cards when its packet is gone.                        *)
LEMMA RecoverStep ==
  ASSUME IInv, Recover
  PROVE  IInv'
<1>1. PICK gone \in SUBSET {b \in Leftover : ~Saved(b)} :
        /\ phase' = [b \in Batch |-> IF b \in Leftover \ gone /\ ~Saved(b) THEN "deferred"
                                                                         ELSE phase[b]]
        /\ card' = [c \in DOMAIN card |-> IF \E b \in gone : c \in Live(b)
                                            THEN End(c, "failed", "") ELSE card[c]]
        /\ batch' = [b \in DOMAIN batch |-> IF b \in gone
                                              THEN [batch[b] EXCEPT !.st = "failed"]
                                              ELSE batch[b]]
  BY DEF Recover
<1>2. Leftover \subseteq DOMAIN batch /\ DOMAIN batch \subseteq Batch
  BY DEF Leftover, IInv, TypeOK, BatchesTyped
<1>3. /\ phase' \in [Batch -> Phase]
      /\ \A b \in Batch : phase'[b] = IF b \in Leftover \ gone /\ ~Saved(b)
                                        THEN "deferred" ELSE "off"
  BY <1>1 DEF Recover, Phase, IInv, TypeOK, JobsFit
<1>4. /\ barrier'.todo = {b \in Leftover : Saved(b)}
      /\ barrier'.at = NoBatch
      /\ barrier' \in Barrier
  <2>1. barrier' = [todo |-> {b \in Leftover : Saved(b)}, at |-> NoBatch,
                    nap |-> FALSE, tries |-> 0]
    BY DEF Recover, NoBarrier
  <2>2. {b \in Leftover : Saved(b)} \subseteq Batch /\ 0 \in 0..MaxTries
    BY <1>2, LimitAssumption
  <2> QED
    BY <2>1, <2>2 DEF Barrier
<1>5. boot' = "barrier" /\ UNCHANGED <<log, ledger, seen, tries, said, crashes>>
  BY DEF Recover
<1>6. /\ DOMAIN batch' = DOMAIN batch
      /\ \A b \in DOMAIN batch :
           /\ batch'[b] \in BatchRec(batch[b].members)
           /\ batch'[b].members = batch[b].members /\ batch'[b].saved = batch[b].saved
           /\ batch'[b].frames = batch[b].frames /\ batch'[b].exclusive = batch[b].exclusive
           /\ batch'[b].undelivered = batch[b].undelivered
           /\ batch'[b].st = IF b \in gone THEN "failed" ELSE batch[b].st
  <2>1. ASSUME NEW b \in DOMAIN batch
        PROVE  batch[b] \in BatchRec(batch[b].members)
    BY DEF IInv, TypeOK, BatchesTyped
  <2> QED
    BY <1>1, <2>1 DEF BatchRec
<1>7. /\ DOMAIN card' = DOMAIN card
      /\ \A c \in DOMAIN card :
           /\ card'[c] \in CardRec /\ card'[c].thread = card[c].thread
           /\ IF \E b \in gone : c \in Live(b) THEN card'[c].st = "failed"
                                               ELSE card'[c] = card[c]
  <2>1. \A c \in DOMAIN card : card[c] \in CardRec
    BY DEF IInv, TypeOK, CardsTyped
  <2>2. ASSUME NEW c \in DOMAIN card
        PROVE  /\ End(c, "failed", "") \in CardRec
               /\ End(c, "failed", "").thread = card[c].thread
               /\ End(c, "failed", "").st = "failed"
    <3>1. \A s \in CardState, why \in Note :
            /\ End(c, s, why) \in CardRec /\ End(c, s, why).st = s
            /\ End(c, s, why).thread = card[c].thread
      BY <2>1, EndType
    <3> QED
      BY <3>1, EndNames
  <2> QED
    BY <1>1, <2>1, <2>2
<1>8. TypeOK'
  BY <1>3, <1>4, <1>5, <1>6, <1>7 DEF IInv, TypeOK, CardsTyped, BatchesTyped, Boot, Id
<1>9. OneQueuedPerThread'
  <2>1. Is("queued")' \subseteq Is("queued")
    BY <1>7 DEF Is
  <2> QED
    BY <1>7, <2>1 DEF IInv, OneQueuedPerThread, Is
<1>10. MembersApart'
  BY <1>6, <1>7 DEF IInv, MembersApart, TypeOK, BatchesTyped
<1>11. WorkingIsClaimed'
  <2>1. ASSUME NEW c \in Is("working")'
        PROVE  /\ c \in Is("working") /\ card'[c] = card[c]
               /\ card[c].batch \in DOMAIN batch /\ card[c].batch \notin gone
    <3>1. c \in DOMAIN card /\ card'[c].st = "working" /\ ~\E b \in gone : c \in Live(b)
      BY <1>7 DEF Is
    <3>2. c \in Is("working") /\ card'[c] = card[c]
      BY <1>7, <3>1 DEF Is
    <3>3. /\ card[c].batch \in DOMAIN batch /\ card[c].st = "working"
          /\ c \in batch[card[c].batch].members
      BY <3>2 DEF IInv, WorkingIsClaimed, Is
    <3> QED
      BY <3>1, <3>2, <3>3 DEF Live
  <2> QED
    BY <1>6, <2>1 DEF IInv, WorkingIsClaimed
<1>12. JobsFit'
  <2>1. \A b \in DOMAIN batch : batch[b].undelivered => Saved(b)
    BY DEF IInv, JobsFit
  <2>2. \A b \in DOMAIN batch : Saved(b) => batch[b].st # "failed" /\ b \notin gone
    BY <1>1 DEF IInv, JobsFit
  <2> QED
    BY <1>2, <1>3, <1>4, <1>5, <1>6, <2>1, <2>2, NoBatchAssumption
       DEF JobsFit, Saved, Leftover
<1>13. TodoFits' /\ ClaimedIsRunning'
  <2>1. ASSUME NEW b \in DOMAIN batch, batch'[b].st = "claimed", ~batch'[b].undelivered
        PROVE  phase'[b] # "off" \/ b \in barrier'.todo
    <3>1. b \in Leftover \ gone /\ b \in Batch
      BY <1>2, <1>6, <2>1 DEF Leftover
    <3> QED
      BY <1>3, <1>4, <3>1
  <2>2. \A b \in barrier'.todo : phase'[b] = "off" /\ batch'[b].st = "claimed"
    BY <1>1, <1>2, <1>3, <1>4, <1>6 DEF Leftover
  <2> QED
    BY <1>2, <1>6, <2>1, <2>2 DEF TodoFits, ClaimedIsRunning, Running
<1>14. ClaimsApart'
  <2>1. Unsaved' \subseteq Unsaved
    BY <1>6 DEF Unsaved, Saved
  <2> QED
    BY <1>6, <2>1 DEF IInv, ClaimsApart, Unsaved
<1> QED
  BY <1>8, <1>9, <1>10, <1>11, <1>12, <1>13, <1>14 DEF IInv

-----------------------------------------------------------------------------
(* Steps of the cards alone *)

(* A step that starts no card working and fails none. *)
MovesOn ==
  /\ DOMAIN card \subseteq DOMAIN card'
  /\ \A c \in DOMAIN card :
       /\ card'[c].thread = card[c].thread
       /\ card'[c].st \in {"working", "failed"} =>
            card'[c].st = card[c].st /\ card'[c].batch = card[c].batch
  /\ \A c \in DOMAIN card' \ DOMAIN card : card'[c].st = "queued"

(* A step of the cards alone that makes no card work, brings none back to  *)
(* a batch and keeps one queued card a thread keeps the invariant.         *)
LEMMA CardStep ==
  ASSUME IInv, UNCHANGED <<log, ledger, batch, process, crashes>>, seen' \subseteq Id,
         CardsTyped', OneQueuedIn(card'), MovesOn
  PROVE  IInv'
<1>1. TypeOK'
  BY DEF IInv, TypeOK, BatchesTyped, MovesOn, process, Id
<1>2. OneQueuedPerThread'
  BY DEF OneQueuedIn, OneQueuedPerThread, Is
<1>3. MembersApart'
  BY DEF IInv, MembersApart, MovesOn, TypeOK, BatchesTyped
<1>4. WorkingIsClaimed'
  BY DEF IInv, WorkingIsClaimed, MovesOn, Is
<1>5. JobsFit' /\ ClaimedIsRunning' /\ ClaimsApart'
  BY DEF IInv, JobsFit, ClaimedIsRunning, ClaimsApart, process, Saved, Running, Unsaved
<1>6. TodoFits'
  <2>1. \A b \in DOMAIN batch : FailedBodies(b)' \subseteq FailedBodies(b)
    BY DEF FailedBodies, Bodies, MovesOn, IInv, TypeOK, BatchesTyped
  <2>2. barrier.todo \subseteq DOMAIN batch
    BY DEF IInv, JobsFit
  <2> QED
    BY <2>1, <2>2 DEF IInv, TodoFits, process
<1> QED
  BY <1>1, <1>2, <1>3, <1>4, <1>5, <1>6 DEF IInv

(* A tag (queue.ts:103-132) adds to the queued card of its thread, or      *)
(* mints one where there is none.                                          *)
LEMMA TaggedMoves ==
  ASSUME IInv, NEW i \in Id, UNCHANGED log, Tagged(i)
  PROVE  CardsTyped' /\ OneQueuedIn(card') /\ MovesOn
<1> DEFINE t == log[i].thread
           queued == On(t, "queued")
           asking == FirstAsking(t)
           fresh == IF queued = {} THEN {i} ELSE {}
           new == [st |-> "queued", thread |-> t, events |-> {i}, batch |-> NoBatch,
                   resolved |-> FALSE, exclusive |-> FALSE, asked |-> 0, note |-> ""]
<1>1. PICK failed \in OneOf(IF asking = {} THEN On(t, "failed") ELSE {}) :
        card' = [c \in DOMAIN card \cup fresh |->
                  CASE c \notin DOMAIN card -> new
                    [] c \in asking -> End(c, "done", "answered")
                    [] c \in failed -> End(c, "done", "retried")
                    [] c \in queued -> [card[c] EXCEPT !.events = @ \cup {i}]
                    [] OTHER -> card[c]]
  BY DEF Tagged
<1>2. /\ \A c \in DOMAIN card : card[c] \in CardRec
      /\ i \in Nat /\ t \in Thread /\ DOMAIN card \subseteq Id
  <2>1. log \in Seq(Entry) /\ CardsTyped
    BY DEF IInv, TypeOK
  <2>2. i \in Nat /\ log[i] \in Entry
    BY <2>1 DEF Id
  <2> QED
    BY <2>1, <2>2 DEF CardsTyped, Entry
<1>3. asking \subseteq DOMAIN card /\ failed \subseteq DOMAIN card /\ queued \subseteq DOMAIN card
  <2>1. asking \subseteq On(t, "asks")
    <3>1. On(t, "asks") \subseteq Nat
      BY DEF On, Is, IInv, TypeOK, CardsTyped, Id
    <3> QED
      BY <3>1, SmallestIn DEF FirstAsking
  <2>2. failed \subseteq On(t, "failed")
    BY DEF OneOf
  <2> QED
    BY <2>1, <2>2 DEF On, Is
<1>4. fresh \subseteq {i} /\ (fresh # {} => queued = {})
  OBVIOUS
<1>5. new \in CardRec /\ new.st = "queued" /\ new.thread = t
  BY <1>2 DEF CardRec, CardState, Note
<1> HIDE DEF queued, asking, fresh, new
<1>6. DOMAIN card' = DOMAIN card \cup fresh
  BY <1>1
<1>7. ASSUME NEW c \in DOMAIN card
      PROVE  /\ card'[c] \in CardRec /\ card'[c].thread = card[c].thread
             /\ \/ card'[c].st = card[c].st /\ card'[c].batch = card[c].batch
                \/ card'[c].st = "done"
  <2>2. \/ card'[c] = End(c, "done", "answered")
        \/ card'[c] = End(c, "done", "retried")
        \/ card'[c] = [card[c] EXCEPT !.events = @ \cup {i}]
        \/ card'[c] = card[c]
    BY <1>1
  <2>3. CASE card'[c] = End(c, "done", "answered") \/ card'[c] = End(c, "done", "retried")
    BY <1>2, <2>3 DEF End, CardRec, CardState, Note
  <2>4. CASE card'[c] = [card[c] EXCEPT !.events = @ \cup {i}]
    BY <1>2, <2>4 DEF CardRec
  <2> QED
    BY <1>2, <2>2, <2>3, <2>4
<1>8. ASSUME NEW c \in DOMAIN card' \ DOMAIN card
      PROVE  card'[c] = new /\ queued = {} /\ c = i
  <2>1. c \in fresh /\ c \notin DOMAIN card
    BY <1>8, <1>6
  <2>2. card'[c] = new
    BY <1>1, <1>3, <2>1
  <2>3. queued = {} /\ c = i
    BY <1>4, <2>1
  <2> QED
    BY <2>2, <2>3
<1>9. CardsTyped'
  <2>1. DOMAIN card' \subseteq Id'
    BY <1>2, <1>4, <1>6 DEF Id
  <2>2. ASSUME NEW c \in DOMAIN card' PROVE card'[c] \in CardRec
    BY <1>7, <1>8, <1>5
  <2> QED
    BY <2>1, <2>2 DEF CardsTyped
<1>10. MovesOn
  BY <1>7, <1>8, <1>5, <1>6 DEF MovesOn
<1>11. OneQueuedIn(card')
  <2>1. ASSUME NEW c \in DOMAIN card', NEW d \in DOMAIN card', card'[c].st = "queued",
               card'[d].st = "queued", card'[c].thread = card'[d].thread
        PROVE  c = d
    <3>1. \A x \in DOMAIN card : card'[x].st = "queued" => x \in Is("queued")
      BY <1>7 DEF Is
    <3>2. CASE c \in DOMAIN card /\ d \in DOMAIN card
      BY <1>7, <2>1, <3>1, <3>2 DEF IInv, OneQueuedPerThread
    <3>3. ASSUME NEW x \in DOMAIN card, NEW y \in DOMAIN card' \ DOMAIN card
          PROVE  ~(card'[x].st = "queued" /\ card'[x].thread = card'[y].thread)
      <4>1. card'[y].thread = t /\ queued = {}
        BY <1>8, <1>5
      <4>2. ASSUME card'[x].st = "queued", card'[x].thread = t PROVE x \in queued
        BY <1>7, <3>1, <4>2 DEF queued, On
      <4> QED
        BY <4>1, <4>2
    <3>4. CASE c \notin DOMAIN card /\ d \in DOMAIN card
      BY <2>1, <3>4, <3>3
    <3>5. CASE c \in DOMAIN card /\ d \notin DOMAIN card
      BY <2>1, <3>5, <3>3
    <3>6. CASE c \notin DOMAIN card /\ d \notin DOMAIN card
      <4>1. c = i /\ d = i
        BY <1>8, <3>6
      <4> QED
        BY <4>1
    <3> QED
      BY <3>2, <3>4, <3>5, <3>6
  <2> QED
    BY <2>1 DEF OneQueuedIn
<1> QED
  BY <1>9, <1>10, <1>11

(* A step that ends some cards and leaves the others where they are.        *)
LEMMA EndingMoves ==
  ASSUME IInv, UNCHANGED log, DOMAIN card' = DOMAIN card,
         \A c \in DOMAIN card :
           /\ card'[c] \in CardRec /\ card'[c].thread = card[c].thread
           /\ \/ card'[c].st = card[c].st /\ card'[c].batch = card[c].batch
              \/ card'[c].st \in {"done", "dropped"}
  PROVE  CardsTyped' /\ OneQueuedIn(card') /\ MovesOn
<1>1. CardsTyped' /\ MovesOn
  BY DEF CardsTyped, MovesOn, IInv, TypeOK, Id
<1>2. OneQueuedIn(card')
  BY DEF IInv, OneQueuedPerThread, OneQueuedIn, Is
<1> QED
  BY <1>1, <1>2

(* An answer and a thread resolved by hand end cards or leave them where   *)
(* they are.                                                               *)
LEMMA AnsweredMoves ==
  ASSUME IInv, NEW i \in Id, UNCHANGED log, Answered(i) \/ Resolved(i)
  PROVE  CardsTyped' /\ OneQueuedIn(card') /\ MovesOn
<1>1. \A c \in DOMAIN card : card[c] \in CardRec
  BY DEF IInv, TypeOK, CardsTyped
<1>2. DOMAIN card' = DOMAIN card
  BY DEF Answered, Resolved
<1>3. ASSUME NEW c \in DOMAIN card
      PROVE  /\ card'[c] \in CardRec /\ card'[c].thread = card[c].thread
             /\ \/ card'[c].st = card[c].st /\ card'[c].batch = card[c].batch
                \/ card'[c].st \in {"done", "dropped"}
  <2>1. \A s \in CardState, why \in Note :
           /\ End(c, s, why) \in CardRec
           /\ End(c, s, why).st = s
           /\ End(c, s, why).thread = card[c].thread
    BY <1>1, EndType
  <2>2. \/ card'[c] = End(c, "done", "answered")
        \/ card'[c] = End(c, "done", "resolved")
        \/ card'[c] = End(c, "dropped", "resolved")
        \/ card'[c] = [card[c] EXCEPT !.resolved = TRUE]
        \/ card'[c] = card[c]
    BY DEF Answered, Resolved
  <2>3. CASE \/ card'[c] = End(c, "done", "answered")
             \/ card'[c] = End(c, "done", "resolved")
             \/ card'[c] = End(c, "dropped", "resolved")
    <3>1. {"done", "dropped"} \subseteq CardState /\ {"answered", "resolved"} \subseteq Note
      BY EndNames
    <3>2. \E s \in {"done", "dropped"}, why \in {"answered", "resolved"} :
            card'[c] = End(c, s, why)
      BY <2>3
    <3>3. PICK s \in {"done", "dropped"}, why \in {"answered", "resolved"} :
            card'[c] = End(c, s, why)
      BY <3>2
    <3> QED
      BY <2>1, <3>1, <3>3
  <2>4. CASE card'[c] = [card[c] EXCEPT !.resolved = TRUE]
    BY <1>1, <2>4 DEF CardRec
  <2> QED
    BY <1>1, <2>2, <2>3, <2>4
<1> QED
  BY <1>2, <1>3, EndingMoves

(* Ingesting one entry keeps the invariant.                                *)
LEMMA IngestStep ==
  ASSUME IInv, Ingest
  PROVE  IInv'
<1> DEFINE i == SmallestOf(Eligible)
<1>1. i \in Id
  <2>1. Eligible \subseteq Id /\ Eligible \subseteq Nat /\ Eligible # {}
    BY DEF Ingest, Eligible, Id, IInv, TypeOK
  <2> QED
    BY <2>1, SmallestIn
<1>2. UNCHANGED <<log, ledger, batch, process, crashes>> /\ seen' \subseteq Id
  BY <1>1 DEF Ingest, IInv, TypeOK
<1>3. Tagged(i) \/ Answered(i) \/ Resolved(i)
  BY DEF Ingest
<1> HIDE DEF i
<1>4. CardsTyped' /\ OneQueuedIn(card') /\ MovesOn
  BY <1>1, <1>2, <1>3, TaggedMoves, AnsweredMoves
<1> QED
  BY <1>2, <1>4, CardStep

(* Dropping a queued card keeps the invariant.                             *)
LEMMA DropStep ==
  ASSUME IInv, NEW c \in DOMAIN card, Drop(c)
  PROVE  IInv'
<1>1. UNCHANGED <<log, ledger, batch, process, crashes>> /\ seen' \subseteq Id
  BY DEF Drop, IInv, TypeOK
<1>2. \A x \in DOMAIN card : card[x] \in CardRec
  BY DEF IInv, TypeOK, CardsTyped
<1>3. DOMAIN card' = DOMAIN card /\ \A x \in DOMAIN card \ {c} : card'[x] = card[x]
  BY DEF Drop
<1>4. card'[c] \in CardRec /\ card'[c].thread = card[c].thread /\ card'[c].st = "dropped"
  <2>1. card'[c] = End(c, "dropped", "")
    BY DEF Drop
  <2> QED
    BY <1>2, <2>1 DEF End, CardRec, CardState, Note
<1>5. CardsTyped' /\ OneQueuedIn(card') /\ MovesOn
  BY <1>1, <1>2, <1>3, <1>4, EndingMoves
<1> QED
  BY <1>1, <1>5, CardStep

(* Sending a failed card back to the queue keeps the invariant: it joins   *)
(* the card queued there, if there is one.                                 *)
LEMMA RetryStep ==
  ASSUME IInv, NEW c \in DOMAIN card, Retry(c)
  PROVE  IInv'
<1> DEFINE q == Requeue(card, {c})
<1>1. UNCHANGED <<log, ledger, batch, process, crashes>> /\ seen' \subseteq Id /\ card' = q
  BY DEF Retry, IInv, TypeOK
<1>2. \A x \in DOMAIN card : card[x] \in CardRec
  BY DEF IInv, TypeOK, CardsTyped
<1>3. /\ DOMAIN q = DOMAIN card
      /\ \A x \in DOMAIN card : q[x] \in CardRec /\ q[x].thread = card[x].thread
      /\ \A x \in DOMAIN card \ {c} : q[x].st = card[x].st /\ q[x].batch = card[x].batch
      /\ q[c].st \in {"queued", "done"}
  BY <1>2, RequeueFacts
<1>4. OneQueuedIn(card)
  BY DEF IInv, OneQueuedPerThread, OneQueuedIn, Is
<1>5. OneQueuedIn(q)
  BY <1>2, <1>4, RequeueKeepsOne
<1> HIDE DEF q
<1>6. CardsTyped' /\ MovesOn
  BY <1>1, <1>3 DEF IInv, TypeOK, CardsTyped, MovesOn, Id
<1> QED
  BY <1>1, <1>5, <1>6, CardStep

-----------------------------------------------------------------------------
(* Steps of a batch's own job, before it has results                        *)

(* A batch without results that gains an agent, an attempt or its results  *)
(* keeps its claim.                                                        *)
LEMMA AgentStep ==
  ASSUME IInv, NEW b \in DOMAIN batch, phase[b] \in {"run", "agent"},
         said' \in [Batch -> Line],
         UNCHANGED <<log, ledger, seen, card, tries, boot, barrier, crashes>>,
         phase' \in [Batch -> Phase], \A x \in Batch \ {b} : phase'[x] = phase[x],
         DOMAIN batch' = DOMAIN batch, \A x \in DOMAIN batch \ {b} : batch'[x] = batch[x],
         batch'[b] \in BatchRec(batch[b].members),
         batch'[b].frames = batch[b].frames, batch'[b].exclusive = batch[b].exclusive,
         batch'[b].st = batch[b].st, batch'[b].undelivered = batch[b].undelivered,
         phase'[b] = IF batch'[b].saved THEN "post" ELSE "agent"
  PROVE  IInv'
<1>1. batch'[b].members = batch[b].members /\ b \in Batch
  BY DEF BatchRec, IInv, TypeOK, BatchesTyped
<1>2. batch[b].st = "claimed" /\ ~batch[b].saved /\ ~batch[b].undelivered
  BY DEF IInv, JobsFit, Saved
<1>3. b \notin barrier.todo /\ b # barrier.at /\ boot # "down"
  BY <1>1, <1>2 DEF IInv, JobsFit, Saved
<1>4. TypeOK'
  BY <1>1 DEF IInv, TypeOK, CardsTyped, BatchesTyped, Id
<1>5. OneQueuedPerThread' /\ MembersApart' /\ WorkingIsClaimed'
  BY <1>1 DEF IInv, OneQueuedPerThread, MembersApart, WorkingIsClaimed, Is
<1>6. JobsFit'
  <2>1. DOMAIN batch \subseteq Batch /\ JobsFit
    BY DEF IInv, TypeOK, BatchesTyped
  <2>2. {x \in Batch : phase'[x] # "off"} \subseteq {x \in Batch : phase[x] # "off"}
    BY <2>1
  <2>3. ASSUME NEW x \in DOMAIN batch, x # b
        PROVE  batch'[x] = batch[x] /\ phase'[x] = phase[x]
    BY <2>1, <2>3
  <2> QED
    BY <1>1, <1>2, <1>3, <2>1, <2>2, <2>3 DEF JobsFit, Saved
<1>7. TodoFits'
  <2>1. barrier.todo \subseteq DOMAIN batch \ {b} /\ DOMAIN batch \subseteq Batch
    BY <1>3 DEF IInv, JobsFit, TypeOK, BatchesTyped
  <2> QED
    BY <2>1 DEF IInv, TodoFits, FailedBodies, Bodies
<1>8. ClaimedIsRunning'
  <2>1. b \in Running'
    BY <1>1 DEF Running
  <2>2. \A x \in DOMAIN batch \ {b} : x \in Running => x \in Running'
    BY DEF Running
  <2> QED
    BY <2>1, <2>2 DEF IInv, ClaimedIsRunning
<1>9. ClaimsApart'
  <2>1. Unsaved' \subseteq Unsaved
    BY <1>2 DEF Unsaved, Saved
  <2>2. \A x \in Unsaved : batch'[x].frames = batch[x].frames /\ batch'[x].exclusive = batch[x].exclusive
    BY DEF Unsaved
  <2> QED
    BY <2>1, <2>2 DEF IInv, ClaimsApart
<1> QED
  BY <1>4, <1>5, <1>6, <1>7, <1>8, <1>9 DEF IInv

(* Spawn, Respawn and SaveResults are such steps.                          *)
LEMMA AgentSteps ==
  ASSUME IInv, NEW b \in DOMAIN batch, Spawn(b) \/ Respawn(b) \/ SaveResults(b)
  PROVE  IInv'
<1>1. batch[b] \in BatchRec(batch[b].members) /\ b \in Batch /\ phase \in [Batch -> Phase]
  BY DEF IInv, TypeOK, BatchesTyped
<1>2. ASSUME phase[b] \in {"run", "agent"} PROVE ~batch[b].saved
  BY <1>2 DEF IInv, JobsFit, Saved
<1>3. CASE Spawn(b) \/ Respawn(b)
  <2>1. /\ phase[b] \in {"run", "agent"} /\ phase'[b] = "agent"
        /\ phase' \in [Batch -> Phase] /\ \A x \in Batch \ {b} : phase'[x] = phase[x]
    BY <1>1, <1>3 DEF Spawn, Respawn, Phase
  <2>2. batch' = [batch EXCEPT ![b].attempts = @ + 1]
    BY <1>3 DEF Spawn, Respawn
  <2>3. /\ batch'[b] \in BatchRec(batch[b].members)
        /\ batch'[b].frames = batch[b].frames /\ batch'[b].exclusive = batch[b].exclusive
        /\ batch'[b].st = batch[b].st /\ batch'[b].undelivered = batch[b].undelivered
        /\ batch'[b].saved = batch[b].saved
    BY <1>1, <2>2 DEF BatchRec
  <2>4. /\ UNCHANGED <<log, ledger, seen, card, tries, boot, barrier, crashes>>
        /\ said' \in [Batch -> Line]
    BY <1>3 DEF Spawn, Respawn, IInv, TypeOK
  <2> QED
    BY <1>2, <2>1, <2>2, <2>3, <2>4, AgentStep
<1>4. CASE SaveResults(b)
  <2>1. /\ phase[b] = "agent" /\ phase'[b] = "post"
        /\ phase' \in [Batch -> Phase] /\ \A x \in Batch \ {b} : phase'[x] = phase[x]
    BY <1>1, <1>4 DEF SaveResults, Phase
  <2>2. PICK r \in [batch[b].members -> Result], same \in BOOLEAN, asked \in BOOLEAN :
          LET early == said[b].at
              question == \E c \in batch[b].members : r[c] = "asks"
          IN /\ same => early # 0 /\ \A c \in batch[b].members : r[c] \in Body
             /\ asked => early # 0 /\ question
             /\ early # 0 /\ question /\ (same \/ log[early].asks) => asked
             /\ batch' = [batch EXCEPT ![b].saved = TRUE, ![b].results = r,
                            ![b].early = early, ![b].same = same, ![b].asked = asked]
    BY <1>4 DEF SaveResults
  <2>5. said \in [Batch -> Line] /\ said[b].at \in Nat
    BY <1>1 DEF IInv, TypeOK, Line
  <2>3. /\ batch'[b] \in BatchRec(batch[b].members)
        /\ batch'[b].frames = batch[b].frames /\ batch'[b].exclusive = batch[b].exclusive
        /\ batch'[b].st = batch[b].st /\ batch'[b].undelivered = batch[b].undelivered
        /\ batch'[b].saved
    BY <1>1, <2>2, <2>5 DEF BatchRec
  <2>4. /\ UNCHANGED <<log, ledger, seen, card, tries, boot, barrier, crashes>>
        /\ said' \in [Batch -> Line]
    BY <1>4, <2>5 DEF SaveResults, Line, NoLine
  <2> QED
    BY <2>1, <2>2, <2>3, <2>4, AgentStep
<1> QED
  BY <1>3, <1>4

-----------------------------------------------------------------------------
(* Steps that claim                                                         *)

(* New batches N, each with the queued cards M[b] on the frames F[b]: what  *)
(* FormAlone and FormOnFrames have in common.                               *)
Forms(N, M, F, alone) ==
  /\ boot = "up" /\ N \subseteq Fresh /\ alone \in BOOLEAN
  /\ \A b \in N : M[b] \subseteq Is("queued") /\ F[b] \subseteq Frame
  /\ \A a, b \in N : M[a] \cap M[b] # {} => a = b
  /\ \A a, b \in N : a # b => F[a] \cap F[b] = {} /\ ~alone
  /\ \A a \in N, b \in Unsaved : /\ F[a] \cap batch[b].frames = {}
                                /\ ~alone /\ ~batch[b].exclusive
  /\ DOMAIN card' = DOMAIN card
  /\ \A b \in N : \A c \in M[b] : card'[c] = Claimed(c, b)
  /\ \A c \in DOMAIN card : (\A b \in N : c \notin M[b]) => card'[c] = card[c]
  /\ DOMAIN batch' = DOMAIN batch \cup N
  /\ \A b \in N : batch'[b] = NewBatch(M[b], F[b], alone)
  /\ \A b \in DOMAIN batch : batch'[b] = batch[b]
  /\ phase' = [b \in Batch |-> IF b \in N THEN "run" ELSE phase[b]]
  /\ UNCHANGED <<log, ledger, seen, tries, said, boot, barrier, crashes>>

(* Claiming queued cards into new batches, apart from each other and from  *)
(* every claim without results, keeps the invariant.                       *)
LEMMA FormStep ==
  ASSUME IInv, NEW N, NEW M, NEW F, NEW alone, Forms(N, M, F, alone)
  PROVE  IInv'
<1> USE DEF Forms
<1>1. N \cap DOMAIN batch = {} /\ N \subseteq Batch /\ DOMAIN batch \subseteq Batch
  BY DEF Fresh, IInv, TypeOK, BatchesTyped
<1>2. ASSUME NEW c \in DOMAIN card
      PROVE  /\ card'[c] \in CardRec /\ card'[c].thread = card[c].thread
             /\ \/ card'[c] = card[c]
                \/ /\ card[c].st = "queued" /\ card'[c].st = "working"
                   /\ \E b \in N : c \in M[b] /\ card'[c].batch = b
  <2>1. card[c] \in CardRec
    BY DEF IInv, TypeOK, CardsTyped
  <2>2. CASE \E b \in N : c \in M[b]
    <3>1. PICK b \in N : c \in M[b]
      BY <2>2
    <3>2. card'[c] = [card[c] EXCEPT !.st = "working", !.batch = b, !.note = ""]
      BY <3>1 DEF Claimed
    <3>3. b \in Batch /\ card[c].st = "queued"
      BY <1>1, <3>1 DEF Is
    <3>4. /\ card'[c] \in CardRec /\ card'[c].thread = card[c].thread
          /\ card'[c].st = "working" /\ card'[c].batch = b
      BY <2>1, <3>2, <3>3 DEF CardRec, CardState, Note
    <3> QED
      BY <3>1, <3>3, <3>4
  <2>3. CASE \A b \in N : c \notin M[b]
    BY <2>1, <2>3
  <2> QED
    BY <2>2, <2>3
<1>3. ASSUME NEW b \in N
      PROVE  /\ batch'[b].members = M[b] /\ batch'[b].frames = F[b]
             /\ batch'[b].st = "claimed" /\ ~batch'[b].saved /\ ~batch'[b].undelivered
             /\ batch'[b].exclusive = alone
             /\ batch'[b] \in BatchRec(M[b])
  <2>1. batch'[b] = NewBatch(M[b], F[b], alone) /\ F[b] \in SUBSET Frame
    OBVIOUS
  <2>2. [c \in M[b] |-> "missing"] \in [M[b] -> Result]
    BY DEF Result
  <2>3. NewBatch(M[b], F[b], alone) \in BatchRec(M[b])
    BY <2>1, <2>2 DEF NewBatch, BatchRec
  <2> QED
    BY <2>1, <2>3 DEF NewBatch
<1>4. TypeOK'
  <2>1. CardsTyped'
    BY <1>2 DEF IInv, TypeOK, CardsTyped, Id
  <2>2. BatchesTyped'
    <3>1. ASSUME NEW b \in N PROVE M[b] \subseteq DOMAIN card
      BY DEF Is
    <3> QED
      BY <1>1, <1>3, <3>1 DEF IInv, TypeOK, BatchesTyped
  <2>3. phase' \in [Batch -> Phase]
    BY DEF IInv, TypeOK, Phase
  <2> QED
    BY <2>1, <2>2, <2>3 DEF IInv, TypeOK, Id
<1>5. OneQueuedPerThread'
  BY <1>2 DEF IInv, OneQueuedPerThread, Is
<1>6. MembersApart'
  <2>1. ASSUME NEW b \in DOMAIN batch', NEW c \in batch'[b].members, NEW d \in batch'[b].members,
               card'[c].thread = card'[d].thread
        PROVE  c = d
    <3>1. CASE b \in N
      BY <1>2, <1>3, <2>1, <3>1 DEF IInv, OneQueuedPerThread, Is
    <3>2. CASE b \in DOMAIN batch
      <4>1. c \in DOMAIN card /\ d \in DOMAIN card
        BY <3>2 DEF IInv, TypeOK, BatchesTyped
      <4> QED
        BY <1>2, <2>1, <3>2, <4>1 DEF IInv, MembersApart
    <3> QED
      BY <3>1, <3>2
  <2> QED
    BY <2>1 DEF MembersApart
<1>7. WorkingIsClaimed'
  <2>1. ASSUME NEW c \in Is("working")'
        PROVE  /\ card'[c].batch \in DOMAIN batch'
               /\ batch'[card'[c].batch].st = "claimed"
               /\ ~batch'[card'[c].batch].undelivered
               /\ c \in batch'[card'[c].batch].members
    <3>1. c \in DOMAIN card /\ card'[c].st = "working"
      BY DEF Is
    <3>2. CASE card'[c] = card[c]
      BY <3>1, <3>2 DEF IInv, WorkingIsClaimed, Is
    <3>3. CASE \E b \in N : c \in M[b] /\ card'[c].batch = b
      BY <1>3, <3>3
    <3> QED
      BY <1>2, <3>1, <3>2, <3>3
  <2> QED
    BY <2>1 DEF WorkingIsClaimed
<1>8. /\ barrier.todo \subseteq DOMAIN batch
      /\ barrier.at \in (DOMAIN batch \ barrier.todo) \cup {NoBatch}
  BY DEF IInv, JobsFit
<1>9. JobsFit'
  <2>1. \A x \in DOMAIN batch : phase'[x] = phase[x]
    BY <1>1
  <2>2. \A x \in N : phase'[x] = "run" /\ x \notin barrier.todo /\ x # barrier.at
    BY <1>1, <1>8, NoBatchAssumption
  <2>3. {x \in Batch : phase'[x] # "off"} \cup barrier'.todo \subseteq DOMAIN batch'
    BY <1>8 DEF IInv, JobsFit
  <2>4. \A x \in DOMAIN batch :
          /\ (phase'[x] \in {"deferred", "run", "agent"}
                => batch'[x].st = "claimed" /\ ~batch'[x].saved /\ ~batch'[x].undelivered)
          /\ (phase'[x] \in {"post", "retry"} \/ x \in barrier.todo \/ x = barrier.at
                => batch'[x].saved)
          /\ (batch'[x].undelivered => batch'[x].saved)
          /\ (batch'[x].saved => batch'[x].st # "failed")
    <3>1. \A x \in DOMAIN batch : batch'[x] = batch[x] /\ phase'[x] = phase[x]
      BY <2>1
    <3> QED
      BY <3>1 DEF IInv, JobsFit, Saved
  <2>5. \A x \in N :
          /\ batch'[x].st = "claimed" /\ ~batch'[x].saved /\ ~batch'[x].undelivered
          /\ phase'[x] \notin {"post", "retry"} /\ x \notin barrier.todo /\ x # barrier.at
    BY <1>3, <2>2
  <2>6. boot' # "down" /\ barrier'.at \in (DOMAIN batch' \ barrier'.todo) \cup {NoBatch}
    BY <1>8
  <2> QED
    BY <2>3, <2>4, <2>5, <2>6 DEF JobsFit, Saved
<1>10. TodoFits'
  <2>1. \A x \in DOMAIN batch : FailedBodies(x)' \subseteq FailedBodies(x)
    BY <1>2 DEF FailedBodies, Bodies, IInv, TypeOK, BatchesTyped
  <2> QED
    BY <1>1, <1>8, <2>1 DEF IInv, TodoFits
<1>11. ClaimedIsRunning'
  <2>1. \A x \in N : x \in Running'
    BY <1>1 DEF Running
  <2>2. \A x \in DOMAIN batch : x \in Running => x \in Running'
    BY <1>1 DEF Running
  <2> QED
    BY <2>1, <2>2 DEF IInv, ClaimedIsRunning
<1>12. ClaimsApart'
  <2>1. Unsaved' \subseteq Unsaved \cup N
    BY DEF Unsaved, Saved
  <2>2. ASSUME NEW a \in Unsaved', NEW b \in Unsaved', a # b
        PROVE  batch'[a].frames \cap batch'[b].frames = {} /\ ~batch'[a].exclusive
    <3>1. \A x \in Unsaved : x \in DOMAIN batch /\ batch'[x] = batch[x]
      BY DEF Unsaved
    <3>2. CASE a \in Unsaved /\ b \in Unsaved
      BY <2>2, <3>1, <3>2 DEF IInv, ClaimsApart
    <3>3. CASE a \in N /\ b \in N
      BY <1>3, <2>2, <3>3
    <3>4. CASE a \in N /\ b \in Unsaved
      BY <1>3, <3>1, <3>4
    <3>5. CASE a \in Unsaved /\ b \in N
      BY <1>3, <3>1, <3>5
    <3> QED
      BY <2>1, <3>2, <3>3, <3>4, <3>5
  <2> QED
    BY <2>2 DEF ClaimsApart
<1> QED
  BY <1>4, <1>5, <1>6, <1>7, <1>9, <1>10, <1>11, <1>12 DEF IInv

(* What has no results yet is running, so its frames are reserved.          *)
LEMMA UnsavedRuns ==
  ASSUME IInv, boot = "up"
  PROVE  Unsaved \subseteq Running
  BY DEF IInv, ClaimedIsRunning, JobsFit, Unsaved, Saved

(* A card that runs alone is claimed while nothing runs.                   *)
LEMMA FormAloneForms ==
  ASSUME IInv, FormAlone
  PROVE  \E N, M, F, alone : Forms(N, M, F, alone)
<1>1. boot = "up" /\ Unsaved = {}
  BY UnsavedRuns DEF FormAlone, MayPump
<1>2. PICK c \in FirstOf(AloneQueued, 1, Order), b \in Fresh :
        /\ card' = [card EXCEPT ![c] = Claimed(c, b)]
        /\ batch' = [x \in DOMAIN batch \cup {b} |->
                      IF x = b THEN NewBatch({c}, FramesOf(card[c].thread), TRUE)
                               ELSE batch[x]]
        /\ phase' = [phase EXCEPT ![b] = "run"]
  BY DEF FormAlone
<1> DEFINE N == {b}
           M == [x \in N |-> {c}]
           F == [x \in N |-> FramesOf(card[c].thread)]
           alone == TRUE
<1>3. c \in Is("queued")
  BY DEF FirstOf, AloneQueued
<1>4. FramesOf(card[c].thread) \subseteq Frame
  <2>1. card[c].thread \in Thread
    BY <1>3 DEF Is, IInv, TypeOK, CardsTyped, CardRec
  <2> QED
    BY <2>1, FrameAssumption DEF FramesOf
<1>5. phase' = [x \in Batch |-> IF x \in N THEN "run" ELSE phase[x]]
  BY <1>2 DEF IInv, TypeOK
<1>6. b \in Batch /\ b \notin DOMAIN batch
  BY DEF Fresh
<1>7. UNCHANGED <<log, ledger, seen, tries, said, boot, barrier, crashes>>
  BY DEF FormAlone
<1>8. \A x \in N : M[x] \subseteq Is("queued") /\ F[x] \subseteq Frame
  BY <1>3, <1>4
<1>9. /\ DOMAIN card' = DOMAIN card
      /\ \A x \in N : \A d \in M[x] : card'[d] = Claimed(d, x)
      /\ \A d \in DOMAIN card : (\A x \in N : d \notin M[x]) => card'[d] = card[d]
  BY <1>2, <1>3 DEF Is
<1>10. /\ DOMAIN batch' = DOMAIN batch \cup N
       /\ \A x \in N : batch'[x] = NewBatch(M[x], F[x], alone)
       /\ \A x \in DOMAIN batch : batch'[x] = batch[x]
  BY <1>2, <1>6
<1>11. N \in SUBSET Fresh /\ alone \in BOOLEAN /\ \A x, y \in N : x = y
  OBVIOUS
<1> HIDE DEF N, M, F, alone
<1>12. /\ \A x, y \in N : M[x] \cap M[y] # {} => x = y
       /\ \A x, y \in N : x # y => F[x] \cap F[y] = {} /\ ~alone
       /\ \A x \in N, y \in Unsaved : /\ F[x] \cap batch[y].frames = {}
                                     /\ ~alone /\ ~batch[y].exclusive
  BY <1>1, <1>11
<1>13. Forms(N, M, F, alone)
  BY <1>1, <1>5, <1>7, <1>8, <1>9, <1>10, <1>11, <1>12 DEF Forms
<1> QED
  BY <1>13

(* Each frame that no run has reserved gets at most one new batch, of the  *)
(* cards on it.                                                            *)
LEMMA FormOnFramesForms ==
  ASSUME IInv, FormOnFrames
  PROVE  \E N, M, F, alone : Forms(N, M, F, alone)
<1>1. boot = "up" /\ Unsaved \subseteq Running /\ ~ExclusiveRunning
  BY UnsavedRuns DEF FormOnFrames, MayPump
<1>2. PICK new \in [Starting -> Fresh] :
        /\ \A f, g \in Starting : new[f] = new[g] => f = g
        /\ card' = [c \in DOMAIN card |->
             IF \E f \in Starting : c \in JoiningOn(f)
               THEN Claimed(c, new[CHOOSE f \in Starting : c \in JoiningOn(f)])
               ELSE card[c]]
        /\ batch' = [b \in DOMAIN batch \cup {new[f] : f \in Starting} |->
             IF b \in {new[f] : f \in Starting}
               THEN NewBatch(JoiningOn(CHOOSE f \in Starting : new[f] = b),
                             {CHOOSE f \in Starting : new[f] = b}, FALSE)
               ELSE batch[b]]
        /\ phase' = [b \in Batch |-> IF b \in {new[f] : f \in Starting}
                                       THEN "run" ELSE phase[b]]
  BY DEF FormOnFrames
<1> DEFINE N == {new[f] : f \in Starting}
           of(b) == CHOOSE f \in Starting : new[f] = b
           M == [b \in N |-> JoiningOn(of(b))]
           F == [b \in N |-> {of(b)}]
           alone == FALSE
<1>3. Starting \subseteq Frame /\ Starting \cap Reserved = {}
  BY DEF Starting, FirstOf
<1>4. \A f \in Starting : JoiningOn(f) \subseteq Is("queued")
  BY DEF JoiningOn, FirstOf, QueuedOn
<1>5. \A f, g \in Starting : \A c \in JoiningOn(f) \cap JoiningOn(g) : f = g
  BY DEF JoiningOn, FirstOf, QueuedOn
<1>6. \A b \in N : of(b) \in Starting /\ new[of(b)] = b
  OBVIOUS
<1>7. N \subseteq Fresh
  BY <1>2
<1>8. N \cap DOMAIN batch = {}
  BY <1>7 DEF Fresh
<1>9. /\ DOMAIN batch' = DOMAIN batch \cup N
      /\ \A b \in N : batch'[b] = NewBatch(M[b], F[b], alone)
      /\ \A b \in DOMAIN batch : batch'[b] = batch[b]
  BY <1>2, <1>8
<1>10. phase' = [b \in Batch |-> IF b \in N THEN "run" ELSE phase[b]]
  BY <1>2
<1>11. \A b \in N : M[b] = JoiningOn(of(b)) /\ F[b] = {of(b)} /\ alone \in BOOLEAN /\ ~alone
  OBVIOUS
<1>12. DOMAIN card' = DOMAIN card
  BY <1>2
<1> HIDE DEF M, F, alone, N
<1>13. ASSUME NEW b \in N, NEW c \in M[b] PROVE card'[c] = Claimed(c, b)
  <2>1. c \in JoiningOn(of(b)) /\ of(b) \in Starting /\ c \in DOMAIN card
    BY <1>4, <1>6, <1>11 DEF Is
  <2>2. (CHOOSE f \in Starting : c \in JoiningOn(f)) = of(b)
    BY <1>5, <2>1
  <2>3. card'[c] = Claimed(c, new[CHOOSE f \in Starting : c \in JoiningOn(f)])
    BY <1>2, <2>1
  <2> QED
    BY <1>6, <2>2, <2>3
<1>14. ASSUME NEW c \in DOMAIN card, \A b \in N : c \notin M[b]
       PROVE  card'[c] = card[c]
  <2>1. ASSUME NEW f \in Starting PROVE c \notin JoiningOn(f)
    <3>1. new[f] \in N
      BY DEF N
    <3>2. of(new[f]) = f
      BY <1>2, <1>6, <3>1
    <3> QED
      BY <1>11, <1>14, <3>1, <3>2
  <2> QED
    BY <1>2, <2>1
<1>15. /\ \A b \in N : M[b] \subseteq Is("queued") /\ F[b] \subseteq Frame
       /\ \A a, b \in N : M[a] \cap M[b] # {} => a = b
       /\ \A a, b \in N : a # b => F[a] \cap F[b] = {} /\ ~alone
  BY <1>3, <1>4, <1>5, <1>6, <1>11
<1>16. ASSUME NEW a \in N, NEW b \in Unsaved
       PROVE  F[a] \cap batch[b].frames = {} /\ ~alone /\ ~batch[b].exclusive
  <2>1. b \in Running
    BY <1>1
  <2>2. batch[b].frames \subseteq Reserved /\ ~batch[b].exclusive
    BY <1>1, <2>1 DEF Reserved, ExclusiveRunning
  <2> QED
    BY <1>3, <1>6, <1>11, <2>2
<1>17. UNCHANGED <<log, ledger, seen, tries, said, boot, barrier, crashes>> /\ alone \in BOOLEAN
  BY DEF FormOnFrames, alone
<1>18. Forms(N, M, F, alone)
  BY <1>1, <1>7, <1>9, <1>10, <1>12, <1>13, <1>14, <1>15, <1>16, <1>17 DEF Forms
<1> QED
  BY <1>18

(* Whatever the pump claims keeps the invariant.                            *)
LEMMA PumpStep ==
  ASSUME IInv, FormAlone \/ FormOnFrames
  PROVE  IInv'
<1>1. PICK N, M, F, alone : Forms(N, M, F, alone)
  BY FormAloneForms, FormOnFramesForms
<1> QED
  BY <1>1, FormStep

-----------------------------------------------------------------------------
(* Steps that end a run, a delivery, or a try to deliver                    *)

(* No agent says a line, and batch b keeps what it says of its early line.  *)
Mutes == \A b \in Batch : said'[b] \in {said[b], NoLine}
KeepsEarly(b) == /\ batch'[b].early = batch[b].early
                 /\ batch'[b].same = batch[b].same /\ batch'[b].asked = batch[b].asked

(* Batch b comes to its end, or is given up: none of its cards works on.    *)
Ends(b) ==
  /\ CardsTyped' /\ OneQueuedIn(card') /\ DOMAIN card' = DOMAIN card
  /\ \A c \in DOMAIN card : card'[c].thread = card[c].thread
  /\ \A c \in DOMAIN card \ Live(b) : card'[c].st = card[c].st /\ card'[c].batch = card[c].batch
  /\ \A c \in Live(b) : card'[c].st # "working" /\ card'[c].batch \in {b, NoBatch}
  /\ DOMAIN batch' = DOMAIN batch
  /\ \A x \in DOMAIN batch \ {b} : batch'[x] = batch[x]
  /\ batch'[b] \in BatchRec(batch[b].members)
  /\ batch'[b].frames = batch[b].frames /\ batch'[b].exclusive = batch[b].exclusive
  /\ batch'[b].saved = batch[b].saved /\ batch'[b].results = batch[b].results
  /\ \/ batch'[b].st \in {"done", "failed"}
     \/ batch'[b].st = batch[b].st /\ batch'[b].undelivered
  /\ (batch'[b].undelivered => batch[b].saved)
  /\ (batch[b].saved => batch'[b].st # "failed")
  /\ KeepsEarly(b) /\ Mutes
  /\ UNCHANGED <<log, ledger, seen, boot, crashes>>

(* ... and with it the job that had it, or the barrier's turn at it.        *)
Leaves(b) ==
  /\ phase' \in [Batch -> Phase] /\ tries' \in [Batch -> Nat]
  /\ said' \in [Batch -> Line] /\ barrier' \in Barrier
  /\ \A x \in Batch \ {b} : phase'[x] = phase[x]
  /\ phase'[b] = "off" \/ (batch[b].saved /\ phase'[b] = phase[b])
  /\ barrier'.todo = barrier.todo
  /\ barrier'.at = barrier.at \/ (barrier.at = b /\ barrier'.at = NoBatch)

(* A batch that ends, with its working cards ended or given back, keeps    *)
(* the invariant.                                                          *)
LEMMA EndsStep ==
  ASSUME IInv, NEW b \in DOMAIN batch, Ends(b), Leaves(b),
         b \in barrier.todo =>
           \/ phase'[b] = "off" /\ batch'[b].st = "claimed"
           \/ FailedBodies(b)' = {}
  PROVE  IInv'
<1> USE DEF Ends, Leaves
<1>1. b \in Batch /\ DOMAIN batch \subseteq Batch
  BY DEF IInv, TypeOK, BatchesTyped
<1>2. batch'[b].members = batch[b].members
  BY DEF BatchRec
<1>3. TypeOK'
  BY <1>2 DEF IInv, TypeOK, BatchesTyped, Id
<1>4. OneQueuedPerThread'
  BY DEF OneQueuedIn, OneQueuedPerThread, Is
<1>5. MembersApart'
  <2>1. ASSUME NEW x \in DOMAIN batch
        PROVE  batch'[x].members = batch[x].members /\ batch[x].members \subseteq DOMAIN card
    BY <1>2 DEF IInv, TypeOK, BatchesTyped
  <2> QED
    BY <2>1 DEF IInv, MembersApart
<1>6. WorkingIsClaimed'
  <2>1. ASSUME NEW c \in Is("working")'
        PROVE  /\ card'[c].batch \in DOMAIN batch'
               /\ batch'[card'[c].batch].st = "claimed"
               /\ ~batch'[card'[c].batch].undelivered
               /\ c \in batch'[card'[c].batch].members
    <3>1. c \in DOMAIN card \ Live(b) /\ card'[c].st = "working"
      BY DEF Is
    <3>2. c \in Is("working") /\ card'[c].batch = card[c].batch
      BY <3>1 DEF Is
    <3>3. card[c].batch # b
      BY <3>1, <3>2 DEF Live, IInv, WorkingIsClaimed, Is
    <3> QED
      BY <3>2, <3>3 DEF IInv, WorkingIsClaimed
  <2> QED
    BY <2>1 DEF WorkingIsClaimed
<1>7. JobsFit'
  <2>1. /\ (boot' = "down" => \A x \in Batch : phase'[x] = "off")
        /\ {x \in Batch : phase'[x] # "off"} \cup barrier'.todo \subseteq DOMAIN batch'
        /\ barrier'.at \in (DOMAIN batch' \ barrier'.todo) \cup {NoBatch}
    BY <1>1 DEF IInv, JobsFit
  <2>2. \A x \in DOMAIN batch \ {b} :
          /\ (phase'[x] \in {"deferred", "run", "agent"}
                => batch'[x].st = "claimed" /\ ~batch'[x].saved /\ ~batch'[x].undelivered)
          /\ (phase'[x] \in {"post", "retry"} \/ x \in barrier'.todo \/ x = barrier'.at
                => batch'[x].saved)
          /\ (batch'[x].undelivered => batch'[x].saved)
          /\ (batch'[x].saved => batch'[x].st # "failed")
    BY <1>1, NoBatchAssumption DEF IInv, JobsFit, Saved
  <2>3. /\ (phase'[b] \in {"deferred", "run", "agent"} => FALSE)
        /\ (phase'[b] \in {"post", "retry"} \/ b \in barrier'.todo \/ b = barrier'.at
                => batch'[b].saved)
        /\ (batch'[b].undelivered => batch'[b].saved)
        /\ (batch'[b].saved => batch'[b].st # "failed")
    BY <1>1, NoBatchAssumption DEF IInv, JobsFit, Saved
  <2> QED
    BY <2>1, <2>2, <2>3 DEF JobsFit, Saved
<1>8. TodoFits'
  <2>1. ASSUME NEW x \in barrier.todo, x # b PROVE FailedBodies(x)' \subseteq FailedBodies(x)
    <3>1. x \in DOMAIN batch /\ x # NoBatch
      BY <1>1, NoBatchAssumption DEF IInv, JobsFit
    <3>2. batch[x].members \subseteq DOMAIN card
      BY <3>1 DEF IInv, TypeOK, BatchesTyped
    <3> QED
      BY <2>1, <3>1, <3>2 DEF FailedBodies, Bodies
  <2>2. barrier.todo \subseteq DOMAIN batch
    BY DEF IInv, JobsFit
  <2>3. ASSUME NEW x \in barrier'.todo, phase'[x] # "off" \/ batch'[x].st # "claimed"
        PROVE  FailedBodies(x)' = {}
    <3>1. CASE x = b
      BY <2>3, <3>1
    <3>2. CASE x # b
      BY <1>1, <2>1, <2>2, <2>3, <3>2 DEF IInv, TodoFits
    <3> QED
      BY <3>1, <3>2
  <2> QED
    BY <2>3 DEF TodoFits
<1>9. ClaimedIsRunning'
  <2>1. \A x \in DOMAIN batch \ {b} : x \in Running => x \in Running'
    BY <1>1 DEF Running
  <2>2. batch'[b].st = "claimed" => batch'[b].undelivered
    OBVIOUS
  <2> QED
    BY <2>1, <2>2 DEF IInv, ClaimedIsRunning
<1>10. ClaimsApart'
  <2>1. Unsaved' \subseteq Unsaved
    BY DEF Unsaved, Saved
  <2>2. \A x \in Unsaved : batch'[x].frames = batch[x].frames /\ batch'[x].exclusive = batch[x].exclusive
    BY DEF Unsaved
  <2> QED
    BY <2>1, <2>2 DEF IInv, ClaimsApart
<1> QED
  BY <1>3, <1>4, <1>5, <1>6, <1>7, <1>8, <1>9, <1>10 DEF IInv

(* A run that fails (queue.ts:652-662) ends its working cards.             *)
LEMMA FailEnds ==
  ASSUME IInv, NEW b \in DOMAIN batch, Fail(b)
  PROVE  /\ Ends(b) /\ batch'[b].st = "failed" /\ Live(b) \subseteq DOMAIN card
         /\ \A c \in DOMAIN card \ Live(b) : card'[c] = card[c]
         /\ \A c \in Live(b) : card'[c] = Failed(c)
<1>1. phase[b] \in {"run", "agent"} /\ ~batch[b].saved /\ ~batch[b].undelivered /\ b \in Batch
  BY DEF Fail, IInv, JobsFit, Saved, TypeOK, BatchesTyped
<1>3. /\ batch[b] \in BatchRec(batch[b].members)
      /\ \A c \in DOMAIN card : card[c] \in CardRec
  BY DEF IInv, TypeOK, BatchesTyped, CardsTyped
<1>4. batch' = [batch EXCEPT ![b].st = "failed"]
  BY DEF Fail
<1>5. /\ batch'[b] \in BatchRec(batch[b].members)
      /\ batch'[b].frames = batch[b].frames /\ batch'[b].exclusive = batch[b].exclusive
      /\ batch'[b].saved = batch[b].saved /\ batch'[b].results = batch[b].results
      /\ batch'[b].st = "failed" /\ batch'[b].undelivered = batch[b].undelivered
      /\ KeepsEarly(b)
  BY <1>3, <1>4 DEF BatchRec, KeepsEarly
<1>6. DOMAIN card' = DOMAIN card /\ \A c \in DOMAIN card \ Live(b) : card'[c] = card[c]
  BY DEF Fail
<1>7. ASSUME NEW c \in Live(b)
      PROVE  /\ card'[c] \in CardRec /\ card'[c].thread = card[c].thread
             /\ card'[c].batch = b /\ card'[c].st \in {"done", "failed"}
  <2>1. c \in DOMAIN card /\ card[c].batch = b
    BY DEF Live, IInv, TypeOK, BatchesTyped
  <2>2. \/ card'[c] = End(c, "done", "resolved")
        \/ card'[c] = End(c, "failed", "")
    BY <2>1 DEF Fail, Failed
  <2>3. card[c] \in CardRec
    BY <1>3, <2>1
  <2>4. CASE card'[c] = End(c, "done", "resolved")
    BY <2>1, <2>3, <2>4 DEF End, CardRec, CardState, Note
  <2>5. CASE card'[c] = End(c, "failed", "")
    BY <2>1, <2>3, <2>5 DEF End, CardRec, CardState, Note
  <2> QED
    BY <2>2, <2>4, <2>5
<1>8. CardsTyped' /\ OneQueuedIn(card')
  <2>1. UNCHANGED log
    BY DEF Fail
  <2>2. \A c \in DOMAIN card : card'[c] \in CardRec
    BY <1>3, <1>6, <1>7
  <2>3. \A c \in DOMAIN card : card'[c].st = "queued" => card'[c] = card[c]
    BY <1>6, <1>7
  <2> QED
    BY <1>6, <2>1, <2>2, <2>3
       DEF IInv, TypeOK, CardsTyped, OneQueuedPerThread, OneQueuedIn, Is, Id
<1>9. UNCHANGED <<log, ledger, seen, boot, crashes, tries, barrier>>
  BY DEF Fail
<1>10. Ends(b)
  <2>1. Mutes
    BY DEF Fail, Mutes, IInv, TypeOK
  <2> QED
    BY <1>1, <1>4, <1>5, <1>6, <1>7, <1>8, <1>9, <2>1 DEF Ends
<1>11. Live(b) \subseteq DOMAIN card
  BY DEF Live, IInv, TypeOK, BatchesTyped
<1>12. \A c \in Live(b) : card'[c] = Failed(c)
  BY <1>11 DEF Fail
<1> QED
  BY <1>5, <1>6, <1>10, <1>11, <1>12

(* ... and its job, so the invariant holds on.                             *)
LEMMA FailStep ==
  ASSUME IInv, NEW b \in DOMAIN batch, Fail(b)
  PROVE  IInv'
<1>1. phase[b] \in {"run", "agent"} /\ ~batch[b].saved /\ ~batch[b].undelivered /\ b \in Batch
  BY DEF Fail, IInv, JobsFit, Saved, TypeOK, BatchesTyped
<1>2. b \notin barrier.todo /\ b # barrier.at
  BY <1>1 DEF IInv, JobsFit, Saved
<1>3. Ends(b)
  BY FailEnds
<1>4. Leaves(b)
  BY <1>1 DEF Fail, Leaves, IInv, TypeOK, Phase, Line, NoLine
<1> QED
  BY <1>2, <1>3, <1>4, EndsStep

(* Settling the cards of S and marking the batch.                           *)
LEMMA SettleEnds ==
  ASSUME IInv, NEW b \in DOMAIN batch, Saved(b), SettleBatch(b),
         UNCHANGED <<log, ledger, seen, said, boot, crashes>>
  PROVE  Ends(b) /\ (FailedBodies(b) = {} => FailedBodies(b)' = {})
<1>0. PICK told \in {AnsweredAtPost(b), AnsweredEarly(b)} :
        card' = SettleCards(b, Live(b), told)
  BY DEF SettleBatch
<1> DEFINE q == SettleCards(b, Live(b), told)
<1>1. Live(b) \cap Unposted(b) = {}
  BY DEF SettleBatch
<1>2. /\ DOMAIN q = DOMAIN card
      /\ \A c \in DOMAIN card : q[c] \in CardRec /\ q[c].thread = card[c].thread
      /\ \A c \in DOMAIN card \ Live(b) : q[c].st = card[c].st /\ q[c].batch = card[c].batch
      /\ \A c \in Live(b) : /\ q[c].st # "working" /\ q[c].batch \in {b, NoBatch}
                            /\ c \in Bodies(b) => q[c].st # "failed"
      /\ OneQueuedIn(q)
  BY <1>1, SettleFacts
<1>3. card' = q /\ batch' = [batch EXCEPT ![b].st = "done"]
  BY <1>0 DEF SettleBatch
<1> HIDE DEF q
<1>4. batch[b] \in BatchRec(batch[b].members)
  BY DEF IInv, TypeOK, BatchesTyped
<1>5. /\ batch'[b] \in BatchRec(batch[b].members)
      /\ batch'[b].members = batch[b].members
      /\ batch'[b].frames = batch[b].frames /\ batch'[b].exclusive = batch[b].exclusive
      /\ batch'[b].saved = batch[b].saved /\ batch'[b].results = batch[b].results
      /\ batch'[b].st = "done" /\ KeepsEarly(b)
  BY <1>3, <1>4 DEF BatchRec, KeepsEarly
<1>6. CardsTyped'
  BY <1>2, <1>3 DEF IInv, TypeOK, CardsTyped, Id
<1>7. Ends(b)
  BY <1>2, <1>3, <1>5, <1>6 DEF Ends, Mutes, Saved
<1>8. FailedBodies(b)' \subseteq FailedBodies(b)
  <2>1. batch[b].members \subseteq DOMAIN card
    BY DEF IInv, TypeOK, BatchesTyped
  <2> QED
    BY <1>2, <1>3, <1>5, <2>1 DEF FailedBodies, Bodies
<1> QED
  BY <1>7, <1>8

(* A delivery given up (queue.ts:666-679) ends every working card of its   *)
(* batch, the ones with words as failed.                                   *)
LEMMA GiveUpEnds ==
  ASSUME IInv, NEW b \in DOMAIN batch, Saved(b), GiveUp(b),
         UNCHANGED <<log, ledger, seen, said, boot, crashes>>
  PROVE  /\ Ends(b)
         /\ \/ batch[b].st = "claimed" /\ batch'[b].st = "claimed"
            \/ FailedBodies(b)' \subseteq FailedBodies(b)
<1> DEFINE S == Live(b) \ Bodies(b)
           q == SettleCards(b, S, {})
<1>1. /\ DOMAIN q = DOMAIN card
      /\ \A c \in DOMAIN card : q[c] \in CardRec /\ q[c].thread = card[c].thread
      /\ \A c \in DOMAIN card \ S : q[c].st = card[c].st /\ q[c].batch = card[c].batch
      /\ \A c \in S : /\ q[c].st # "working" /\ q[c].batch \in {b, NoBatch}
                      /\ c \in Bodies(b) => q[c].st # "failed"
      /\ OneQueuedIn(q)
  <2>1. S \cap Unposted(b) = {}
    BY DEF Unposted
  <2> QED
    BY <2>1, SettleFacts
<1>2. /\ card' = [c \in DOMAIN card |-> IF c \in Live(b) \cap Bodies(b)
                                          THEN End(c, "failed", "") ELSE q[c]]
      /\ batch' = [batch EXCEPT ![b].undelivered = TRUE]
  BY DEF GiveUp
<1> HIDE DEF q
<1>3. batch[b] \in BatchRec(batch[b].members)
  BY DEF IInv, TypeOK, BatchesTyped
<1>4. /\ batch'[b] \in BatchRec(batch[b].members)
      /\ batch'[b].members = batch[b].members
      /\ batch'[b].frames = batch[b].frames /\ batch'[b].exclusive = batch[b].exclusive
      /\ batch'[b].saved = batch[b].saved /\ batch'[b].results = batch[b].results
      /\ batch'[b].st = batch[b].st /\ batch'[b].undelivered
      /\ batch[b].st # "failed" /\ KeepsEarly(b)
  BY <1>2, <1>3 DEF BatchRec, KeepsEarly, IInv, JobsFit, Saved
<1>5. ASSUME NEW c \in Live(b) \cap Bodies(b)
      PROVE  /\ card'[c] \in CardRec /\ card'[c].thread = card[c].thread
             /\ card'[c].batch = b /\ card'[c].st = "failed"
  <2>1. c \in DOMAIN card /\ card[c].batch = b /\ card[c] \in CardRec
    BY DEF Live, IInv, TypeOK, BatchesTyped, CardsTyped
  <2>2. card'[c] = End(c, "failed", "")
    BY <1>2, <2>1
  <2> QED
    BY <2>1, <2>2 DEF End, CardRec, CardState, Note
<1>6. DOMAIN card' = DOMAIN card /\ \A c \in DOMAIN card : c \notin Live(b) \cap Bodies(b) => card'[c] = q[c]
  BY <1>2
<1>7. CardsTyped'
  BY <1>1, <1>5, <1>6 DEF IInv, TypeOK, CardsTyped, Id
<1>8. OneQueuedIn(card')
  <2>1. \A c \in DOMAIN card : card'[c].st = "queued" => card'[c] = q[c]
    BY <1>5, <1>6
  <2> QED
    BY <1>1, <1>6, <2>1 DEF OneQueuedIn
<1>9. Ends(b)
  <2>1. \A c \in DOMAIN card : card'[c].thread = card[c].thread
    BY <1>1, <1>5, <1>6
  <2>2. \A c \in DOMAIN card \ Live(b) : card'[c].st = card[c].st /\ card'[c].batch = card[c].batch
    BY <1>1, <1>6
  <2>3. ASSUME NEW c \in Live(b)
        PROVE  card'[c].st # "working" /\ card'[c].batch \in {b, NoBatch}
    <3>1. c \in DOMAIN card
      BY DEF Live, IInv, TypeOK, BatchesTyped
    <3>2. CASE c \in Bodies(b)
      BY <1>5, <3>2
    <3>3. CASE c \notin Bodies(b)
      BY <1>1, <1>6, <3>1, <3>3
    <3> QED
      BY <3>2, <3>3
  <2> QED
    BY <1>2, <1>4, <1>6, <1>7, <1>8, <2>1, <2>2, <2>3 DEF Ends, Mutes, Saved
<1>10. batch[b].st # "claimed" => FailedBodies(b)' \subseteq FailedBodies(b)
  <2>1. batch[b].st # "claimed" => Live(b) = {}
    BY DEF Live, IInv, WorkingIsClaimed, Is, TypeOK, BatchesTyped
  <2>2. batch[b].members \subseteq DOMAIN card
    BY DEF IInv, TypeOK, BatchesTyped
  <2> QED
    BY <1>1, <1>4, <1>6, <2>1, <2>2 DEF FailedBodies, Bodies
<1> QED
  BY <1>4, <1>9, <1>10

(* Settling and giving up, by a job or by the barrier, keep the invariant. *)
LEMMA DeliveryEnds ==
  ASSUME IInv, NEW b \in DOMAIN batch,
         Settle(b) \/ Undelivered(b) \/ BarrierSettles(b) \/ BarrierGivesUp(b)
  PROVE  IInv'
<1>1. b \in Batch /\ b # NoBatch
  BY NoBatchAssumption DEF IInv, TypeOK, BatchesTyped
<1>2. /\ phase \in [Batch -> Phase] /\ tries \in [Batch -> Nat] /\ barrier \in Barrier
      /\ said \in [Batch -> Line] /\ MaxTries \in Nat
  BY LimitAssumption DEF IInv, TypeOK
<1>3. CASE JobEnds(b) /\ phase[b] = "post" /\ (SettleBatch(b) \/ GiveUp(b))
  <2>1. /\ Saved(b) /\ phase'[b] = "off"
        /\ UNCHANGED <<log, ledger, seen, said, boot, crashes, barrier>>
    BY <1>1, <1>2, <1>3 DEF JobEnds, IInv, JobsFit
  <2>2. Leaves(b)
    BY <1>1, <1>2, <1>3 DEF JobEnds, Leaves, Phase
  <2>3. b \in barrier.todo => FailedBodies(b) = {}
    BY <1>3 DEF IInv, TodoFits
  <2>4. CASE SettleBatch(b)
    BY <2>1, <2>2, <2>3, <2>4, SettleEnds, EndsStep
  <2>5. CASE GiveUp(b)
    <3>1. /\ Ends(b)
          /\ \/ batch'[b].st = "claimed"
             \/ FailedBodies(b)' \subseteq FailedBodies(b)
      BY <2>1, <2>5, GiveUpEnds
    <3> QED
      BY <2>1, <2>2, <2>3, <3>1, EndsStep
  <2> QED
    BY <1>3, <2>4, <2>5
<1>4. CASE NextAtBarrier /\ barrier.at = b /\ (SettleBatch(b) \/ GiveUp(b))
  <2>1. /\ Saved(b) /\ b \notin barrier.todo
        /\ UNCHANGED <<log, ledger, seen, boot, crashes, phase, tries, said>>
    BY <1>1, <1>4 DEF NextAtBarrier, IInv, JobsFit
  <2>2. Leaves(b)
    <3>1. barrier' = [todo |-> barrier.todo, at |-> NoBatch, nap |-> FALSE, tries |-> 0]
      BY <1>4 DEF NextAtBarrier, NoBarrier
    <3>2. barrier' \in Barrier
      BY <1>2, <3>1 DEF Barrier
    <3> QED
      BY <1>2, <1>4, <2>1, <3>1, <3>2 DEF Leaves, Saved
  <2>3. Ends(b)
    BY <1>4, <2>1, SettleEnds, GiveUpEnds
  <2> QED
    BY <2>1, <2>2, <2>3, EndsStep
<1> QED
  BY <1>3, <1>4 DEF Settle, Undelivered, BarrierSettles, BarrierGivesUp, AtBarrier

-----------------------------------------------------------------------------
(* Steps that take saved words up again                                     *)

(* Cards that wait for a Retry of their saved words work again; the batch,  *)
(* claimed if it has any, is no longer given up.                            *)
LEMMA RedeliveringFacts ==
  ASSUME IInv, NEW b \in DOMAIN batch, Redelivering(b), UNCHANGED <<log, ledger, seen>>,
         batch[b].st = "claimed" \/ FailedBodies(b) = {}
  PROVE  /\ CardsTyped' /\ BatchesTyped'
         /\ OneQueuedPerThread' /\ MembersApart' /\ WorkingIsClaimed' /\ ClaimsApart'
         /\ FailedBodies(b)' = {}
         /\ \A x \in DOMAIN batch \ {b} : FailedBodies(x)' \subseteq FailedBodies(x)
         /\ DOMAIN batch' = DOMAIN batch /\ ~batch'[b].undelivered
         /\ \A x \in DOMAIN batch : /\ batch'[x].saved = batch[x].saved
                                    /\ batch'[x].st = batch[x].st
                                    /\ (x # b => batch'[x].undelivered = batch[x].undelivered)
<1>1. /\ batch[b] \in BatchRec(batch[b].members) /\ batch[b].members \subseteq DOMAIN card
      /\ \A c \in DOMAIN card : card[c] \in CardRec
  BY DEF IInv, TypeOK, BatchesTyped, CardsTyped
<1>2. /\ DOMAIN batch' = DOMAIN batch
      /\ \A x \in DOMAIN batch \ {b} : batch'[x] = batch[x]
      /\ batch'[b] = [batch[b] EXCEPT !.undelivered = FALSE]
  BY DEF Redelivering
<1>3. /\ batch'[b] \in BatchRec(batch[b].members)
      /\ batch'[b].members = batch[b].members /\ batch'[b].results = batch[b].results
      /\ batch'[b].frames = batch[b].frames /\ batch'[b].exclusive = batch[b].exclusive
      /\ batch'[b].saved = batch[b].saved /\ batch'[b].st = batch[b].st
      /\ ~batch'[b].undelivered
  BY <1>1, <1>2 DEF BatchRec
<1>4. /\ DOMAIN card' = DOMAIN card
      /\ \A c \in DOMAIN card : c \notin FailedBodies(b) => card'[c] = card[c]
      /\ \A c \in FailedBodies(b) : c \in DOMAIN card /\ card'[c] = End(c, "working", "")
  BY <1>1 DEF Redelivering, FailedBodies, Bodies
<1>5. ASSUME NEW c \in FailedBodies(b)
      PROVE  /\ card'[c] \in CardRec /\ card'[c].thread = card[c].thread
             /\ card'[c].st = "working" /\ card'[c].batch = b /\ card[c].batch = b
             /\ c \in batch[b].members /\ c \in DOMAIN card
  <2>1. c \in DOMAIN card /\ card[c].batch = b /\ c \in batch[b].members
    BY <1>4 DEF FailedBodies, Bodies
  <2>2. card'[c] = [card[c] EXCEPT !.st = "working", !.note = ""]
    BY <1>4 DEF End
  <2>3. card[c] \in CardRec
    BY <1>1, <2>1
  <2> QED
    BY <2>1, <2>2, <2>3 DEF CardRec, CardState, Note
<1>6. CardsTyped'
  BY <1>1, <1>4, <1>5 DEF IInv, TypeOK, CardsTyped, Id
<1>7. BatchesTyped'
  BY <1>2, <1>3, <1>4 DEF IInv, TypeOK, BatchesTyped
<1>8. \A c \in DOMAIN card : card'[c].thread = card[c].thread
  BY <1>4, <1>5
<1>9. OneQueuedPerThread'
  <2>1. \A c \in DOMAIN card : card'[c].st = "queued" => card'[c] = card[c]
    BY <1>4, <1>5
  <2> QED
    BY <1>4, <2>1 DEF IInv, OneQueuedPerThread, Is
<1>10. MembersApart'
  <2>1. ASSUME NEW x \in DOMAIN batch
        PROVE  batch'[x].members = batch[x].members /\ batch[x].members \subseteq DOMAIN card
    BY <1>2, <1>3 DEF IInv, TypeOK, BatchesTyped
  <2> QED
    BY <1>2, <1>8, <2>1 DEF IInv, MembersApart
<1>11. WorkingIsClaimed'
  <2>1. ASSUME NEW c \in Is("working")'
        PROVE  /\ card'[c].batch \in DOMAIN batch'
               /\ batch'[card'[c].batch].st = "claimed"
               /\ ~batch'[card'[c].batch].undelivered
               /\ c \in batch'[card'[c].batch].members
    <3>1. CASE c \in FailedBodies(b)
      BY <1>2, <1>3, <1>5, <3>1
    <3>2. CASE c \notin FailedBodies(b)
      <4>1. c \in Is("working") /\ card'[c] = card[c]
        BY <1>4, <2>1, <3>2 DEF Is
      <4>2. /\ card[c].batch \in DOMAIN batch
            /\ batch[card[c].batch].st = "claimed"
            /\ ~batch[card[c].batch].undelivered
            /\ c \in batch[card[c].batch].members
        BY <4>1 DEF IInv, WorkingIsClaimed
      <4> QED
        BY <1>2, <1>3, <4>1, <4>2
    <3> QED
      BY <3>1, <3>2
  <2> QED
    BY <2>1 DEF WorkingIsClaimed
<1>12. ClaimsApart'
  <2>1. Unsaved' = Unsaved
    BY <1>2, <1>3 DEF Unsaved, Saved
  <2>2. \A x \in Unsaved : batch'[x].frames = batch[x].frames /\ batch'[x].exclusive = batch[x].exclusive
    BY <1>2, <1>3 DEF Unsaved
  <2> QED
    BY <2>1, <2>2 DEF IInv, ClaimsApart
<1>13. FailedBodies(b)' = {}
  <2>1. Bodies(b)' = Bodies(b)
    BY <1>3 DEF Bodies
  <2>2. ASSUME NEW c \in Bodies(b), card'[c].st = "failed", card'[c].batch = b PROVE FALSE
    <3>1. c \notin FailedBodies(b) /\ c \in DOMAIN card
      BY <1>1, <1>5, <2>2 DEF Bodies
    <3> QED
      BY <1>4, <2>2, <3>1 DEF FailedBodies
  <2> QED
    BY <2>1, <2>2 DEF FailedBodies
<1>14. ASSUME NEW x \in DOMAIN batch \ {b} PROVE FailedBodies(x)' \subseteq FailedBodies(x)
  <2>1. batch[x].members \subseteq DOMAIN card /\ batch'[x] = batch[x]
    BY <1>2 DEF IInv, TypeOK, BatchesTyped
  <2> QED
    BY <1>4, <1>5, <2>1 DEF FailedBodies, Bodies
<1>15. \A x \in DOMAIN batch : /\ batch'[x].saved = batch[x].saved
                               /\ batch'[x].st = batch[x].st
                               /\ (x # b => batch'[x].undelivered = batch[x].undelivered)
  BY <1>2, <1>3
<1> QED
  BY <1>2, <1>3, <1>6, <1>7, <1>9, <1>10, <1>11, <1>12, <1>13, <1>14, <1>15

(* Retry of saved words (daemon.ts:1716-1724) makes a claimed, given up    *)
(* batch deliver again.                                                    *)
LEMMA RetryDeliveryStep ==
  ASSUME IInv, NEW c \in DOMAIN card, RetryDelivery(c)
  PROVE  IInv'
<1>1. PICK b \in DOMAIN batch :
      /\ batch[b].st = "claimed" /\ batch[b].undelivered
      /\ Redelivering(b) /\ boot # "down"
      /\ phase' = [phase EXCEPT ![b] = "retry"] /\ tries' = [tries EXCEPT ![b] = 1]
      /\ UNCHANGED <<log, ledger, seen, said, boot, barrier, crashes>>
  BY DEF RetryDelivery, SavedReply, PageMayAct
<1>2. /\ b \in Batch /\ DOMAIN batch \subseteq Batch /\ batch[b].saved
      /\ phase \in [Batch -> Phase] /\ tries \in [Batch -> Nat]
  BY <1>1 DEF IInv, TypeOK, BatchesTyped, JobsFit, Saved
<1>3. /\ phase' \in [Batch -> Phase] /\ tries' \in [Batch -> Nat] /\ phase'[b] = "retry"
      /\ \A x \in Batch \ {b} : phase'[x] = phase[x]
  BY <1>1, <1>2 DEF Phase
<1>4. /\ CardsTyped' /\ BatchesTyped'
      /\ OneQueuedPerThread' /\ MembersApart' /\ WorkingIsClaimed' /\ ClaimsApart'
      /\ FailedBodies(b)' = {}
      /\ \A x \in DOMAIN batch \ {b} : FailedBodies(x)' \subseteq FailedBodies(x)
      /\ DOMAIN batch' = DOMAIN batch /\ ~batch'[b].undelivered
      /\ \A x \in DOMAIN batch : /\ batch'[x].saved = batch[x].saved
                                 /\ batch'[x].st = batch[x].st
                                 /\ (x # b => batch'[x].undelivered = batch[x].undelivered)
  BY <1>1, RedeliveringFacts
<1>5. TypeOK'
  BY <1>1, <1>3, <1>4 DEF IInv, TypeOK, Id
<1>6. JobsFit'
  <2>1. /\ {x \in Batch : phase'[x] # "off"} \cup barrier'.todo \subseteq DOMAIN batch'
        /\ barrier'.at \in (DOMAIN batch' \ barrier'.todo) \cup {NoBatch}
    BY <1>1, <1>2, <1>3, <1>4 DEF IInv, JobsFit
  <2> QED
    BY <1>1, <1>2, <1>3, <1>4, <2>1 DEF IInv, JobsFit, Saved
<1>7. TodoFits'
  <2>1. barrier.todo \subseteq DOMAIN batch
    BY DEF IInv, JobsFit
  <2> QED
    BY <1>1, <1>2, <1>3, <1>4, <2>1 DEF IInv, TodoFits
<1>8. ClaimedIsRunning'
  <2>1. \A x \in DOMAIN batch : x = b \/ x \in Running => x \in Running'
    BY <1>1, <1>2, <1>3 DEF Running
  <2> QED
    BY <1>1, <1>4, <2>1 DEF IInv, ClaimedIsRunning
<1> QED
  BY <1>4, <1>5, <1>6, <1>7, <1>8 DEF IInv

(* The barrier takes up the next batch it has to deliver                   *)
(* (daemon.ts:1354-1363).                                                  *)
LEMMA ReconcileStep ==
  ASSUME IInv, NEW b \in DOMAIN batch, Reconcile(b)
  PROVE  IInv'
<1>1. /\ b \in barrier.todo /\ barrier.at = NoBatch /\ Redelivering(b)
      /\ barrier' = [todo |-> barrier.todo \ {b}, at |-> b, nap |-> FALSE, tries |-> 1]
      /\ UNCHANGED <<log, ledger, seen, phase, tries, said, boot, crashes>>
  BY DEF Reconcile
<1>2. /\ b \in Batch /\ DOMAIN batch \subseteq Batch /\ batch[b].saved
      /\ barrier.todo \subseteq DOMAIN batch /\ barrier \in Barrier
  BY <1>1 DEF IInv, TypeOK, BatchesTyped, JobsFit, Saved
<1>3. batch[b].st = "claimed" \/ FailedBodies(b) = {}
  BY <1>1 DEF IInv, TodoFits
<1>4. /\ CardsTyped' /\ BatchesTyped'
      /\ OneQueuedPerThread' /\ MembersApart' /\ WorkingIsClaimed' /\ ClaimsApart'
      /\ \A x \in DOMAIN batch \ {b} : FailedBodies(x)' \subseteq FailedBodies(x)
      /\ DOMAIN batch' = DOMAIN batch /\ ~batch'[b].undelivered
      /\ \A x \in DOMAIN batch : /\ batch'[x].saved = batch[x].saved
                                 /\ batch'[x].st = batch[x].st
                                 /\ (x # b => batch'[x].undelivered = batch[x].undelivered)
  BY <1>1, <1>3, RedeliveringFacts
<1>5. barrier' \in Barrier
  <2>1. barrier.todo \ {b} \subseteq Batch /\ 1 \in 0..MaxTries
    BY <1>2, LimitAssumption
  <2> QED
    BY <1>1, <1>2, <2>1 DEF Barrier
<1>6. TypeOK'
  BY <1>1, <1>4, <1>5 DEF IInv, TypeOK, Id
<1>7. JobsFit'
  <2>1. /\ {x \in Batch : phase'[x] # "off"} \cup barrier'.todo \subseteq DOMAIN batch'
        /\ barrier'.at \in (DOMAIN batch' \ barrier'.todo) \cup {NoBatch}
    BY <1>1, <1>2, <1>4 DEF IInv, JobsFit
  <2> QED
    BY <1>1, <1>2, <1>4, <2>1 DEF IInv, JobsFit, Saved
<1>8. TodoFits'
  BY <1>1, <1>2, <1>4 DEF IInv, TodoFits
<1>9. ClaimedIsRunning'
  <2>1. \A x \in DOMAIN batch : x \in Running => x \in Running'
    BY <1>1, <1>2, NoBatchAssumption DEF Running
  <2>2. b \in Running
    BY <1>1, <1>2 DEF Running
  <2> QED
    BY <1>1, <1>4, <2>1, <2>2 DEF IInv, ClaimedIsRunning
<1> QED
  BY <1>4, <1>6, <1>7, <1>8, <1>9 DEF IInv

-----------------------------------------------------------------------------
(* The theorems                                                             *)

(* The invariant holds of an empty journal and a stopped process.          *)
LEMMA Initially ==
  Init => IInv
<1> SUFFICES ASSUME Init PROVE IInv
  OBVIOUS
<1>1. TypeOK
  <2>1. barrier \in Barrier
    BY LimitAssumption DEF Init, NoBarrier, Barrier
  <2>2. log \in Seq(Entry) /\ DOMAIN card = {} /\ DOMAIN batch = {}
    BY DEF Init
  <2> QED
    BY <2>1, <2>2 DEF Init, TypeOK, CardsTyped, BatchesTyped, Phase, Boot, Id, Line, NoLine
<1>2. DOMAIN card = {} /\ DOMAIN batch = {} /\ barrier.todo = {} /\ barrier.at = NoBatch
  BY DEF Init, NoBarrier
<1>3. JobsFit
  BY <1>2 DEF Init, JobsFit
<1> QED
  BY <1>1, <1>2, <1>3 DEF Init, IInv, OneQueuedPerThread, MembersApart, WorkingIsClaimed,
     TodoFits, ClaimedIsRunning, ClaimsApart, Is, Unsaved

(* Every step of Next, and a stutter, keeps the invariant.                 *)
LEMMA Inductive ==
  IInv /\ [Next]_vars => IInv'
<1> SUFFICES ASSUME IInv, [Next]_vars PROVE IInv'
  OBVIOUS
<1>1. CASE Owner
  <2>1. ASSUME NEW c \in DOMAIN card, Drop(c) \/ Retry(c) \/ RetryDelivery(c) PROVE IInv'
    BY <2>1, DropStep, RetryStep, RetryDeliveryStep
  <2> QED
    BY <1>1, <2>1, OwnerWrites DEF Owner
<1>2. CASE Ingest \/ FormAlone \/ FormOnFrames
  BY <1>2, IngestStep, PumpStep
<1>3. CASE \E b \in DOMAIN batch : Work(b)
  <2>1. PICK b \in DOMAIN batch : Work(b)
    BY <1>3
  <2>2. CASE Replies(b)
    BY <2>2, PostStep
  <2>3. CASE Job(b)
    BY <2>3, LaunchStep, AgentSteps, FailStep, DeliveryEnds, DeliveryWaits DEF Job
  <2>4. CASE AtStart(b)
    BY <2>4, ReconcileStep, DeliveryEnds, BarrierWaits DEF AtStart
  <2> QED
    BY <2>1, <2>2, <2>3, <2>4 DEF Work
<1>4. CASE Crash \/ Recover \/ Ready
  BY <1>4, CrashStep, RecoverStep, ReadyStep
<1>5. CASE UNCHANGED vars
  <2>1. UNCHANGED <<log, ledger, journal, process, crashes>>
    BY <1>5 DEF vars, journal, process
  <2>2. log' \in Seq(Entry) /\ Id \subseteq Id' /\ ledger' \subseteq Id'
    BY <2>1 DEF IInv, TypeOK, Id
  <2> QED
    BY <2>1, <2>2, LogStep DEF process, IInv, TypeOK
<1> QED
  BY <1>1, <1>2, <1>3, <1>4, <1>5 DEF Next

(* The inductive invariant holds in every behaviour, for all threads,      *)
(* frames, batches and limits: the claims a restart finds, the jobs and    *)
(* the barrier of the daemon always fit the journal.                       *)
THEOREM InvariantHolds ==
  Spec => []IInv
  BY Initially, Inductive, PTL DEF Spec

(* Every variable keeps its type: in particular a batch's members stay      *)
(* cards of the journal and its results answer exactly its members.         *)
THEOREM TypesHold ==
  Spec => []TypeOK
<1>1. IInv => TypeOK
  BY DEF IInv
<1> QED
  BY <1>1, InvariantHolds, PTL

(* queue.ts:5-6: whatever merges, requeues and new tags meet on a thread,   *)
(* it never has two queued cards.                                           *)
THEOREM OneQueuedHolds ==
  Spec => []OneQueuedPerThread
<1>1. IInv => OneQueuedPerThread
  BY DEF IInv
<1> QED
  BY <1>1, InvariantHolds, PTL

(* A working card is always held by one claimed batch it is a member of,    *)
(* through stops, failed deliveries and their retries.                      *)
THEOREM WorkingHolds ==
  Spec => []WorkingIsClaimed
<1>1. IInv => WorkingIsClaimed
  BY DEF IInv
<1> QED
  BY <1>1, InvariantHolds, PTL

(* Once the daemon is up, no claimed batch is forgotten by the process.     *)
THEOREM ClaimedHolds ==
  Spec => []ClaimedIsRunning
<1>1. IInv => ClaimedIsRunning
  BY DEF IInv
<1> QED
  BY <1>1, InvariantHolds, PTL

(* Two agents never edit one frame, and none works beside an exclusive one. *)
THEOREM FramesApartHolds ==
  Spec => []FramesApart
<1>1. IInv => FramesApart
  <2>1. ASSUME IInv PROVE Spawned \subseteq Unsaved
    BY <2>1 DEF IInv, JobsFit, Spawned, Unsaved
  <2> QED
    BY <2>1 DEF IInv, ClaimsApart, FramesApart
<1> QED
  BY <1>1, InvariantHolds, PTL

=============================================================================
