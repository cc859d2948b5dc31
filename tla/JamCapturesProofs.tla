-------------------------- MODULE JamCapturesProofs --------------------------
(* What holds of captures and the record of a session for any number of    *)
(* captures, pages, stops of the server and events: the types, that what   *)
(* was sent is bound to its comment and its words, that a run is decided   *)
(* once, and what the record holds and waits for.                          *)
EXTENDS JamCaptures, TLAPS

-----------------------------------------------------------------------------
(* The inductive invariant *)

CardRec == [st : States, rev : Nat, words : Nat, pend : {"no", "queued", "kept", "more"},
            asks : SUBSET (Cap \X {"more"} \X Nat), ses : BOOLEAN, run : Nat]
AboutRec == [resumes : Cap \cup {None}, reviews : Cap \cup {None}, rev : Nat, run : Nat]
Uploads == [Cap -> [Gen -> {"no", "way", "pin", "in"}]]

Types ==
  /\ page \in [Cap -> {"no", "recording", "kept", "left", "landed", "gone"}] /\ gen \in [Cap -> Gen]
  /\ marked \in [Cap -> BOOLEAN] /\ auto \in [Cap -> BOOLEAN] /\ about \in [Cap -> AboutRec]
  /\ told \subseteq Cap /\ held \subseteq Cap /\ open \subseteq Cap /\ heard \subseteq Cap
  /\ up \in Uploads
  /\ server \in BOOLEAN /\ session \in BOOLEAN /\ stored \subseteq Cap
  /\ events \in 0..MaxEvents /\ stops \in 0..MaxStops
  /\ card \in [Cap -> CardRec] /\ seen \in [Cap -> Nat] /\ verdicts \in [Cap -> Nat]
  /\ wrap \in [sealed : BOOLEAN, caps : SUBSET Cap]

\* The card of c: a step in progress is on a card in its state, decided with it; an edit
\* comes before it is confirmed; what is sent is bound.
CardOK(c) ==
  /\ card[c].st = "none" => card[c] = NoCard
  /\ Has(c) => card[c].rev > 0 /\ c \in stored
  /\ card[c].words <= card[c].rev
  /\ card[c].st = "confirming" <=> card[c].pend \in {"queued", "kept"}
  /\ card[c].pend = "more" => card[c].st = "review" /\ verdicts[c] = 1
  /\ card[c].st = "review" /\ card[c].pend = "no" => verdicts[c] = 0
  /\ verdicts[c] <= 1
  /\ card[c].st \in {"draft", "confirming"} => card[c].asks = {}
  /\ Sent(c) => Valid(c) /\ Comment(c) \in log \cap ledger
  /\ card[c].st \in {"none", "draft"} => seen[c] = 0
  /\ seen[c] > 0 => card[c].words <= seen[c]

\* A capture that follows a review saw it with no step in progress: a step since made a
\* new revision of it.
Follows(c) ==
  \A d \in Cap : about[c].reviews = d =>
    /\ about[c].rev <= card[d].rev
    /\ about[c].rev = card[d].rev /\ card[d].st = "review" => card[d].pend = "no"

\* The page of c and what the server has of it.
PageOK(c) ==
  /\ page[c] \in {"no", "recording"} => ~Has(c) /\ \A g \in Gen : up[c][g] = "no"
  /\ c \in held => Live(c)
  /\ (\E g \in Gen : up[c][g] \in {"pin", "in"}) => server /\ c \in stored
  /\ page[c] = "landed" => Has(c) /\ (marked[c] => c \in told \/ card[c].ses)
  /\ c \in told => IF Has(c) THEN ~card[c].ses ELSE ~session
  /\ c \in heard => c \in open \/ Has(c) \/ page[c] = "gone"

\* What was ended with E is confirmed as it lands; only a crash leaves it in between,
\* until the server runs again.
AutoOK(c) ==
  auto[c] =>
    /\ \A g \in Gen : up[c][g] = "in" => Has(c)
    /\ card[c].st # "draft"
    /\ server => card[c].st # "confirming"

\* The record is made once, of the session's captures.
WrapOK ==
  /\ wrap.sealed => ~session
  /\ ~wrap.sealed => wrap.caps = {}
  /\ \A c \in Cap :
       /\ c \in wrap.caps => card[c].ses
       /\ wrap.sealed /\ auto[c] /\ card[c].ses => c \in wrap.caps \/ card[c].st = "dropped"

IInv ==
  /\ Types /\ WrapOK
  /\ \A c \in Cap : CardOK(c) /\ Follows(c) /\ PageOK(c) /\ AutoOK(c)

-----------------------------------------------------------------------------
\* The record of a capture the server never heard of is a card's record.
LEMMA NoCardTyped == NoCard \in CardRec /\ NoCard.st = "none" /\ NoCard.ses = FALSE
  BY DEF NoCard, CardRec, States

\* Before the first capture nothing is recorded, carried or said.
LEMMA Initially == Init => IInv
<1> SUFFICES ASSUME Init PROVE IInv
  OBVIOUS
<1> USE DEF Init, Has
<1>1. Types
  BY NoCardTyped, BoundAssumption DEF Types, Gen, Uploads, Nothing, AboutRec, NoRecord
<1>2. \A c \in Cap : CardOK(c)
  BY NoCardTyped DEF CardOK, NoCard, Sent
<1>3. \A c \in Cap : Follows(c) /\ PageOK(c) /\ AutoOK(c)
  BY NoneAssumption DEF Follows, PageOK, AutoOK, Nothing
<1>4. WrapOK
  BY NoCardTyped DEF WrapOK, NoRecord
<1> QED
  BY <1>1, <1>2, <1>3, <1>4 DEF IInv

-----------------------------------------------------------------------------
(* Steps that leave the cards alone *)

\* What a card's bounds rest on is only ever added to.
LEMMA CardStands ==
  ASSUME NEW c \in Cap, CardOK(c), card'[c] = card[c], verdicts'[c] = verdicts[c],
         seen'[c] = seen[c], stored \subseteq stored', log \subseteq log', ledger \subseteq ledger'
  PROVE  CardOK(c)'
  BY DEF CardOK, Has, Sent, Valid, Words, Comment

\* A page that leaves may send what it has; of the others, and of the server, nothing changes.
LEMMA LeavesDoes ==
  ASSUME Types, NEW c \in Cap, Leaves(c)
  PROVE  /\ Live(c) /\ page' = [page EXCEPT ![c] = "left"] /\ held' = held \ {c} /\ Event
         /\ UNCHANGED <<gen, marked, auto, about, told, memory, disk>>
         /\ up' \in Uploads /\ \A d \in Cap \ {c} : up'[d] = up[d]
         /\ \A g \in Gen : up'[c][g] \in {up[c][g], "way"}
<1>1. /\ Live(c) /\ page' = [page EXCEPT ![c] = "left"] /\ held' = held \ {c} /\ Event
      /\ UNCHANGED <<gen, marked, auto, about, told, memory, disk>>
      /\ up' = up \/ up' = [up EXCEPT ![c][gen[c]] = "way"]
  BY Zenon DEF Leaves
<1>2. CASE up' = up
  BY <1>1, <1>2 DEF Types, Uploads
<1>3. CASE up' = [up EXCEPT ![c][gen[c]] = "way"]
  <2>1. up' \in Uploads /\ \A d \in Cap \ {c} : up'[d] = up[d]
    BY <1>3 DEF Types, Uploads
  <2>2. \A g \in Gen : up'[c][g] \in {up[c][g], "way"}
    BY <1>3 DEF Types, Uploads
  <2> QED
    BY <1>1, <2>1, <2>2
<1> QED
  BY <1>1, <1>2, <1>3

\* A capture begins on a page that has none, and holds its words from then on.
LEMMA BeginsDoes ==
  ASSUME NEW c \in Cap, Begins(c)
  PROVE  /\ page[c] = "no" /\ page' = [page EXCEPT ![c] = "recording"]
         /\ marked' = [marked EXCEPT ![c] = TRUE] /\ held' = held \cup {c}
         /\ UNCHANGED <<gen, auto, told, up, memory, disk>> /\ Calm
  BY Zenon DEF Begins

\* A page's own step: nothing on disk moves, and a card it has is not touched.
LEMMA TabTypes == ASSUME Types, NEW c \in Cap, Tab(c) \/ Expires(c) PROVE Types'
<1> USE DEF Types, pages, memory, disk, Calm, Event
<1>1. CASE Begins(c)
  <2>1. ASSUME NEW d \in Cap PROVE [about[d] EXCEPT !.resumes = d] \in AboutRec
    <3>1. about[d] \in AboutRec
      OBVIOUS
    <3> QED
      BY <3>1 DEF AboutRec
  <2>2. ASSUME NEW d \in Cap
        PROVE  [Nothing EXCEPT !.reviews = d, !.rev = card[d].rev, !.run = card[d].run] \in AboutRec
    <3>1. card[d].rev \in Nat /\ card[d].run \in Nat
      BY DEF CardRec
    <3> QED
      BY <3>1 DEF AboutRec, Nothing
  <2>3. about' = about \/ \E a \in AboutRec : about' = [about EXCEPT ![c] = a]
    <3>1. CASE about' = about
      BY <3>1
    <3>2. CASE \E d \in Cap : about' = [about EXCEPT ![c] = [about[d] EXCEPT !.resumes = d]]
      BY <2>1, <3>2
    <3>3. CASE \E d \in Cap : about' = [about EXCEPT ![c] =
                 [Nothing EXCEPT !.reviews = d, !.rev = card[d].rev, !.run = card[d].run]]
      BY <2>2, <3>3
    <3> QED
      BY <1>1, <3>1, <3>2, <3>3, Zenon DEF Begins
  <2>4. about' \in [Cap -> AboutRec]
    BY <2>3
  <2>5. /\ page' = [page EXCEPT ![c] = "recording"] /\ held' = held \cup {c}
        /\ UNCHANGED <<gen, auto, told, up, memory, disk>> /\ Calm
    BY <1>1, BeginsDoes
  <2>6. marked' \in [Cap -> BOOLEAN]
    BY <1>1, BeginsDoes
  <2> QED
    BY <2>4, <2>5, <2>6
<1>2. CASE Ends(c)
  <2>1. up' \in Uploads
    BY <1>2 DEF Ends, Uploads
  <2> QED
    BY <1>2, <2>1 DEF Ends
<1>3. CASE Drops(c)
  <2>1. open' \subseteq Cap
    BY <1>3 DEF Drops
  <2> QED
    BY <1>3, <2>1, BoundAssumption DEF Drops
<1>4. CASE Leaves(c)
  BY <1>4, LeavesDoes, BoundAssumption
<1>5. CASE PageCrashes(c)
  BY <1>5, BoundAssumption DEF PageCrashes
<1>6. CASE Opens(c)
  <2>1. up' \in Uploads
    BY <1>6 DEF Opens, Uploads, Gen
  <2> QED
    BY <1>6, <2>1, BoundAssumption DEF Opens, Gen
<1>7. CASE Posts(c)
  BY <1>7 DEF Posts, Uploads
<1>8. CASE Registers(c)
  <2>1. marked' \in [Cap -> BOOLEAN]
    BY <1>8 DEF Registers, LeftOut
  <2>2. told' \subseteq Cap /\ held' \subseteq Cap /\ open' \subseteq Cap /\ heard' \subseteq Cap
    BY <1>8 DEF Registers, LeftOut
  <2> QED
    BY <1>8, <2>1, <2>2 DEF Registers
<1>9. CASE Expires(c)
  BY <1>9 DEF Expires
<1> QED
  BY <1>1, <1>2, <1>3, <1>4, <1>5, <1>6, <1>7, <1>8, <1>9 DEF Tab

\* What a page does by itself - record, stop, upload, leave, expire - keeps the invariant.
LEMMA TabKeeps ==
  ASSUME IInv, NEW c \in Cap, Tab(c) \/ Expires(c)
  PROVE  IInv'
<1> USE DEF IInv, pages, memory, disk, Calm, Event, Live, Gen
<1>1. UNCHANGED <<session, stored, card, log, ledger, wrap, seen, verdicts, server>>
  BY DEF Tab, Begins, Ends, Drops, Leaves, PageCrashes, Opens, Posts, Registers, Expires
<1>2. \A d \in Cap : CardOK(d)'
  BY <1>1, CardStands
<1>3. ASSUME NEW d \in Cap \ {c}
      PROVE  /\ UNCHANGED <<page[d], marked[d], auto[d], about[d], up[d]>>
             /\ (d \in told <=> d \in told') /\ (d \in held <=> d \in held')
             /\ (d \in open <=> d \in open') /\ (d \in heard <=> d \in heard')
  <2>1. CASE Begins(c)
    BY <2>1 DEF Types, Begins
  <2>2. CASE Ends(c)
    BY <2>2 DEF Types, Ends
  <2>3. CASE Drops(c)
    BY <2>3 DEF Types, Drops
  <2>4. CASE Leaves(c)
    BY <2>4, LeavesDoes DEF Types
  <2>5. CASE PageCrashes(c)
    BY <2>5 DEF Types, PageCrashes
  <2>6. CASE Opens(c)
    BY <2>6 DEF Types, Opens
  <2>7. CASE Posts(c)
    BY <2>7 DEF Types, Posts
  <2>8. CASE Registers(c)
    BY <2>8 DEF Types, Registers, LeftOut
  <2>9. CASE Expires(c)
    BY <2>9 DEF Types, Expires
  <2> QED
    BY <2>1, <2>2, <2>3, <2>4, <2>5, <2>6, <2>7, <2>8, <2>9 DEF Tab
<1>4. \A d \in Cap \ {c} : Follows(d)' /\ PageOK(d)' /\ AutoOK(d)'
  BY <1>1, <1>3 DEF Follows, PageOK, AutoOK, Has
<1>5. Follows(c)'
  <2>1. CASE UNCHANGED about
    BY <1>1, <2>1 DEF Follows
  <2>2. CASE about' # about
    <3>1. PICK d \in Cap :
            \/ about' = [about EXCEPT ![c] = [about[d] EXCEPT !.resumes = d]]
            \/ /\ card[d].pend = "no"
               /\ about' = [about EXCEPT ![c] =
                     [Nothing EXCEPT !.reviews = d, !.rev = card[d].rev, !.run = card[d].run]]
      <4>1. Begins(c)
        BY <2>2 DEF Tab, Ends, Drops, Leaves, PageCrashes, Opens, Posts, Registers, Expires
      <4> QED
        BY <2>2, <4>1, Zenon DEF Begins
    <3>2. about[d] \in AboutRec /\ card[d] \in CardRec /\ Follows(d)
      BY DEF Types
    <3>3. CASE about' = [about EXCEPT ![c] = [about[d] EXCEPT !.resumes = d]]
      <4>1. about'[c].reviews = about[d].reviews /\ about'[c].rev = about[d].rev
        BY <3>2, <3>3 DEF Types, AboutRec
      <4> QED
        BY <1>1, <3>2, <4>1 DEF Follows
    <3>4. CASE about' # [about EXCEPT ![c] = [about[d] EXCEPT !.resumes = d]]
      <4> DEFINE f == [Nothing EXCEPT !.reviews = d, !.rev = card[d].rev, !.run = card[d].run]
      <4>3. about' = [about EXCEPT ![c] = f] /\ card[d].pend = "no"
        BY <3>1, <3>4, Zenon
      <4>4. f.reviews = d /\ f.rev = card[d].rev
        BY DEF Nothing
      <4>1. about'[c].reviews = d /\ about'[c].rev = card[d].rev /\ card[d].pend = "no"
        <5> HIDE DEF f
        <5> QED
          BY <4>3, <4>4 DEF Types
      <4>2. card[d].rev \in Nat
        BY <3>2 DEF CardRec
      <4> QED
        BY <1>1, <4>1, <4>2 DEF Follows
    <3> QED
      BY <3>3, <3>4
  <2> QED
    BY <2>1, <2>2
<1>6. PageOK(c)' /\ AutoOK(c)' /\ (auto'[c] # auto[c] => ~Has(c))
  <2>1. PageOK(c) /\ AutoOK(c) /\ Has(c)' = Has(c)
    BY <1>1 DEF Has
  <2>2. CASE Begins(c)
    BY <1>1, <2>1, <2>2, BeginsDoes DEF Types, Uploads, PageOK, AutoOK
  <2>3. CASE Ends(c)
    <3>1. /\ page[c] = "recording" /\ page' = [page EXCEPT ![c] = "kept"]
          /\ UNCHANGED <<marked, told, held, open, heard>>
          /\ up' = [up EXCEPT ![c][gen[c]] = "way"]
      BY <2>3 DEF Ends
    <3>2. ~Has(c) /\ card[c].st = "none" /\ \A g \in Gen : up'[c][g] \in {"no", "way"}
      BY <2>1, <3>1, NoCardTyped DEF PageOK, Has, Types, Uploads
    <3> QED
      BY <1>1, <2>1, <3>1, <3>2 DEF Types, PageOK, AutoOK
  <2>4. CASE Drops(c)
    BY <1>1, <2>1, <2>4 DEF Types, Uploads, Drops, PageOK, AutoOK
  <2>5. CASE Leaves(c)
    BY <1>1, <2>1, <2>5, LeavesDoes DEF Types, Uploads, PageOK, AutoOK
  <2>6. CASE PageCrashes(c)
    BY <1>1, <2>1, <2>6 DEF Types, Uploads, PageCrashes, PageOK, AutoOK
  <2>7. CASE Opens(c)
    BY <1>1, <2>1, <2>7 DEF Types, Uploads, Opens, PageOK, AutoOK
  <2>8. CASE Posts(c)
    BY <1>1, <2>1, <2>8 DEF Types, Uploads, Posts, PageOK, AutoOK
  <2>9. CASE Registers(c)
    BY <1>1, <2>1, <2>9 DEF Types, Uploads, Registers, LeftOut, PageOK, AutoOK
  <2>10. CASE Expires(c)
    BY <1>1, <2>1, <2>10 DEF Types, Uploads, Expires, PageOK, AutoOK
  <2> QED
    BY <2>2, <2>3, <2>4, <2>5, <2>6, <2>7, <2>8, <2>9, <2>10 DEF Tab
<1>7. WrapOK'
  BY <1>1, <1>3, <1>6, NoCardTyped DEF WrapOK, Has
<1> QED
  BY <1>2, <1>4, <1>5, <1>6, <1>7, TabTypes

-----------------------------------------------------------------------------
(* Steps of a card *)

\* A card that changes has a new revision, so who follows a review sees that.
LEMMA FollowsStand ==
  ASSUME Types, \A c \in Cap : Follows(c), UNCHANGED about, card' \in [Cap -> CardRec],
         \A d \in Cap : card'[d] = card[d] \/ card'[d].rev > card[d].rev
  PROVE  \A c \in Cap : Follows(c)'
<1> SUFFICES ASSUME NEW c \in Cap, NEW d \in Cap, about[c].reviews = d
             PROVE  /\ about[c].rev <= card'[d].rev
                    /\ about[c].rev = card'[d].rev /\ card'[d].st = "review" => card'[d].pend = "no"
  BY DEF Follows
<1>1. card[d] \in CardRec /\ card'[d] \in CardRec /\ about[c] \in AboutRec
  BY DEF Types
<1>2. card[d].rev \in Nat /\ card'[d].rev \in Nat /\ about[c].rev \in Nat
  BY <1>1 DEF CardRec, AboutRec
<1> QED
  BY <1>2 DEF Follows

\* What a card may not do: leave its session, or come back when it was dropped.
Kept(d) ==
  /\ Has(d) => Has(d)' /\ card'[d].ses = card[d].ses
  /\ card[d].st = "dropped" => card'[d].st = "dropped"
  /\ ~Has(d) /\ ~session => ~card'[d].ses

\* The session's wrap-up stands where nothing it counts moved.
LEMMA WrapStands ==
  ASSUME Types, WrapOK, UNCHANGED <<wrap, session, auto>>, \A d \in Cap : Kept(d)
  PROVE  WrapOK'
<1>1. \A d \in Cap : ~Has(d) => ~card[d].ses
  BY NoCardTyped DEF Has
<1> QED
  BY <1>1 DEF WrapOK, Kept, Types

\* Steps that change cards the server has, and nothing of the pages or the record.
Moves(d) ==
  \/ card'[d] = card[d]
  \/ /\ Has(d) /\ Has(d)' /\ card'[d].rev > card[d].rev /\ card'[d].ses = card[d].ses
     /\ card[d].st = "dropped" => card'[d].st = "dropped"
     /\ auto[d] => card'[d].st # "draft" /\ (server => card'[d].st # "confirming")

\* A step that only moves cards keeps the invariant where each card moves as its rules say.
LEMMA CardsMove ==
  ASSUME IInv, card' \in [Cap -> CardRec], seen' \in [Cap -> Nat], verdicts' \in [Cap -> Nat],
         UNCHANGED <<pages, up, memory, session, stored, wrap>>,
         events' \in 0..MaxEvents, stops' \in 0..MaxStops,
         \A d \in Cap : Moves(d) /\ CardOK(d)'
  PROVE  IInv'
<1> USE DEF IInv, pages, memory
<1>1. Types'
  BY DEF Types
<1>2. \A d \in Cap : Has(d)' = Has(d) /\ (Has(d) => card'[d].ses = card[d].ses)
  BY DEF Moves, Has
<1>3. \A c \in Cap : Follows(c)'
  BY FollowsStand DEF Moves
<1>4. WrapOK'
  <2>1. \A d \in Cap : Kept(d)
    BY NoCardTyped DEF Moves, Kept, Has
  <2> QED
    BY <2>1, WrapStands
<1>5. ASSUME NEW c \in Cap PROVE PageOK(c)'
  <2>1. PageOK(c) /\ Has(c)' = Has(c) /\ (Has(c) => card'[c].ses = card[c].ses)
    BY <1>2
  <2> QED
    BY <2>1 DEF PageOK, Live
<1>6. ASSUME NEW c \in Cap PROVE AutoOK(c)'
  <2>1. AutoOK(c) /\ Moves(c) /\ Has(c)' = Has(c)
    BY <1>2
  <2> QED
    BY <2>1 DEF AutoOK, Moves
<1> QED
  BY <1>1, <1>3, <1>4, <1>5, <1>6

\* Who acts on a card saw its last revision, and no step was in progress.
LEMMA SeenLast ==
  ASSUME Types, NEW c \in Cap, NEW r \in 1..MaxRev, Sees(c, r), Current(c, r)
  PROVE  card[c].pend = "no" /\ card[c].rev = r /\ r \in Nat
<1>1. card[c].rev \in Nat
  BY DEF Types, CardRec
<1> QED
  BY <1>1 DEF Sees, Current

\* One card becomes another, of a new revision, and the rest stay.
LEMMA OneMoves ==
  ASSUME IInv, NEW c \in Cap, Has(c), NEW n \in CardRec,
         card' = [card EXCEPT ![c] = [n EXCEPT !.rev = card[c].rev + 1]],
         n.ses = card[c].ses, n.st # "none", card[c].st = "dropped" => n.st = "dropped",
         auto[c] => n.st # "draft" /\ (server => n.st # "confirming"),
         UNCHANGED <<pages, up, memory, session, stored, log, ledger, wrap>>,
         events' \in 0..MaxEvents, stops' \in 0..MaxStops,
         seen' \in [Cap -> Nat], verdicts' \in [Cap -> Nat],
         \A d \in Cap \ {c} : seen'[d] = seen[d] /\ verdicts'[d] = verdicts[d],
         CardOK(c)'
  PROVE  IInv'
<1> DEFINE m == [n EXCEPT !.rev = card[c].rev + 1]
<1>1. card[c] \in CardRec
  BY DEF IInv, Types
<1>2. m \in CardRec /\ m.rev = card[c].rev + 1 /\ m.st = n.st /\ m.ses = n.ses
  BY <1>1 DEF CardRec
<1>3. card' = [card EXCEPT ![c] = m]
  OBVIOUS
<1> HIDE DEF m
<1>4. card' \in [Cap -> CardRec] /\ card'[c] = m /\ \A d \in Cap \ {c} : card'[d] = card[d]
  BY <1>2, <1>3 DEF IInv, Types
<1>5. Moves(c)
  <2>1. card[c].rev \in Nat
    BY <1>1 DEF CardRec
  <2> QED
    BY <1>2, <1>4, <2>1, NoCardTyped DEF Moves, Has
<1>6. ASSUME NEW d \in Cap \ {c} PROVE Moves(d) /\ CardOK(d)'
  BY <1>4, CardStands DEF Moves, IInv
<1> QED
  BY <1>4, <1>5, <1>6, CardsMove

\* What a person does to a card - edit, send, confirm, discard - keeps the invariant.
LEMMA PersonKeeps ==
  ASSUME IInv, NEW c \in Cap, NEW r \in 1..MaxRev, Person(c, r)
  PROVE  IInv'
<1> USE DEF pages, memory, SameCard, Calm, Event
<1>1. /\ server /\ Sees(c, r) /\ Current(c, r)
      /\ UNCHANGED <<pages, up, memory, session, stored, log, ledger, wrap>>
      /\ events' \in 0..MaxEvents /\ stops' \in 0..MaxStops
  BY BoundAssumption DEF Person, Act, Confirm, More, Good, IInv, Types
<1>2. card[c].pend = "no" /\ card[c].rev = r /\ r \in Nat /\ r > 0 /\ Has(c)
  BY <1>1, SeenLast DEF IInv, Has, NoCard
<1>3. card[c] \in CardRec /\ CardOK(c) /\ AutoOK(c) /\ card[c].st \notin {"none", "confirming"}
  BY <1>2 DEF IInv, Types, CardOK, Has
<1>4. /\ card[c].rev \in Nat /\ card[c].words \in Nat /\ seen[c] \in Nat
      /\ card \in [Cap -> CardRec] /\ seen \in [Cap -> Nat] /\ verdicts \in [Cap -> Nat]
  BY <1>3 DEF CardRec, IInv, Types
<1>5. CASE Act(c, r)
  <2>1. UNCHANGED <<seen, verdicts>>
    BY <1>5 DEF Act
  <2> DEFINE Turns(n) == card' = [card EXCEPT ![c] = [n EXCEPT !.rev = card[c].rev + 1]]
  <2>2. ASSUME card[c].st = "draft", Turns([card[c] EXCEPT !.words = card[c].rev + 1]) PROVE IInv'
    <3> DEFINE n == [card[c] EXCEPT !.words = card[c].rev + 1]
    <3>1. n \in CardRec /\ n.ses = card[c].ses /\ n.st = "draft"
      BY <1>3, <1>4, <2>2 DEF CardRec
    <3>2. card'[c] = [card[c] EXCEPT !.words = card[c].rev + 1, !.rev = card[c].rev + 1]
      BY <1>3, <1>4, <2>2 DEF CardRec
    <3>3. CardOK(c)'
      BY <1>1, <1>2, <1>3, <1>4, <2>1, <2>2, <3>2 DEF CardOK, Sent, CardRec, Has, NoCard
    <3>4. Turns(n)
      BY <2>2
    <3> HIDE DEF n
    <3> QED
      BY <1>1, <1>2, <1>3, <1>4, <2>1, <2>2, <3>1, <3>3, <3>4, OneMoves DEF AutoOK
  <2>3. ASSUME card[c].st # "dropped", Turns(card[c]) PROVE IInv'
    <3>1. card'[c] = [card[c] EXCEPT !.rev = card[c].rev + 1]
      BY <1>3, <1>4, <2>3
    <3>2. CardOK(c)'
      BY <1>1, <1>2, <1>3, <1>4, <2>1, <2>3, <3>1 DEF CardOK, Sent, Valid, Words, Comment, CardRec, Has, NoCard
    <3> QED
      BY <1>1, <1>2, <1>3, <1>4, <2>1, <2>3, <3>2, OneMoves DEF AutoOK
  <2>4. ASSUME NEW end \in {"dropped", "kept"}, Turns([card[c] EXCEPT !.st = end]),
               end = "kept" => card[c].st = "queued"
        PROVE  IInv'
    <3> DEFINE n == [card[c] EXCEPT !.st = end]
    <3>1. n \in CardRec /\ n.ses = card[c].ses /\ n.st = end
      BY <1>3, <2>4 DEF CardRec, States
    <3>2. card'[c] = [card[c] EXCEPT !.st = end, !.rev = card[c].rev + 1]
      BY <1>3, <1>4, <2>4
    <3>3. CardOK(c)'
      BY <1>1, <1>2, <1>3, <1>4, <2>1, <2>4, <3>2
         DEF CardOK, Sent, Valid, Words, Comment, CardRec, Has, NoCard
    <3>4. Turns(n)
      BY <2>4
    <3> HIDE DEF n
    <3> QED
      BY <1>1, <1>2, <1>3, <1>4, <2>1, <2>4, <3>1, <3>3, <3>4, OneMoves
  <2> QED
    BY <1>5, <2>2, <2>3, <2>4 DEF Act, Becomes
<1>6. CASE Confirm(c, r)
  <2>1. /\ card[c].st = "draft" /\ seen' = [seen EXCEPT ![c] = r] /\ UNCHANGED verdicts
    BY <1>6 DEF Confirm
  <2>2. PICK end \in {"queued", "kept"} :
          card' = [card EXCEPT ![c] = [[card[c] EXCEPT !.st = "confirming", !.pend = end]
                                         EXCEPT !.rev = card[c].rev + 1]]
    BY <1>6 DEF Confirm, Becomes
  <2> DEFINE n == [card[c] EXCEPT !.st = "confirming", !.pend = end]
  <2>3. n \in CardRec /\ n.ses = card[c].ses /\ n.st = "confirming"
    BY <1>3 DEF CardRec, States
  <2>4. card'[c] = [card[c] EXCEPT !.st = "confirming", !.pend = end, !.rev = card[c].rev + 1]
    BY <1>3, <1>4, <2>2
  <2>5. CardOK(c)'
    BY <1>1, <1>2, <1>3, <1>4, <2>1, <2>4 DEF CardOK, Sent, CardRec, Has, NoCard
  <2>6. card' = [card EXCEPT ![c] = [n EXCEPT !.rev = card[c].rev + 1]]
    BY <2>2
  <2> HIDE DEF n
  <2> QED
    BY <1>1, <1>2, <1>3, <1>4, <2>1, <2>3, <2>5, <2>6, OneMoves DEF AutoOK
<1>7. CASE More(c, r)
  <2>1. /\ card[c].st = "review" /\ verdicts' = [verdicts EXCEPT ![c] = @ + 1] /\ UNCHANGED seen
        /\ card' = [card EXCEPT ![c] = [[card[c] EXCEPT !.pend = "more"] EXCEPT !.rev = card[c].rev + 1]]
    BY <1>7 DEF More, Decided, Becomes
  <2> DEFINE n == [card[c] EXCEPT !.pend = "more"]
  <2>2. n \in CardRec /\ n.ses = card[c].ses /\ n.st = "review"
    BY <1>3, <2>1 DEF CardRec
  <2>3. card'[c] = [card[c] EXCEPT !.pend = "more", !.rev = card[c].rev + 1]
    BY <1>3, <1>4, <2>1
  <2>4. verdicts[c] = 0 /\ verdicts'[c] = 1 /\ verdicts' \in [Cap -> Nat]
    BY <1>2, <1>3, <1>4, <2>1 DEF CardOK
  <2>5. CardOK(c)'
    BY <1>1, <1>2, <1>3, <1>4, <2>1, <2>3, <2>4
       DEF CardOK, Sent, Valid, Words, Comment, CardRec, Has, NoCard
  <2>6. card' = [card EXCEPT ![c] = [n EXCEPT !.rev = card[c].rev + 1]]
    BY <2>1
  <2> HIDE DEF n
  <2> QED
    BY <1>1, <1>2, <1>3, <1>4, <2>1, <2>2, <2>4, <2>5, <2>6, OneMoves
<1>8. CASE Good(c, r)
  <2>1. /\ card[c].st = "review" /\ verdicts' = [verdicts EXCEPT ![c] = @ + 1] /\ UNCHANGED seen
        /\ card' = [card EXCEPT ![c] = [[card[c] EXCEPT !.st = "done"] EXCEPT !.rev = card[c].rev + 1]]
    BY <1>8 DEF Good, Decided, Becomes
  <2> DEFINE n == [card[c] EXCEPT !.st = "done"]
  <2>2. n \in CardRec /\ n.ses = card[c].ses /\ n.st = "done"
    BY <1>3, <2>1 DEF CardRec, States
  <2>3. card'[c] = [card[c] EXCEPT !.st = "done", !.rev = card[c].rev + 1]
    BY <1>3, <1>4, <2>1
  <2>4. verdicts[c] = 0 /\ verdicts'[c] = 1 /\ verdicts' \in [Cap -> Nat]
    BY <1>2, <1>3, <1>4, <2>1 DEF CardOK
  <2>5. CardOK(c)'
    BY <1>1, <1>2, <1>3, <1>4, <2>1, <2>3, <2>4
       DEF CardOK, Sent, Valid, Words, Comment, CardRec, Has, NoCard
  <2>6. card' = [card EXCEPT ![c] = [n EXCEPT !.rev = card[c].rev + 1]]
    BY <2>1
  <2> HIDE DEF n
  <2> QED
    BY <1>1, <1>2, <1>3, <1>4, <2>1, <2>2, <2>4, <2>5, <2>6, OneMoves
<1> QED
  BY <1>5, <1>6, <1>7, <1>8 DEF Person

\* A review that a capture sends back: it is the one the capture saw, with no step in
\* progress, so nobody has decided it.
LEMMA SentBackUndecided ==
  ASSUME IInv, NEW c \in Cap, NEW d \in SentBack(c)
  PROVE  /\ d \in Cap /\ card[d].st = "review" /\ card[d].pend = "no" /\ verdicts[d] = 0 /\ Has(d)
<1>1. d = about[c].reviews /\ d # None /\ card[d].st = "review" /\ card[d].rev = about[c].rev
  BY DEF SentBack
<1>2. d \in Cap
  BY <1>1 DEF IInv, Types, AboutRec
<1> QED
  BY <1>1, <1>2, NoCardTyped DEF IInv, Follows, CardOK, Has

\* ... and as it goes back it is done, decided once.
LEMMA SentBackOK ==
  ASSUME IInv, NEW c \in Cap, NEW d \in SentBack(c),
         card'[d] = [card[d] EXCEPT !.st = "done", !.rev = card[d].rev + 1],
         verdicts'[d] = verdicts[d] + 1, seen'[d] = seen[d],
         stored \subseteq stored', log \subseteq log', ledger \subseteq ledger'
  PROVE  card'[d] \in CardRec /\ CardOK(d)' /\ Moves(d)
<1>1. d \in Cap /\ card[d].st = "review" /\ card[d].pend = "no" /\ verdicts[d] = 0 /\ Has(d)
  BY SentBackUndecided
<1>2. card[d] \in CardRec /\ CardOK(d)
  BY <1>1 DEF IInv, Types
<1>3. card[d].rev \in Nat /\ card[d].words \in Nat
  BY <1>2 DEF CardRec
<1> DEFINE n == [card[d] EXCEPT !.st = "done", !.rev = card[d].rev + 1]
<1>4. n \in CardRec /\ n.rev = card[d].rev + 1 /\ n.ses = card[d].ses /\ n.st = "done" /\ card'[d] = n
  <2>1. "done" \in States /\ card[d].rev + 1 \in Nat
    BY <1>3 DEF States
  <2> QED
    BY <1>2, <2>1 DEF CardRec
<1>5. CardOK(d)'
  BY <1>1, <1>2, <1>3 DEF CardOK, Sent, Valid, Words, Comment, CardRec, Has, NoCard
<1> HIDE DEF n
<1>6. Has(d)' /\ card'[d].rev > card[d].rev /\ card'[d].ses = card[d].ses /\ card'[d].st = "done"
  BY <1>3, <1>4, NoCardTyped DEF Has
<1> QED
  BY <1>1, <1>4, <1>5, <1>6 DEF Moves

\* The rest of a step: its comment, what it owns, and the card, which is then bound to them.
LEMMA StepKeeps ==
  ASSUME IInv, NEW c \in Cap, card[c].pend # "no", WritesStep(c),
         UNCHANGED <<pages, up, memory, session, stored, wrap, seen, events, stops>>
  PROVE  IInv'
<1>1. card[c] \in CardRec /\ CardOK(c) /\ AutoOK(c) /\ Types
  BY DEF IInv, Types
<1>2. /\ card[c].rev \in Nat /\ card[c].words \in Nat /\ seen[c] \in Nat
      /\ card \in [Cap -> CardRec] /\ seen \in [Cap -> Nat] /\ verdicts \in [Cap -> Nat]
  BY <1>1 DEF CardRec, Types
<1>3. /\ log' = log \cup {Says(c)} /\ ledger' = ledger \cup Owns(c) /\ stored' = stored /\ seen' = seen
  BY DEF WritesStep
<1>4. events' \in 0..MaxEvents /\ stops' \in 0..MaxStops
  BY <1>1 DEF Types
<1>5. CASE card[c].pend = "more"
  <2> DEFINE n == [card[c] EXCEPT !.st = "queued", !.pend = "no", !.rev = @ + 1,
                                  !.asks = @ \cup {<<c, "more", card[c].rev>>}]
  <2>1. card' = [card EXCEPT ![c] = n] /\ verdicts' = verdicts
    BY <1>5 DEF WritesStep, Again
  <2>2. /\ n \in CardRec /\ n.rev = card[c].rev + 1 /\ n.st = "queued" /\ n.pend = "no"
        /\ n.words = card[c].words /\ n.ses = card[c].ses
        /\ n.asks = card[c].asks \cup {<<c, "more", card[c].rev>>}
    <3> DEFINE a == card[c].asks \cup {<<c, "more", card[c].rev>>}
    <3>1. <<c, "more", card[c].rev>> \in Cap \X {"more"} \X Nat
      BY <1>2
    <3>2. card[c].asks \in SUBSET (Cap \X {"more"} \X Nat)
      BY <1>1 DEF CardRec
    <3>3. a \in SUBSET (Cap \X {"more"} \X Nat) /\ "queued" \in States /\ card[c].rev + 1 \in Nat
      BY <1>2, <3>1, <3>2 DEF States
    <3>4. n = [card[c] EXCEPT !.st = "queued", !.pend = "no", !.rev = card[c].rev + 1, !.asks = a]
      OBVIOUS
    <3> HIDE DEF n, a
    <3>5. /\ n \in CardRec /\ n.rev = card[c].rev + 1 /\ n.st = "queued" /\ n.pend = "no"
          /\ n.words = card[c].words /\ n.ses = card[c].ses /\ n.asks = a
      BY <1>1, <3>3, <3>4 DEF CardRec
    <3> QED
      BY <3>5 DEF a
  <2> HIDE DEF n
  <2>4. card'[c] = n /\ card' \in [Cap -> CardRec] /\ \A d \in Cap \ {c} : card'[d] = card[d]
    BY <1>2, <2>1, <2>2
  <2>5. <<c, "more", card[c].rev>> \in log' \cap ledger'
    BY <1>3, <1>5 DEF Says, Owns
  <2>6. CardOK(c)'
    BY <1>1, <1>2, <1>3, <1>5, <2>1, <2>2, <2>4, <2>5
       DEF CardOK, Sent, Valid, Words, Comment, Has, NoCard
  <2>7. Moves(c)
    BY <1>1, <1>2, <1>5, <2>2, <2>4, NoCardTyped DEF Moves, Has, CardOK
  <2>8. \A d \in Cap \ {c} : Moves(d) /\ CardOK(d)'
    BY <1>3, <2>1, <2>4, CardStands DEF Moves, IInv
  <2> QED
    BY <1>2, <1>3, <1>4, <2>1, <2>4, <2>6, <2>7, <2>8, CardsMove
<1>6. CASE card[c].pend # "more"
  <2> DEFINE back == IF card[c].pend = "queued" THEN SentBack(c) ELSE {}
             n == [card[c] EXCEPT !.st = card[c].pend, !.pend = "no", !.rev = @ + 1]
  <2>1. card[c].st = "confirming" /\ card[c].pend \in {"queued", "kept"}
    BY <1>1, <1>6 DEF CardRec, CardOK
  <2>2. back \subseteq Cap /\ c \notin back
    BY <2>1, SentBackUndecided
  <2>3. card' = Ended(c) /\ verdicts' = [d \in Cap |-> IF d \in back THEN verdicts[d] + 1 ELSE verdicts[d]]
    BY <1>6 DEF WritesStep
  <2>4. card'[c] = n /\ DOMAIN card' = Cap /\ card' = [d \in Cap |-> card'[d]]
    BY <2>3 DEF Ended
  <2>5. ASSUME NEW d \in back PROVE card'[d] = [card[d] EXCEPT !.st = "done", !.rev = card[d].rev + 1]
    BY <2>2, <2>3, <2>5 DEF Ended
  <2>6. ASSUME NEW d \in Cap \ back, d # c PROVE card'[d] = card[d] /\ verdicts'[d] = verdicts[d]
    BY <2>3, <2>6 DEF Ended
  <2>7. verdicts'[c] = verdicts[c] /\ verdicts' \in [Cap -> Nat]
    BY <1>2, <2>2, <2>3
  <2>8. ASSUME NEW d \in back PROVE card'[d] \in CardRec /\ CardOK(d)' /\ Moves(d)
    <3>1. d \in SentBack(c) /\ verdicts'[d] = verdicts[d] + 1 /\ seen'[d] = seen[d]
      BY <1>3, <2>2, <2>3
    <3> QED
      BY <1>3, <2>5, <3>1, SentBackOK
  <2>9. ASSUME NEW d \in Cap \ back, d # c PROVE card'[d] \in CardRec /\ CardOK(d)' /\ Moves(d)
    BY <1>2, <1>3, <2>6, <2>9, CardStands DEF Moves, IInv
  <2>10. /\ n \in CardRec /\ n.rev = card[c].rev + 1 /\ n.st = card[c].pend /\ n.pend = "no"
         /\ n.words = card[c].words /\ n.ses = card[c].ses /\ n.asks = card[c].asks
    <3>1. /\ card[c].pend \in States /\ card[c].rev + 1 \in Nat
          /\ card[c].asks \in SUBSET (Cap \X {"more"} \X Nat)
      BY <1>1, <1>2, <2>1 DEF States, CardRec
    <3>2. n = [card[c] EXCEPT !.st = card[c].pend, !.pend = "no", !.rev = card[c].rev + 1]
      OBVIOUS
    <3> HIDE DEF n
    <3> QED
      BY <1>1, <3>1, <3>2 DEF CardRec
  <2> HIDE DEF n, back
  <2>11. Comment(c) \in log' \cap ledger' /\ Words(c, card[c].words) \in ledger'
    BY <1>3, <1>6 DEF Says, Owns
  <2>12. CardOK(c)'
    BY <1>1, <1>2, <1>3, <2>1, <2>4, <2>7, <2>10, <2>11 DEF CardOK, Sent, Valid, Has, NoCard
  <2>13. Moves(c)
    BY <1>1, <1>2, <2>1, <2>4, <2>10, NoCardTyped DEF Moves, Has
  <2>14. card' \in [Cap -> CardRec]
    BY <2>4, <2>8, <2>9, <2>10
  <2>15. \A d \in Cap : Moves(d) /\ CardOK(d)'
    BY <2>8, <2>9, <2>12, <2>13
  <2> QED
    BY <1>2, <1>3, <1>4, <2>7, <2>14, <2>15, CardsMove
<1> QED
  BY <1>5, <1>6

\* A run is claimed, as what was sent is bound, and its last verdict is no more.
LEMMA RunKeeps ==
  ASSUME IInv, NEW c \in Cap, Runs(c)
  PROVE  IInv'
<1> USE DEF pages, memory, SameCard, Calm
<1>1. card[c] \in CardRec /\ CardOK(c) /\ AutoOK(c) /\ Types /\ card[c].st = "queued"
  BY DEF IInv, Types, Runs
<1>2. /\ card[c].rev \in Nat /\ card[c].words \in Nat /\ seen[c] \in Nat /\ card[c].run \in Nat
      /\ card \in [Cap -> CardRec] /\ seen \in [Cap -> Nat] /\ verdicts \in [Cap -> Nat]
  BY <1>1 DEF CardRec, Types
<1> DEFINE n == [card[c] EXCEPT !.st = "review", !.run = @ + 1, !.rev = @ + 2]
<1>3. card' = [card EXCEPT ![c] = n] /\ verdicts' = [verdicts EXCEPT ![c] = 0]
  BY <1>1 DEF Runs, CardOK, Sent
<1>4. UNCHANGED <<pages, up, memory, session, stored, log, ledger, wrap, seen, events, stops>>
  BY DEF Runs
<1>5. /\ n \in CardRec /\ n.rev = card[c].rev + 2 /\ n.st = "review" /\ n.pend = card[c].pend
      /\ n.words = card[c].words /\ n.ses = card[c].ses /\ n.asks = card[c].asks
  <2>1. "review" \in States /\ card[c].rev + 2 \in Nat /\ card[c].run + 1 \in Nat
    BY <1>2 DEF States
  <2>2. n = [card[c] EXCEPT !.st = "review", !.run = card[c].run + 1, !.rev = card[c].rev + 2]
    OBVIOUS
  <2> HIDE DEF n
  <2> QED
    BY <1>1, <2>1, <2>2 DEF CardRec
<1> HIDE DEF n
<1>6. /\ card'[c] = n /\ card' \in [Cap -> CardRec] /\ verdicts'[c] = 0 /\ verdicts' \in [Cap -> Nat]
      /\ \A d \in Cap \ {c} : card'[d] = card[d] /\ verdicts'[d] = verdicts[d]
  BY <1>2, <1>3, <1>5
<1>7. card[c].pend = "no"
  BY <1>1 DEF CardOK, CardRec
<1>8. CardOK(c)'
  BY <1>1, <1>2, <1>4, <1>5, <1>6, <1>7 DEF CardOK, Sent, Valid, Words, Comment, Has, NoCard
<1>9. Moves(c)
  BY <1>1, <1>2, <1>5, <1>6, NoCardTyped DEF Moves, Has
<1>10. \A d \in Cap \ {c} : Moves(d) /\ CardOK(d)'
  BY <1>4, <1>6, CardStands DEF Moves, IInv
<1>11. events' \in 0..MaxEvents /\ stops' \in 0..MaxStops
  BY <1>1, <1>4 DEF Types
<1> QED
  BY <1>2, <1>4, <1>6, <1>8, <1>9, <1>10, <1>11, CardsMove

\* A step of a card that the server finishes keeps the invariant.
LEMMA FinishKeeps ==
  ASSUME IInv, NEW c \in Cap, FinishStep(c)
  PROVE  IInv'
  BY StepKeeps DEF FinishStep, Calm

-----------------------------------------------------------------------------
(* An upload lands *)

\* Stored at once; what was ended with E waits for its pin.
LEMMA TakeInKeeps ==
  ASSUME IInv, NEW c \in Cap, NEW g \in Gen, TakeIn(c, g)
  PROVE  IInv'
<1> USE DEF IInv, Calm
<1>1. /\ server /\ up[c][g] = "way" /\ stored' = stored \cup {c}
      /\ UNCHANGED <<server, pages, open, heard, session, card, log, ledger, wrap, seen, verdicts, events, stops>>
      /\ up' = [up EXCEPT ![c][g] = IF auto[c] /\ ~Has(c) THEN "pin" ELSE "in"]
  BY DEF TakeIn
<1> DEFINE u == IF auto[c] /\ ~Has(c) THEN "pin" ELSE "in"
<1>2. up' \in Uploads /\ (\A d \in Cap \ {c} : up'[d] = up[d]) /\ \A h \in Gen \ {g} : up'[c][h] = up[c][h]
  BY <1>1 DEF Types, Uploads
<1>3. up'[c][g] = u
  BY <1>1 DEF Types, Uploads
<1>4. Types'
  BY <1>1, <1>2 DEF Types, pages
<1>5. \A d \in Cap : CardOK(d)' /\ Has(d)' = Has(d)
  BY <1>1, CardStands DEF Has
<1>6. \A d \in Cap : Follows(d)'
  BY <1>1 DEF Follows, pages
<1>7. WrapOK'
  BY <1>1 DEF WrapOK, pages
<1>8. \A d \in Cap \ {c} : PageOK(d)' /\ AutoOK(d)'
  BY <1>1, <1>2, <1>5 DEF PageOK, AutoOK, pages, Live
<1>9. PageOK(c)'
  BY <1>1, <1>5 DEF PageOK, pages, Live
<1>10. AutoOK(c)'
  BY <1>1, <1>2, <1>3, <1>5 DEF AutoOK, pages
<1> QED
  BY <1>4, <1>5, <1>6, <1>7, <1>8, <1>9, <1>10

\* The draft a capture resumes is gone as its card is made.
LEMMA SourceOK ==
  ASSUME IInv, NEW d \in Cap, card[d].st = "draft",
         card'[d] = [card[d] EXCEPT !.st = "dropped", !.rev = card[d].rev + 1],
         verdicts'[d] = verdicts[d], seen'[d] = seen[d],
         stored \subseteq stored', log \subseteq log', ledger \subseteq ledger'
  PROVE  card'[d] \in CardRec /\ CardOK(d)' /\ Moves(d)
<1>1. card[d] \in CardRec /\ CardOK(d) /\ Has(d)
  BY NoCardTyped DEF IInv, Types, Has
<1>2. card[d].rev \in Nat /\ card[d].words \in Nat
  BY <1>1 DEF CardRec
<1> DEFINE n == [card[d] EXCEPT !.st = "dropped", !.rev = card[d].rev + 1]
<1>3. /\ n \in CardRec /\ n.rev = card[d].rev + 1 /\ n.ses = card[d].ses /\ n.st = "dropped"
      /\ n.words = card[d].words /\ n.pend = card[d].pend /\ card'[d] = n
  <2>1. "dropped" \in States /\ card[d].rev + 1 \in Nat
    BY <1>2 DEF States
  <2> QED
    BY <1>1, <2>1 DEF CardRec
<1> HIDE DEF n
<1>4. CardOK(d)'
  BY <1>1, <1>2, <1>3 DEF CardOK, Sent, Has, NoCard
<1>5. Moves(d)
  BY <1>1, <1>2, <1>3, NoCardTyped DEF Moves, Has
<1> QED
  BY <1>3, <1>4, <1>5

\* A card made for an upload, at state s, revision r, with step p.
IsFresh(c, new, s, r, p) ==
  /\ new \in CardRec /\ new.st = s /\ new.rev = r /\ new.words = Carried(c) /\ new.pend = p
  /\ new.asks = {} /\ new.ses = InSession(c)

\* The draft a capture leaves, and the two cards it may turn into, are fresh cards at their
\* revisions.
LEMMA DraftIs ==
  ASSUME Types, NEW c \in Cap
  PROVE  /\ Carried(c) \in {0, 1} /\ InSession(c) \in BOOLEAN
         /\ IsFresh(c, Draft(c), "draft", 1, "no")
         /\ IsFresh(c, [Draft(c) EXCEPT !.st = "queued", !.rev = 3], "queued", 3, "no")
         /\ IsFresh(c, [Draft(c) EXCEPT !.st = "confirming", !.pend = "queued", !.rev = 2],
                    "confirming", 2, "queued")
<1>1. Carried(c) \in {0, 1} /\ InSession(c) \in BOOLEAN /\ NoCard \in CardRec
  BY NoCardTyped DEF Carried, InSession, Types
<1>2. "draft" \in States /\ "queued" \in States /\ "confirming" \in States
  BY DEF States
<1>3. Draft(c) \in CardRec
  <2>1. ASSUME NEW w \in Nat, NEW e \in BOOLEAN, NEW k \in CardRec, NEW s \in States
        PROVE  [k EXCEPT !.st = s, !.rev = 1, !.words = w, !.ses = e] \in CardRec
    BY DEF CardRec
  <2>2. Carried(c) \in Nat
    BY <1>1
  <2> QED
    BY <1>1, <1>2, <2>1, <2>2, Zenon DEF Draft
<1>4. IsFresh(c, Draft(c), "draft", 1, "no")
  <2>1. NoCard.pend = "no" /\ NoCard.asks = {}
    BY DEF NoCard
  <2>2. /\ Draft(c).st = "draft" /\ Draft(c).rev = 1 /\ Draft(c).words = Carried(c)
        /\ Draft(c).pend = NoCard.pend /\ Draft(c).asks = NoCard.asks /\ Draft(c).ses = InSession(c)
    BY <1>1 DEF Draft, CardRec
  <2> QED
    BY <1>3, <2>1, <2>2 DEF IsFresh
<1>5. ASSUME NEW k, IsFresh(c, k, "draft", 1, "no")
      PROVE  /\ IsFresh(c, [k EXCEPT !.st = "queued", !.rev = 3], "queued", 3, "no")
             /\ IsFresh(c, [k EXCEPT !.st = "confirming", !.pend = "queued", !.rev = 2],
                        "confirming", 2, "queued")
  BY <1>2, <1>5 DEF IsFresh, CardRec
<1> QED
  BY <1>1, <1>4, <1>5, Zenon

Made(c, new, back) ==
  [d \in Cap |-> IF d \in back THEN [card[d] EXCEPT !.st = "done", !.rev = @ + 1] ELSE Added(c, new)[d]]
Judged(back) == [d \in Cap |-> IF d \in back THEN verdicts[d] + 1 ELSE verdicts[d]]

\* A card made: it follows its upload, and the draft it resumes and the review it sends
\* back go with it.
LEMMA CardMade ==
  ASSUME IInv, NEW c \in Cap, ~Has(c), c \in stored, stored' = stored, seen' = seen,
         log \subseteq log', ledger \subseteq ledger',
         NEW s \in {"draft", "queued", "confirming"}, NEW r \in 1..3, NEW p \in {"no", "queued"},
         NEW new, IsFresh(c, new, s, r, p),
         s = "confirming" <=> p = "queued",
         s = "queued" => Comment(c) \in log' \cap ledger' /\ Words(c, Carried(c)) \in ledger',
         NEW back, back \subseteq SentBack(c),
         card' = Made(c, new, back), verdicts' = Judged(back)
  PROVE  /\ card' \in [Cap -> CardRec] /\ verdicts' \in [Cap -> Nat]
         /\ card'[c] = new
         /\ \A d \in Cap : CardOK(d)' /\ (d # c => Moves(d))
<1>1. Types /\ CardOK(c) /\ card[c].st = "none" /\ card[c] = NoCard
  BY NoCardTyped DEF IInv, Has
<1>2. /\ card \in [Cap -> CardRec] /\ seen \in [Cap -> Nat] /\ verdicts \in [Cap -> Nat]
  BY <1>1 DEF Types
<1>3. back \subseteq Cap /\ c \notin back
  BY <1>1, SentBackUndecided
<1>4. Carried(c) \in {0, 1}
  BY <1>1, DraftIs
<1>5. new \in CardRec
  BY DEF IsFresh
<1>6. card'[c] = new
  BY <1>3 DEF Made, Added
<1>7. verdicts' \in [Cap -> Nat] /\ verdicts'[c] = verdicts[c]
  BY <1>2, <1>3 DEF Judged
<1>8. ASSUME NEW d \in back PROVE card'[d] \in CardRec /\ CardOK(d)' /\ Moves(d)
  <2>1. /\ card'[d] = [card[d] EXCEPT !.st = "done", !.rev = card[d].rev + 1]
        /\ verdicts'[d] = verdicts[d] + 1 /\ seen'[d] = seen[d] /\ d \in SentBack(c)
    BY <1>3 DEF Made, Judged
  <2> QED
    BY <2>1, SentBackOK
<1>9. ASSUME NEW d \in Cap \ back, d # c PROVE card'[d] \in CardRec /\ CardOK(d)' /\ Moves(d)
  <2>1. verdicts'[d] = verdicts[d] /\ seen'[d] = seen[d]
    BY <1>9 DEF Judged
  <2>2. CASE d = Source(c) /\ card[d].st = "draft"
    <3>1. card'[d] = [card[d] EXCEPT !.st = "dropped", !.rev = card[d].rev + 1]
      BY <1>9, <2>2 DEF Made, Added
    <3> QED
      BY <2>1, <2>2, <3>1, SourceOK
  <2>3. CASE ~(d = Source(c) /\ card[d].st = "draft")
    <3>1. card'[d] = card[d]
      BY <1>9, <2>3 DEF Made, Added
    <3> QED
      BY <1>2, <2>1, <3>1, CardStands DEF Moves, IInv
  <2> QED
    BY <2>2, <2>3
<1>10. CardOK(c)'
  <2>1. /\ card'[c].st = s /\ card'[c].rev = r /\ card'[c].words = Carried(c) /\ card'[c].pend = p
        /\ card'[c].asks = {}
    BY <1>6 DEF IsFresh
  <2>2. verdicts[c] <= 1 /\ seen[c] = 0
    BY <1>1 DEF CardOK
  <2> QED
    BY <1>2, <1>4, <1>7, <2>1, <2>2 DEF CardOK, Sent, Valid, Has, NoCard
<1>11. card' \in [Cap -> CardRec]
  <2>1. \A d \in Cap : card'[d] \in CardRec
    BY <1>5, <1>6, <1>8, <1>9
  <2>2. card' = [d \in Cap |-> card'[d]]
    BY DEF Made
  <2> QED
    BY <2>1, <2>2, Zenon
<1> QED
  BY <1>6, <1>7, <1>8, <1>9, <1>10, <1>11

\* The turn of an upload: a card is made for a capture that has none, of the session if
\* that runs still; one that was made already is left alone.
LEMMA LandMakes ==
  ASSUME IInv, NEW c \in Cap, NEW g \in Gen, Land(c, g)
  PROVE  /\ card' \in [Cap -> CardRec] /\ verdicts' \in [Cap -> Nat]
         /\ \A d \in Cap : CardOK(d)' /\ (d # c => Moves(d))
         /\ IF Has(c) THEN card'[c] = card[c]
            ELSE /\ card'[c].st \in {"draft", "queued"} /\ card'[c].rev > 0
                 /\ card'[c].ses = InSession(c)
                 /\ card'[c].st = "draft" => up[c][g] = "in"
<1>1. /\ UNCHANGED <<stored, seen>> /\ c \in stored /\ Types
  BY DEF Land, IInv, PageOK
<1>2. CASE Has(c)
  <2>1. UNCHANGED <<card, log, ledger, verdicts>>
    BY <1>2, Zenon DEF Land
  <2> QED
    BY <1>1, <1>2, <2>1, CardStands DEF Moves, IInv, Types
<1>3. CASE ~Has(c) /\ up[c][g] = "in" /\ card' = Added(c, Draft(c)) /\ UNCHANGED <<log, ledger, verdicts>>
  <2>1. card' = Made(c, Draft(c), {})
    BY <1>3 DEF Made, Added
  <2>2. verdicts' = Judged({})
    BY <1>1, <1>3 DEF Judged, Types
  <2>3. IsFresh(c, Draft(c), "draft", 1, "no")
    BY <1>1, DraftIs
  <2> DEFINE n == Draft(c)
  <2> HIDE DEF n
  <2>4. card' = Made(c, n, {}) /\ IsFresh(c, n, "draft", 1, "no")
    BY <2>1, <2>3 DEF n
  <2>5. /\ card' \in [Cap -> CardRec] /\ verdicts' \in [Cap -> Nat] /\ card'[c] = n
        /\ \A d \in Cap : CardOK(d)' /\ (d # c => Moves(d))
    BY <1>1, <1>3, <2>2, <2>4, CardMade
  <2> QED
    BY <1>3, <2>4, <2>5 DEF IsFresh
<1>4. CASE ~Has(c) /\ up[c][g] = "pin" /\ Landed(c)
  <2> DEFINE n == [Draft(c) EXCEPT !.st = "queued", !.rev = 3]
  <2>1. IsFresh(c, n, "queued", 3, "no")
    BY <1>1, DraftIs
  <2>2. card' = Made(c, n, SentBack(c)) /\ verdicts' = Judged(SentBack(c))
    BY <1>4, Zenon DEF Landed, Made, Judged
  <2>3. log' = log \cup {Comment(c)} /\ ledger' = ledger \cup {Comment(c), Words(c, Carried(c))}
    BY <1>4 DEF Landed
  <2> HIDE DEF n
  <2>4. /\ card' \in [Cap -> CardRec] /\ verdicts' \in [Cap -> Nat] /\ card'[c] = n
        /\ \A d \in Cap : CardOK(d)' /\ (d # c => Moves(d))
    BY <1>1, <1>4, <2>1, <2>2, <2>3, CardMade
  <2> QED
    BY <1>4, <2>1, <2>4 DEF IsFresh
<1> QED
  BY <1>2, <1>3, <1>4, Zenon DEF Land

\* A card made is of a capture without one, so whoever follows or counts cards sees it as new.
LEMMA MadeStands ==
  ASSUME IInv, NEW c \in Cap, card' \in [Cap -> CardRec], UNCHANGED <<about, wrap, session, auto>>,
         \A d \in Cap \ {c} : Moves(d),
         IF Has(c) THEN card'[c] = card[c] ELSE card'[c].rev > 0 /\ card'[c].ses = InSession(c)
  PROVE  /\ \A d \in Cap : Follows(d)' /\ Kept(d)
         /\ WrapOK'
         /\ Has(c)' /\ \A d \in Cap \ {c} : Has(d)' = Has(d)
<1>1. ~Has(c) => card[c].rev = 0 /\ card[c].st = "none"
  BY DEF Has, NoCard
<1>2. Has(c)'
  <2>1. NoCard.rev = 0
    BY DEF NoCard
  <2> QED
    BY <2>1 DEF Has
<1>3. \A d \in Cap \ {c} : Has(d)' = Has(d)
  BY DEF Moves, Has
<1>4. \A d \in Cap : card'[d] = card[d] \/ card'[d].rev > card[d].rev
  BY <1>1 DEF Moves
<1>5. \A d \in Cap : Kept(d)
  <2>1. Kept(c)
    BY <1>1, <1>2 DEF Kept, InSession
  <2>2. ASSUME NEW d \in Cap \ {c} PROVE Kept(d)
    BY <1>3, NoCardTyped DEF Kept, Moves, Has
  <2> QED
    BY <2>1, <2>2
<1>6. WrapOK'
  BY <1>5, WrapStands DEF IInv
<1>7. \A d \in Cap : Follows(d)'
  BY <1>4, FollowsStand DEF IInv
<1> QED
  BY <1>2, <1>3, <1>5, <1>6, <1>7

\* An upload that lands, whoever hears the answer, keeps the invariant.
LEMMA LandKeeps ==
  ASSUME IInv, NEW c \in Cap, NEW g \in Gen, Land(c, g)
  PROVE  IInv'
<1>1. /\ server /\ up[c][g] \in {"pin", "in"} /\ up' = [up EXCEPT ![c][g] = "no"] /\ open' = open \ {c}
      /\ UNCHANGED <<server, gen, marked, auto, about, heard, session, stored, wrap, seen>>
      /\ Types
  BY Zenon DEF Land, IInv
<1>2. /\ card' \in [Cap -> CardRec] /\ verdicts' \in [Cap -> Nat]
      /\ \A d \in Cap : CardOK(d)' /\ (d # c => Moves(d))
      /\ IF Has(c) THEN card'[c] = card[c]
         ELSE /\ card'[c].st \in {"draft", "queued"} /\ card'[c].rev > 0
              /\ card'[c].ses = InSession(c)
              /\ card'[c].st = "draft" => up[c][g] = "in"
  BY LandMakes
<1>3. /\ \A d \in Cap : Follows(d)' /\ Kept(d)
      /\ WrapOK'
      /\ Has(c)' /\ \A d \in Cap \ {c} : Has(d)' = Has(d)
  BY <1>1, <1>2, MadeStands
<1>4. \/ Answered(c) /\ Calm /\ page[c] = "kept"
      \/ UNCHANGED <<page, held, told>> /\ (Event \/ Calm)
  BY Zenon DEF Land
<1>5. Types'
  <2>1. up' \in Uploads
    BY <1>1 DEF Types, Uploads
  <2>2. events' \in 0..MaxEvents /\ stops' \in 0..MaxStops
    BY <1>1, <1>4, BoundAssumption DEF Types, Event, Calm
  <2>3. page' \in [Cap -> {"no", "recording", "kept", "left", "landed", "gone"}]
    BY <1>1, <1>4 DEF Types, Answered
  <2>4. told' \subseteq Cap /\ held' \subseteq Cap
    BY <1>1, <1>4 DEF Types, Answered
  <2> QED
    BY <1>1, <1>2, <2>1, <2>2, <2>3, <2>4 DEF Types
<1>6. /\ \A d \in Cap \ {c} : page'[d] = page[d] /\ (d \in told' <=> d \in told)
                          /\ (d \in held' <=> d \in held)
      /\ \/ page'[c] = page[c] /\ (c \in told' <=> c \in told) /\ (c \in held' <=> c \in held)
         \/ /\ page'[c] = "landed" /\ c \notin held'
            /\ c \in told' <=> c \in told \/ (marked[c] /\ ~card'[c].ses)
  BY <1>1, <1>4 DEF Types, Answered
<1>7. /\ \A d \in Cap \ {c} : up'[d] = up[d]
      /\ \A h \in Gen : up'[c][h] \in {up[c][h], "no"}
  BY <1>1 DEF Types, Uploads
<1>8. ASSUME NEW d \in Cap \ {c} PROVE PageOK(d)' /\ AutoOK(d)'
  <2>1. PageOK(d) /\ AutoOK(d) /\ Moves(d) /\ Has(d)' = Has(d)
    BY <1>2, <1>3 DEF IInv
  <2>2. Has(d) => card'[d].ses = card[d].ses
    BY <2>1 DEF Moves
  <2>3. PageOK(d)'
    BY <1>1, <1>6, <1>7, <2>1, <2>2 DEF PageOK, Live
  <2>4. AutoOK(d)'
    BY <1>1, <1>7, <2>1 DEF AutoOK, Moves
  <2> QED
    BY <2>3, <2>4
<1>9. PageOK(c)'
  <2>1. PageOK(c) /\ page[c] \notin {"no", "recording"}
    BY <1>1 DEF IInv, PageOK
  <2>2. c \in told => ~card'[c].ses
    BY <1>1, <1>2, <2>1 DEF PageOK, InSession
  <2> QED
    BY <1>1, <1>2, <1>3, <1>6, <1>7, <2>1, <2>2 DEF PageOK, Live
<1>10. AutoOK(c)'
  <2>1. AutoOK(c)
    BY DEF IInv
  <2> QED
    BY <1>1, <1>2, <1>3, <1>7, <2>1 DEF AutoOK
<1> QED
  BY <1>2, <1>3, <1>5, <1>8, <1>9, <1>10 DEF IInv

-----------------------------------------------------------------------------
(* The session ends, the server stops and starts *)

LEMMA SessionKeeps ==
  ASSUME IInv, SealRecord \/ EndSession
  PROVE  IInv'
<1> USE DEF IInv, pages, memory, Calm, Event
<1>1. /\ session /\ session' = FALSE /\ server
      /\ UNCHANGED <<pages, up, memory, stored, card, log, ledger, seen, verdicts>>
      /\ events' \in 0..MaxEvents /\ stops' \in 0..MaxStops
  BY BoundAssumption DEF SealRecord, EndSession, Types
<1>2. /\ wrap' \in [sealed : BOOLEAN, caps : SUBSET Cap]
      /\ wrap' = wrap \/ wrap' = [sealed |-> TRUE, caps |-> Recorded]
  <2>1. wrap' = wrap \/ wrap' = [sealed |-> TRUE, caps |-> Recorded]
    BY DEF SealRecord, EndSession
  <2>2. Recorded \in SUBSET Cap
    BY DEF Recorded
  <2>3. [sealed |-> TRUE, caps |-> Recorded] \in [sealed : BOOLEAN, caps : SUBSET Cap]
    BY <2>2
  <2> QED
    BY <2>1, <2>3, Zenon DEF Types
<1>3. Types'
  BY <1>1, <1>2 DEF Types
<1>4. \A c \in Cap : CardOK(c)' /\ Follows(c)' /\ AutoOK(c)'
  BY <1>1, CardStands DEF Follows, AutoOK, Has
<1>5. \A c \in Cap : PageOK(c)'
  BY <1>1 DEF PageOK, Has, Live
<1>6. WrapOK'
  <2>1. CASE wrap' = wrap
    BY <1>1, <2>1 DEF WrapOK, Types
  <2>2. CASE wrap' = [sealed |-> TRUE, caps |-> Recorded]
    <3>1. wrap'.sealed /\ wrap'.caps = Recorded
      BY <2>2
    <3>2. \A c \in Recorded : card[c].ses
      BY DEF Recorded
    <3>3. ASSUME NEW c \in Cap, auto[c], card[c].ses PROVE c \in Recorded \/ card[c].st = "dropped"
      BY <1>1, <3>3 DEF Recorded, AutoOK
    <3> QED
      BY <1>1, <3>1, <3>2, <3>3 DEF WrapOK
  <2> QED
    BY <1>2, <2>1, <2>2
<1> QED
  BY <1>3, <1>4, <1>5, <1>6

\* What was in memory is gone: no upload is being taken in, no capture is open.
LEMMA StopsDoes ==
  ASSUME IInv, Stops
  PROVE  /\ server /\ ~server' /\ open' = {} /\ heard' = {}
         /\ UNCHANGED <<pages, session, stored, wrap, seen>>
         /\ events' \in 0..MaxEvents /\ stops' \in 0..MaxStops
         /\ up' \in Uploads
         /\ \A c \in Cap, g \in Gen : up'[c][g] \notin {"pin", "in"} /\ (up[c][g] = "no" => up'[c][g] = "no")
<1>1. /\ server /\ server' = FALSE /\ open' = {} /\ heard' = {}
      /\ UNCHANGED <<pages, session, stored, wrap, seen>> /\ events' = events
      /\ stops < MaxStops /\ stops' = stops + 1 /\ Types
  BY DEF Stops, IInv
<1>2. up' = [c \in Cap |-> [g \in Gen |-> IF up[c][g] \in {"pin", "in"} THEN "no" ELSE up[c][g]]]
  BY DEF Stops
<1>3. up' \in Uploads
  BY <1>1, <1>2 DEF Types, Uploads
<1>4. \A c \in Cap, g \in Gen :
        up'[c][g] \notin {"pin", "in"} /\ (up[c][g] = "no" => up'[c][g] = "no")
  BY <1>2
<1> QED
  BY <1>1, <1>3, <1>4, BoundAssumption DEF Types

\* What a stop of the server leaves of a page's capture is sound, whatever became of a
\* landing half-way.
LEMMA PagesStop ==
  ASSUME IInv, Stops, NEW c \in Cap, Has(c) => Has(c)' /\ card'[c].ses = card[c].ses,
         ~Has(c) => ~Has(c)' \/ (page[c] \notin {"no", "recording"} /\ (c \in told => ~card'[c].ses)),
         auto[c] => card'[c].st # "draft"
  PROVE  PageOK(c)' /\ AutoOK(c)'
<1>1. /\ server /\ ~server' /\ open' = {} /\ heard' = {}
      /\ UNCHANGED <<page, marked, auto, told, held, session, stored>>
      /\ \A g \in Gen : up'[c][g] \notin {"pin", "in"} /\ (up[c][g] = "no" => up'[c][g] = "no")
  BY StopsDoes DEF pages
<1>2. PageOK(c) /\ AutoOK(c)
  BY DEF IInv
<1>3. AutoOK(c)'
  BY <1>1, <1>2 DEF AutoOK
<1>4. PageOK(c)'
  BY <1>1, <1>2 DEF PageOK, Live
<1> QED
  BY <1>3, <1>4

\* Between any two writes of a step: what it wrote stays, the card is as it was.
LEMMA CrashKeeps ==
  ASSUME IInv, Crash
  PROVE  IInv'
<1>1. /\ Stops /\ UNCHANGED <<card, verdicts>> /\ log \subseteq log' /\ ledger \subseteq ledger'
  BY DEF Crash, Torn
<1>2. /\ ~server' /\ open' = {} /\ heard' = {} /\ UNCHANGED <<pages, session, stored, wrap, seen>>
      /\ events' \in 0..MaxEvents /\ stops' \in 0..MaxStops /\ up' \in Uploads /\ server' \in BOOLEAN
  BY <1>1, StopsDoes DEF Stops
<1>3. Types'
  BY <1>1, <1>2 DEF IInv, Types, pages
<1>4. \A c \in Cap : CardOK(c)' /\ Follows(c)' /\ Has(c)' = Has(c)
  BY <1>1, <1>2, CardStands DEF IInv, Follows, Has, pages
<1>5. ASSUME NEW c \in Cap PROVE PageOK(c)' /\ AutoOK(c)'
  <2>1. Has(c)' = Has(c) /\ card'[c].ses = card[c].ses
    BY <1>1, <1>4
  <2>2. auto[c] => card'[c].st # "draft"
    BY <1>1 DEF IInv, AutoOK
  <2>3. /\ Has(c) => Has(c)' /\ card'[c].ses = card[c].ses
        /\ ~Has(c) => ~Has(c)' \/ (page[c] \notin {"no", "recording"} /\ (c \in told => ~card'[c].ses))
    BY <2>1 DEF Has
  <2> QED
    BY <1>1, <2>2, <2>3, PagesStop, Zenon
<1>6. WrapOK'
  BY <1>1, <1>2 DEF IInv, WrapOK, pages
<1> QED
  BY <1>3, <1>4, <1>5, <1>6 DEF IInv

\* Or of the step an upload's turn begins and ends: its card is being confirmed.
LEMMA CrashLandingKeeps ==
  ASSUME IInv, NEW c \in Cap, CrashLanding(c)
  PROVE  IInv'
<1> DEFINE n == [Draft(c) EXCEPT !.st = "confirming", !.pend = "queued", !.rev = 2]
<1>1. /\ Stops /\ ~Has(c) /\ verdicts' = verdicts /\ card' = Added(c, n)
  BY DEF CrashLanding
<1>2. log \subseteq log' /\ ledger \subseteq ledger'
  BY DEF CrashLanding
<1>3. PICK g \in Gen : up[c][g] = "pin"
  BY DEF CrashLanding
<1>4. IsFresh(c, n, "confirming", 2, "queued") /\ Types
  BY DraftIs DEF IInv
<1> HIDE DEF n
<1>5. /\ ~server' /\ open' = {} /\ heard' = {} /\ UNCHANGED <<pages, session, stored, wrap, seen>>
      /\ events' \in 0..MaxEvents /\ stops' \in 0..MaxStops /\ up' \in Uploads /\ server' \in BOOLEAN
      /\ UNCHANGED <<about, auto, told, page>>
  BY <1>1, StopsDoes DEF Stops, pages
<1>6. c \in stored /\ page[c] \notin {"no", "recording"}
  BY <1>3 DEF IInv, PageOK
<1>7. card' = Made(c, n, {}) /\ verdicts' = Judged({})
  BY <1>1, <1>4 DEF Made, Judged, Added, Types
<1>8. /\ card' \in [Cap -> CardRec] /\ verdicts' \in [Cap -> Nat] /\ card'[c] = n
      /\ \A d \in Cap : CardOK(d)' /\ (d # c => Moves(d))
  BY <1>1, <1>2, <1>4, <1>5, <1>6, <1>7, CardMade
<1>9. card'[c].rev > 0 /\ card'[c].ses = InSession(c) /\ card'[c].st = "confirming"
  BY <1>4, <1>8 DEF IsFresh
<1>10. /\ \A d \in Cap : Follows(d)' /\ Kept(d)
       /\ WrapOK'
       /\ Has(c)' /\ \A d \in Cap \ {c} : Has(d)' = Has(d)
  BY <1>1, <1>5, <1>8, <1>9, MadeStands
<1>11. Types'
  BY <1>4, <1>5, <1>8 DEF Types, pages
<1>12. PageOK(c)' /\ AutoOK(c)'
  <2>1. c \in told => ~card'[c].ses
    BY <1>1, <1>9 DEF IInv, PageOK, InSession
  <2> QED
    BY <1>1, <1>6, <1>9, <2>1, PagesStop
<1>13. ASSUME NEW d \in Cap \ {c} PROVE PageOK(d)' /\ AutoOK(d)'
  <2>1. Moves(d) /\ AutoOK(d) /\ Has(d)' = Has(d)
    BY <1>8, <1>10 DEF IInv
  <2>2. Has(d) => card'[d].ses = card[d].ses
    BY <2>1 DEF Moves
  <2>3. auto[d] => card'[d].st # "draft"
    BY <2>1 DEF Moves, AutoOK
  <2>4. /\ Has(d) => Has(d)' /\ card'[d].ses = card[d].ses
        /\ ~Has(d) => ~Has(d)' \/ (page[d] \notin {"no", "recording"} /\ (d \in told => ~card'[d].ses))
    BY <2>1, <2>2 DEF Has
  <2> QED
    BY <1>1, <2>3, <2>4, PagesStop, Zenon
<1> QED
  BY <1>8, <1>10, <1>11, <1>12, <1>13 DEF IInv

\* The server runs again when no step is pending: none is then being confirmed.
LEMMA BootKeeps ==
  ASSUME IInv, Boot
  PROVE  IInv'
<1> USE DEF Calm, memory, pages
<1>1. CASE Pending = {}
  <2>1. /\ server' = TRUE /\ UNCHANGED <<card, log, ledger, verdicts, open, heard, pages, up, session,
                                         stored, wrap, seen, events, stops>>
    BY <1>1 DEF Boot
  <2>2. Types'
    BY <2>1 DEF IInv, Types
  <2>3. \A c \in Cap : card[c].pend = "no"
    BY <1>1 DEF Pending
  <2>4. \A c \in Cap : CardOK(c)' /\ Follows(c)' /\ Has(c)' = Has(c)
    BY <2>1, CardStands DEF IInv, Follows, Has
  <2>5. \A c \in Cap : AutoOK(c)'
    BY <2>1, <2>3 DEF IInv, AutoOK, CardOK, Has
  <2>6. \A c \in Cap : PageOK(c)'
    BY <2>1 DEF IInv, PageOK, Has, Live
  <2>7. WrapOK'
    BY <2>1 DEF IInv, WrapOK
  <2> QED
    BY <2>2, <2>4, <2>5, <2>6, <2>7 DEF IInv
<1>2. CASE Pending # {}
  <2>1. PICK c \in Cap : card[c].pend # "no" /\ WritesStep(c)
    BY <1>2 DEF Boot, Pending
  <2>2. UNCHANGED <<pages, up, memory, session, stored, wrap, seen, events, stops>>
    BY <1>2 DEF Boot
  <2> QED
    BY <2>1, <2>2, StepKeeps
<1> QED
  BY <1>1, <1>2

-----------------------------------------------------------------------------
\* Every step keeps the invariant.
LEMMA Inductive == IInv /\ [Next]_vars => IInv'
<1> SUFFICES ASSUME IInv, [Next]_vars PROVE IInv'
  OBVIOUS
<1>1. CASE UNCHANGED vars
  <2>1. UNCHANGED <<page, gen, marked, auto, about, told, held, up, server, open, heard, session, stored,
                    card, log, ledger, wrap, seen, verdicts, events, stops>>
    BY <1>1 DEF vars, pages, memory, disk
  <2>2. Types' /\ WrapOK'
    BY <2>1 DEF IInv, Types, WrapOK
  <2>3. \A c \in Cap : CardOK(c)' /\ Follows(c)' /\ PageOK(c)' /\ AutoOK(c)'
    BY <2>1, CardStands DEF IInv, Follows, PageOK, AutoOK, Has, Live
  <2> QED
    BY <2>2, <2>3 DEF IInv
<1>2. ASSUME NEW c \in Cap, Tab(c) \/ Expires(c) \/ FinishStep(c) \/ Runs(c) \/ CrashLanding(c)
      PROVE  IInv'
  BY <1>2, TabKeeps, FinishKeeps, RunKeeps, CrashLandingKeeps
<1>3. ASSUME NEW c \in Cap, NEW g \in Gen, Upload(c, g) PROVE IInv'
  BY <1>3, TakeInKeeps, LandKeeps DEF Upload
<1>4. ASSUME NEW c \in Cap, NEW r \in 1..MaxRev, Person(c, r) PROVE IInv'
  BY <1>4, PersonKeeps
<1>5. CASE SealRecord \/ EndSession \/ Crash \/ Boot
  BY <1>5, SessionKeeps, CrashKeeps, BootKeeps
<1> QED
  BY <1>1, <1>2, <1>3, <1>4, <1>5 DEF Next

\* The invariant holds in every state that can be reached.
LEMMA InvariantHolds == Spec => []IInv
  BY Initially, Inductive, PTL DEF Spec

-----------------------------------------------------------------------------
(* What holds *)

LEMMA TypeOKKept == IInv => TypeOK
<1> SUFFICES ASSUME IInv PROVE TypeOK
  OBVIOUS
<1> USE DEF IInv
<1>1. held \subseteq {c \in Cap : Live(c)}
  BY DEF Types, PageOK
<1>2. Landing # {} => server
  BY DEF Landing, PageOK
<1>3. wrap.sealed => ~session
  BY DEF WrapOK
<1>4. ASSUME NEW c \in Cap
      PROVE  /\ card[c].st \in States /\ card[c].words <= card[c].rev
             /\ card[c].pend = "no" <=> card[c].st # "confirming" /\ (card[c].st # "review" \/ verdicts[c] = 0)
  <2>1. card[c] \in CardRec /\ CardOK(c)
    BY DEF Types
  <2>2. card[c].st \in States /\ card[c].pend \in {"no", "queued", "kept", "more"}
    BY <2>1 DEF CardRec
  <2> QED
    BY <2>1, <2>2 DEF CardOK
<1>5. told \cup held \cup open \cup heard \cup stored \cup wrap.caps \subseteq Cap
  BY DEF Types
<1> QED
  BY <1>1, <1>2, <1>3, <1>4, <1>5 DEF TypeOK, Types, Uploads

(* What JamCaptures keeps of a page, an upload, a card and the record has   *)
(* the shape TypeOK says (jam-capture.ts, daemon.ts, queue.ts, session.ts). *)
THEOREM TypesHold == Spec => []TypeOK
  BY InvariantHolds, TypeOKKept, PTL

(* beginStep, finishIn, recover, landCapture: a capture that was sent is    *)
(* bound to the comment and the words it was confirmed with, and to every   *)
(* ask of More work, whatever step a crash cut: claim refuses none of them. *)
THEOREM BoundWordsHolds == Spec => []BoundWords
<1>1. IInv => BoundWords
  BY DEF IInv, CardOK, BoundWords
<1> QED
  BY <1>1, InvariantHolds, PTL

(* good, moreWork, endStep: however many tabs decide on a run, and a        *)
(* capture of its review among them, it is decided once.                    *)
THEOREM DecidedOnceHolds == Spec => []DecidedOnce
<1>1. IInv => DecidedOnce
  BY DEF IInv, CardOK, DecidedOnce
<1> QED
  BY <1>1, InvariantHolds, PTL

(* confirm: what is sent was seen as it is sent by who sent it.             *)
THEOREM WordsAsSeenHolds == Spec => []WordsAsSeen
<1>1. IInv => WordsAsSeen
  BY DEF IInv, CardOK, WordsAsSeen
<1> QED
  BY <1>1, InvariantHolds, PTL

(* capture, captureOpen: a page that forgets its capture leaves it stored,  *)
(* with a card, and what it was told of the session is so.                  *)
THEOREM AccountedHolds == Spec => []Accounted
<1>1. IInv => Accounted
  <2> SUFFICES ASSUME IInv, NEW c \in Cap
               PROVE  /\ page[c] = "landed" => c \in stored /\ Has(c) /\ (marked[c] => c \in told \/ card[c].ses)
                      /\ c \in told => ~card[c].ses /\ c \notin wrap.caps
    BY DEF Accounted
  <2>1. PageOK(c) /\ CardOK(c) /\ WrapOK
    BY DEF IInv
  <2>2. ~Has(c) => ~card[c].ses
    BY NoCardTyped DEF Has
  <2> QED
    BY <2>1, <2>2 DEF PageOK, CardOK, WrapOK
<1> QED
  BY <1>1, InvariantHolds, PTL

(* wrapup, landCapture, recover: the record of a session holds every        *)
(* capture ended with E that landed in it, unless it was dropped.           *)
THEOREM InRecordHolds == Spec => []InRecord
<1>1. IInv => InRecord
  BY DEF IInv, WrapOK, InRecord
<1> QED
  BY <1>1, InvariantHolds, PTL

\* Only wrapup makes the record.
LEMMA SealsRecord ==
  ASSUME [Next]_vars, wrap' # wrap
  PROVE  SealRecord
<1> USE DEF memory, disk, pages, SameCard
<1>1. ASSUME NEW c \in Cap, Tab(c) \/ Expires(c) \/ FinishStep(c) PROVE FALSE
  BY <1>1, BeginsDoes, Zenon DEF Tab, Ends, Drops, Leaves, PageCrashes, Opens, Posts, Registers, Expires, FinishStep
<1>2. ASSUME NEW c \in Cap, Runs(c) \/ CrashLanding(c) PROVE FALSE
  BY <1>2, Zenon DEF Runs, CrashLanding, Stops
<1>3. ASSUME NEW c \in Cap, NEW g \in Gen, Upload(c, g) PROVE FALSE
  BY <1>3, Zenon DEF Upload, TakeIn, Land
<1>4. ASSUME NEW c \in Cap, NEW r \in 1..MaxRev, Person(c, r) PROVE FALSE
  BY <1>4, Zenon DEF Person, Act, Confirm, More, Good
<1>5. CASE EndSession \/ Crash \/ Boot
  BY <1>5, Zenon DEF EndSession, Crash, Stops, Boot
<1> QED
  BY <1>1, <1>2, <1>3, <1>4, <1>5, Zenon DEF Next, vars

(* wrapup, openFor: the record waits for every capture of the session a     *)
(* page holds and whose hold on the server has not lapsed, and for one      *)
(* being taken in.                                                          *)
THEOREM RecordWaitsHolds == Spec => RecordWaits
<1>1. IInv /\ [Next]_vars =>
        [wrap' # wrap => \A c \in Cap : marked[c] /\ (c \in Landing \/ c \in heard \cap held) => Has(c)]_vars
  <2> SUFFICES ASSUME IInv, [Next]_vars, wrap' # wrap, NEW c \in Cap, marked[c],
                      c \in Landing \/ c \in heard \cap held
               PROVE  Has(c)
    OBVIOUS
  <2>1. ~OpenFor
    BY SealsRecord DEF SealRecord
  <2>2. open = {} /\ c \notin Landing
    BY <2>1 DEF OpenFor
  <2> QED
    BY <2>2 DEF IInv, PageOK, Live
<1> QED
  BY <1>1, InvariantHolds, PTL DEF Spec, RecordWaits
=============================================================================
