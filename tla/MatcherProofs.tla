--------------------------- MODULE MatcherProofs ----------------------------
(***************************************************************************)
(* What holds of the matcher for any players, connections and attempts.    *)
(*                                                                         *)
(* Every step does to an attempt what one step of its life may do to it,   *)
(* so that what relates the parts of one attempt is proved on single       *)
(* attempts: its lease, its bots, its room and its publication. What the   *)
(* entries, the queue and the attempts have to do with one another is      *)
(* proved step by step over them (MatcherInv), and from it what becomes of *)
(* the cancelled ones and of a matcher that lets nobody in. Then the seats *)
(* are followed from connection to connection, together with what the      *)
(* sessions and the reconnects of their players know of them (SeatsInv).   *)
(*                                                                         *)
(* Last, nobody is left waiting. A client that waits hopes: it was told    *)
(* that it is queued, its link is open and nobody replaced it. That hope   *)
(* is promised something (Promised): a request that is not over, a notice, *)
(* or the news of its room. This follows the connections, then what an     *)
(* attempt has still to say and to whom, then the promises through every   *)
(* step.                                                                   *)
(***************************************************************************)
EXTENDS Matcher, TLAPS, FiniteSetTheorems, SequenceTheorems, WellFoundedInduction

-----------------------------------------------------------------------------
(* The life of an attempt                                                  *)

ListedStages == {"frozen", "assemble", "commit", "ready", "settle",
                 "rollback", "notify", "release"}
LiveStates == {"waiting", "ready", "playing"}

AttemptRecord ==
  [stage : ListedStages \cup {"unused", "publish", "register", "start", "withdraw", "done"},
   humans : Seq(Handles), bots : {"none", "open", "closed"},
   launched : BOOLEAN, stopped : BOOLEAN, excused : Players \cup {Nobody},
   step : Nat, room : LiveStates \cup {"none", "dropped", "gone"},
   left : SUBSET Handles, mine : BOOLEAN, published : BOOLEAN,
   lease : {"none", "held", "session"}]

\* The worker's loop is at one of its humans.
AttemptType ==
  { x \in AttemptRecord : x.humans = << >> \/ x.step \in 1..Len(x.humans) }

\* What belongs to the attempt beside its stage.
SameGoods(x, y) ==
  y.humans = x.humans /\ y.bots = x.bots /\ y.room = x.room /\ y.published = x.published /\ y.lease = x.lease

\* A cancelled attempt stays so until it is over.
StaysStopped(x, y) ==
  IF x.stage \in ListedStages THEN x.stopped => y.stopped ELSE y.stopped => x.stopped

\* Cancelled, launched, or at its next human.
Marked(x, y) == y.stage = x.stage /\ SameGoods(x, y) /\ StaysStopped(x, y)

Begins(x, y) ==
  /\ x.stage = "unused" /\ y.stage = "frozen" /\ y.humans # << >> /\ ~y.stopped /\ ~y.published
  /\ y.bots \in {"none", "open"} /\ y.room = "none" /\ y.lease = "none"

TakesLease(x, y) ==
  /\ mode = "normal" /\ x.stage = "frozen" /\ y.stage = "assemble"
  /\ y.bots = x.bots /\ y.room = x.room /\ y.published = x.published /\ y.lease = "held"
  /\ y.stopped = x.stopped /\ y.humans = x.humans

\* The worker has looked at the connections of its humans, and at their seats.
Validated(x) ==
  /\ UNCHANGED connections
  /\ \E a \in Attempts : x = att[a] /\ Valid(a) /\ (x.stage = "ready" => Members(a) = Humans(a))

\* The stages of a match, none of which a cancelled attempt goes through.
Proceeds(x, y) ==
  /\ ~x.stopped /\ ~y.stopped /\ y.humans = x.humans
  /\ y.bots = x.bots /\ y.lease = x.lease
  /\ \/ /\ x.stage = "assemble" /\ y.stage = "commit" /\ Validated(x)
        /\ y.room = x.room /\ y.published = x.published
     \/ /\ x.stage = "commit" /\ y.stage = "ready"
        /\ y.room = "waiting" /\ y.published = x.published
     \/ /\ x.stage = "ready" /\ x.room = "waiting" /\ y.stage = "settle" /\ Validated(x)
        /\ y.room = "ready" /\ y.published = x.published
     \/ /\ x.stage = "settle" /\ x.room \in LiveStates /\ y.stage = "publish"
        /\ y.room = x.room /\ y.published

Fails(x, y) ==
  /\ x.stage \in {"frozen", "assemble", "commit", "ready", "settle"}
  /\ y.stage = "rollback" /\ y.stopped /\ SameGoods(x, y)

Published(x, y) ==
  \/ x.stage = "publish" /\ y.stage \in {"publish", "register"} /\ SameGoods(x, y)
  \/ /\ x.stage = "register" /\ y.stage = "start" /\ y.lease = "session"
     /\ y.bots = x.bots /\ y.room = x.room /\ y.published = x.published

Dropped(x, y) ==
  y.room = (IF x.room \in LiveStates THEN "dropped" ELSE x.room) /\ y.bots = x.bots
    /\ y.lease = x.lease /\ y.humans = x.humans

Withdrawn(x, y) ==
  /\ x.stage \in {"publish", "register"} /\ y.stage = "withdraw" /\ Dropped(x, y)
RollsBack(x, y) ==
  /\ x.stage = "rollback" /\ y.stage = "notify" /\ Dropped(x, y)
  /\ y.published = x.published /\ y.stopped = x.stopped
Notifies(x, y) ==
  /\ x.stage = "notify" /\ y.stage \in {"notify", "release"} /\ SameGoods(x, y)
  /\ y.stopped = x.stopped

\* What is left of an attempt that is over, with this room and lease.
Ends(y, bots, roomState, lease) ==
  \/ /\ y.stage = "done" /\ y.bots = bots /\ y.room = roomState /\ y.lease = lease
  \/ /\ y.stage = "unused" /\ y.bots = "none" /\ y.room = "none" /\ y.lease = "none"
     /\ ~y.published /\ ~y.stopped /\ roomState \in {"none", "gone"}

Plays(x, y) ==
  x.stage = "start" /\ x.room \in LiveStates /\ Ends(y, x.bots, "playing", x.lease)
EndsWithout(x, y) ==
  x.stage \in {"start", "withdraw"} /\ Ends(y, x.bots, x.room, "none")
Releases(x, y) ==
  /\ x.stage = "release" /\ (y.published => x.published)
  /\ Ends(y, IF x.room = "none" /\ x.bots = "open" THEN "closed" ELSE x.bots, x.room, "none")

\* Its room: dropped by whoever leaves, removed, reopened after the game.
LosesRoom(x, y) ==
  /\ x.room \in LiveStates /\ y.room = "dropped" /\ y.stage = x.stage
  /\ y.humans = x.humans /\ y.bots = x.bots
  /\ y.lease = x.lease /\ y.stopped = x.stopped /\ (y.published => x.published)
Unpublished(x, y) ==
  /\ x.room \notin LiveStates /\ ~y.published /\ y.stage = x.stage
  /\ y.humans = x.humans /\ y.bots = x.bots
  /\ y.room = x.room /\ y.lease = x.lease /\ y.stopped = x.stopped
IsRemoved(x, y) ==
  LET bots  == IF x.bots = "open" THEN "closed" ELSE x.bots
      lease == IF x.lease = "session" THEN "none" ELSE x.lease
  IN /\ x.room = "dropped"
     /\ \/ /\ y.stage = x.stage /\ y.bots = bots /\ y.room = "gone" /\ y.lease = lease
           /\ ~y.published /\ StaysStopped(x, y) /\ y.humans = x.humans
        \/ x.stage = "done" /\ Ends(y, bots, "gone", lease)
Reopens(x, y) ==
  /\ x.room = "playing" /\ y.room = "waiting" /\ y.lease = "none" /\ y.stage = x.stage
  /\ y.humans = x.humans /\ y.bots = x.bots /\ y.published = x.published /\ y.stopped = x.stopped

Evolves(x, y) ==
  \/ Marked(x, y) \/ Begins(x, y) \/ TakesLease(x, y) \/ Proceeds(x, y) \/ Fails(x, y)
  \/ Published(x, y) \/ Withdrawn(x, y) \/ RollsBack(x, y) \/ Notifies(x, y)
  \/ Plays(x, y) \/ EndsWithout(x, y) \/ Releases(x, y)
  \/ LosesRoom(x, y) \/ Unpublished(x, y) \/ IsRemoved(x, y) \/ Reopens(x, y)

AttemptsTyped == att \in [Attempts -> AttemptType]
\* Whoever drops a room unbinds everybody from it.
Empties(a) == \A h \in Handles : room'[h] # a
GoesOn(a, y) ==
  Evolves(att[a], y) /\ (y.room = "dropped" => att[a].room = "dropped" \/ Empties(a))
EveryAttemptEvolves == AttemptsTyped' /\ \A a \in Attempts : GoesOn(a, att'[a])

-----------------------------------------------------------------------------
(* What its parts have to do with one another                              *)

AttInv(x) ==
  /\ x.stage = "unused" => /\ x.bots = "none" /\ x.room = "none" /\ x.lease = "none"
                           /\ ~x.published /\ ~x.stopped
  /\ x.stage \in ListedStages => ~x.published /\ x.humans # << >>
  /\ x.stage \in {"rollback", "notify", "release"} => x.stopped
  /\ x.stage \in {"frozen", "assemble", "commit"} => x.room = "none"
  /\ x.stage = "frozen" => x.lease = "none"
  /\ x.stage \in {"assemble", "commit", "ready", "settle", "publish", "register"}
       => x.lease = "held"
  /\ x.stage = "start" /\ x.room # "gone" => x.lease = "session"
  /\ x.room = "playing" => x.stage = "done" /\ x.lease = "session"
  /\ x.stage = "done" => x.lease # "held"
  /\ x.stage = "done" /\ x.lease # "none" => x.room \in {"playing", "dropped"}
  /\ x.room = "gone" => x.bots # "open"
  /\ x.stage \in {"publish", "register", "start", "withdraw"} => x.room # "none"
  /\ x.stage = "done" /\ x.room = "none" => x.bots # "open"
  /\ x.bots = "closed" => x.room = "gone" \/ (x.room = "none" /\ x.stage = "done")

LEMMA EvolvesKeeps ==
  ASSUME NEW x \in AttemptType, NEW y \in AttemptType, AttInv(x), Evolves(x, y)
  PROVE  AttInv(y)
<1>1. CASE Marked(x, y)
  BY <1>1 DEF Marked, SameGoods, StaysStopped, AttInv, ListedStages
<1>2. CASE Begins(x, y)
  BY <1>2 DEF Begins, AttInv, ListedStages
<1>3. CASE TakesLease(x, y)
  BY <1>3 DEF TakesLease, AttInv, ListedStages
<1>4. CASE Proceeds(x, y)
  BY <1>4 DEF Proceeds, AttInv, ListedStages, LiveStates
<1>5. CASE Fails(x, y)
  BY <1>5 DEF Fails, SameGoods, AttInv, ListedStages
<1>6. CASE Published(x, y)
  BY <1>6 DEF Published, SameGoods, AttInv, ListedStages
<1>7. CASE Withdrawn(x, y)
  BY <1>7 DEF Withdrawn, Dropped, AttInv, ListedStages, LiveStates
<1>8. CASE RollsBack(x, y)
  BY <1>8 DEF RollsBack, Dropped, AttInv, ListedStages, LiveStates
<1>9. CASE Notifies(x, y)
  BY <1>9 DEF Notifies, SameGoods, AttInv, ListedStages
<1>10. CASE Plays(x, y)
  BY <1>10 DEF Plays, Ends, AttInv, ListedStages, LiveStates
<1>11. CASE EndsWithout(x, y)
  BY <1>11 DEF EndsWithout, Ends, AttInv, ListedStages
<1>12. CASE Releases(x, y)
  BY <1>12 DEF Releases, Ends, AttInv, ListedStages
<1>13. CASE LosesRoom(x, y)
  BY <1>13 DEF LosesRoom, AttInv, ListedStages, LiveStates
<1>14. CASE Unpublished(x, y)
  BY <1>14 DEF Unpublished, AttInv, ListedStages
<1>15. CASE IsRemoved(x, y)
 <2>1. x.lease = "session" \/ x.lease = "held" \/ x.lease = "none"
   BY DEF AttemptType, AttemptRecord
 <2>2. CASE y.stage = x.stage /\ StaysStopped(x, y)
   BY <1>15, <2>1, <2>2 DEF IsRemoved, StaysStopped, Ends, AttInv, ListedStages
 <2>3. CASE x.stage = "done"
   BY <1>15, <2>1, <2>3 DEF IsRemoved, Ends, AttInv, ListedStages
 <2> QED BY <1>15, <2>2, <2>3 DEF IsRemoved
<1>16. CASE Reopens(x, y)
  BY <1>16 DEF Reopens, AttInv, ListedStages
<1> QED
  BY <1>1, <1>2, <1>3, <1>4, <1>5, <1>6, <1>7, <1>8, <1>9, <1>10, <1>11, <1>12,
<1>13, <1>14, <1>15, <1>16 DEF Evolves

LEMMA OneEvolves ==
  ASSUME AttemptsTyped, NEW a \in Attempts, NEW y \in AttemptType,
         GoesOn(a, y), att' = [att EXCEPT ![a] = y]
  PROVE  EveryAttemptEvolves
<1>1. AttemptsTyped'
  BY DEF AttemptsTyped
<1>2. ASSUME NEW b \in Attempts PROVE GoesOn(b, att'[b])
 <2>1. CASE b = a
   BY <2>1 DEF AttemptsTyped
 <2>2. CASE b # a
  <3>1. att'[b] = att[b]
    BY <2>2 DEF AttemptsTyped
  <3>2. Marked(att[b], att[b])
    BY DEF Marked, SameGoods, StaysStopped
  <3> QED BY <3>1, <3>2 DEF Evolves, GoesOn
 <2> QED BY <2>1, <2>2
<1> QED BY <1>1, <1>2 DEF EveryAttemptEvolves

LEMMA NoneEvolves ==
  ASSUME AttemptsTyped, UNCHANGED att
  PROVE  EveryAttemptEvolves
<1>1. \A a \in Attempts : Marked(att[a], att'[a])
  BY DEF Marked, SameGoods, StaysStopped
<1>2. \A a \in Attempts : GoesOn(a, att'[a])
  BY <1>1 DEF GoesOn, Evolves
<1> QED BY <1>2 DEF EveryAttemptEvolves, AttemptsTyped

LEMMA StoppedIsMarked ==
  ASSUME NEW x \in AttemptType, x.stage \in ListedStages, NEW by \in Players \cup {Nobody}
  PROVE  /\ Stopped(x, by) \in AttemptType /\ Marked(x, Stopped(x, by))
         /\ Stopped(x, by).stopped /\ Stopped(x, by).humans = x.humans
         /\ Stopped(x, by).step = x.step /\ Stopped(x, by).launched = x.launched
<1>1. x \in AttemptRecord
  BY DEF AttemptType
<1>2. CASE x.stopped
  BY <1>2 DEF Stopped, Marked, SameGoods, StaysStopped
<1>3. CASE ~x.stopped
 <2>1. Stopped(x, by) = [x EXCEPT !.stopped = TRUE, !.excused = by]
   BY <1>3 DEF Stopped
 <2>2. PICK y : y = [x EXCEPT !.stopped = TRUE, !.excused = by]
   OBVIOUS
 <2>3. /\ y \in AttemptRecord /\ y.stage = x.stage /\ SameGoods(x, y) /\ y.stopped
       /\ y.humans = x.humans /\ y.step = x.step /\ y.launched = x.launched
   BY <1>1, <2>2 DEF AttemptRecord, SameGoods
 <2> QED BY <2>1, <2>2, <2>3 DEF AttemptType, Marked, StaysStopped
<1> QED BY <1>2, <1>3

LEMMA OverEnds ==
  ASSUME NEW x \in AttemptType, x.stage = "done"
  PROVE  /\ Over(x) \in AttemptType /\ Ends(Over(x), x.bots, x.room, x.lease)
         /\ Over(x).published => x.published
<1>1. x \in AttemptRecord
  BY DEF AttemptType
<1>2. CASE x.room \in {"none", "gone"} /\ x.bots # "open" /\ x.lease = "none"
 <2>1. Over(x) = Unused
   BY <1>2 DEF Over
 <2>2. << >> \in Seq(Handles)
   OBVIOUS
 <2>3. Unused \in AttemptType
   BY <2>2 DEF Unused, AttemptType, AttemptRecord, Nobody
 <2> QED BY <1>2, <2>1, <2>3 DEF Ends, Unused
<1>3. CASE ~(x.room \in {"none", "gone"} /\ x.bots # "open" /\ x.lease = "none")
 <2>1. PICK y : y = [x EXCEPT !.humans = << >>, !.launched = FALSE, !.stopped = FALSE,
                              !.excused = Nobody, !.step = 1]
   OBVIOUS
 <2>2. Over(x) = y
   BY <1>3, <2>1 DEF Over
 <2>3. << >> \in Seq(Handles)
   OBVIOUS
 <2>4. /\ y \in AttemptRecord /\ y.humans = << >> /\ y.stage = x.stage
       /\ y.bots = x.bots /\ y.room = x.room /\ y.lease = x.lease
       /\ y.published = x.published
   BY <1>1, <2>1, <2>3 DEF AttemptRecord
 <2> QED BY <2>2, <2>4 DEF AttemptType, Ends
<1> QED BY <1>2, <1>3

LEMMA AttemptsNat == /\ MaxAttempts \in Nat /\ 0 \notin Attempts
                     /\ \A a \in Attempts : a \in Nat /\ a \in 0..MaxAttempts
                     /\ \A n \in 0..MaxAttempts : n # 0 => n \in Attempts
BY MatcherAssumption DEF Attempts

\* A room that is dropped, by a worker or by somebody else.
LEMMA DropSets ==
  ASSUME AttemptsTyped, NEW a \in Attempts, NEW x \in AttemptType, NEW byWorker \in BOOLEAN,
         Drop(a, x, byWorker)
  PROVE  \E y \in AttemptType :
           /\ att' = [att EXCEPT ![a] = y] /\ y.room = "dropped"
           /\ y.stage = x.stage /\ y.bots = x.bots /\ y.published = x.published
           /\ y.lease = x.lease /\ y.stopped = x.stopped /\ y.humans = x.humans
           /\ Empties(a)
<1>1. PICK y : y = [x EXCEPT !.room = "dropped", !.mine = byWorker, !.left = Members(a)]
  OBVIOUS
<1>2. att' = [att EXCEPT ![a] = y]
  BY <1>1 DEF Drop
<1>3. Members(a) \in SUBSET Handles
  BY DEF Members
<1>4. /\ y \in AttemptType /\ y.room = "dropped"
      /\ y.stage = x.stage /\ y.bots = x.bots /\ y.published = x.published
      /\ y.lease = x.lease /\ y.stopped = x.stopped /\ y.humans = x.humans
  BY <1>1, <1>3 DEF AttemptType, AttemptRecord
<1>5. Empties(a)
  BY AttemptsNat DEF Drop, Empties
<1> QED BY <1>2, <1>4, <1>5

-----------------------------------------------------------------------------
(* What is reserved: the entries, the queue and the attempts               *)

EntryRecord == [client : Nat, state : {"none", "queued", "inflight", "rolledback"},
                attempt : 0..MaxAttempts]
RequestsTyped ==
  /\ entry \in [Players -> EntryRecord] /\ \A p \in Players : entry[p].client \in 0..Links[p]
  /\ queue \in Seq(Players)

IsIn(p, q) == \E i \in 1..Len(q) : q[i] = p
Distinct(q) == \A i, j \in 1..Len(q) : q[i] = q[j] => i = j

\* An entry by itself, and with the queue.
EntryFits(e) ==
  /\ e.state = "none" => e = NoEntry
  /\ e.state # "none" => e.client # 0
  /\ e.state = "queued" => e.attempt = 0
  /\ e.state = "inflight" => e.attempt # 0
EntriesFit ==
  /\ \A p \in Players : EntryFits(entry[p])
  /\ \A p \in Players : entry[p].state = "queued" <=> IsIn(p, queue)
  /\ Distinct(queue)

\* A player's entry and an attempt: the attempt that an entry names is listed
\* and has the player among its humans, and a listed attempt has the entries of
\* all of them.
Serves(p, a) ==
  /\ entry[p].attempt = a => /\ att[a].stage \in ListedStages
                             /\ << p, entry[p].client >> \in Humans(a)
                             /\ entry[p].state = "inflight" => ~att[a].stopped
  /\ att[a].stage \in ListedStages =>
       \A n \in Nat : << p, n >> \in Humans(a) => entry[p].attempt = a /\ entry[p].client = n
AttemptsServe == \A p \in Players, a \in Attempts : Serves(p, a)

\* Nobody is queued, and whoever is still to be notified has no entry, while
\* the operator does not let anybody in.
OperatorFits ==
  /\ mode = "draining" \/ closed => queue = << >>
  /\ \A h \in notices : h \in Handles /\ entry[h[1]] = NoEntry /\ (mode = "draining" \/ closed)

\* Handles, and what is bound to them.
RejoinRecord == [step : {"none", "rebound", "seated", "migrated"}, gen : Nat,
                 room : 0..Elsewhere, previous : Nat]
HandlesTyped ==
  /\ mode \in {"normal", "draining"} /\ closed \in BOOLEAN /\ notices \in SUBSET Handles
  /\ conn \in [Players -> Nat] /\ \A p \in Players : conn[p] \in 0..Links[p]
  /\ link \in [Handles -> {"unborn", "open", "closed", "leaving", "offline", "gone"}]
  /\ doing \in [Handles -> {"idle", "publish", "sending"}]
  /\ room \in [Handles -> 0..Former]
  /\ told \in [Handles -> {"nothing", "queued", "stale"}]
  /\ rejoin \in [Players -> RejoinRecord] /\ fill \in {"off", "armed", "claimed"}
  /\ \A p \in Players : rejoin[p].step # "none" =>
       rejoin[p].gen \in 1..Links[p] /\ rejoin[p].previous \in 0..Links[p]

LEMMA Handle ==
  ASSUME NEW h \in Handles
  PROVE  /\ h[1] \in Players /\ h[2] \in 1..Links[h[1]] /\ h = << h[1], h[2] >>
         /\ h[2] \in Nat /\ h[2] # 0
<1>1. PICK p \in Players : h \in {p} \X (1..Links[p])
  BY DEF Handles
<1>2. Links[p] \in Nat
  BY MatcherAssumption
<1> QED BY <1>1, <1>2

LEMMA HandleIs ==
  ASSUME NEW p \in Players, NEW n \in 1..Links[p]
  PROVE  << p, n >> \in Handles
BY DEF Handles

LEMMA LinksNat == \A p \in Players : Links[p] \in Nat
BY MatcherAssumption

LEMMA Least ==
  ASSUME NEW T \in SUBSET Nat, T # {}
  PROVE  \E x \in T : \A y \in T : x <= y
<1> DEFINE R == OpToRel(<, Nat)
<1>1. IsWellFoundedOn(R, Nat)
  BY NatLessThanWellFounded
<1>2. \A x, y \in Nat : << x, y >> \in R <=> x < y
  BY DEF OpToRel
<1> HIDE DEF R
<1>3. \E x \in T : \A y \in T : ~(<< y, x >> \in R)
  BY <1>1, WFMin, Zenon
<1>4. ASSUME NEW x \in T, \A y \in T : ~(<< y, x >> \in R) PROVE \A y \in T : x <= y
 <2> TAKE y \in T
 <2>1. x \in Nat /\ y \in Nat /\ ~(<< y, x >> \in R)
   BY <1>4
 <2>2. ~(y < x)
   BY <1>2, <2>1
 <2> QED BY <2>1, <2>2
<1> QED BY <1>3, <1>4

\* newAttemptLocked takes a number that is free.
LEMMA NextIsFree ==
  ASSUME Free # {}
  PROVE  NextAttempt \in Attempts /\ att[NextAttempt].stage = "unused"
<1>1. Free \in SUBSET Nat
  BY AttemptsNat DEF Free
<1>2. \E a \in Free : \A b \in Free : a <= b
  BY <1>1, Least
<1>3. NextAttempt \in Free
  BY <1>2 DEF NextAttempt
<1> QED BY <1>3 DEF Free

\* removeQueuedEntryLocked takes out that player, and nobody else.
LEMMA WithoutTakesOut ==
  ASSUME RequestsTyped, Distinct(queue), NEW p \in Players, IsIn(p, queue)
  PROVE  /\ WithoutPlayer(p) \in Seq(Players) /\ Distinct(WithoutPlayer(p))
         /\ \A c \in Players : IsIn(c, WithoutPlayer(p)) <=> IsIn(c, queue) /\ c # p
<1>1. queue \in Seq(Players) /\ Len(queue) \in Nat /\ DOMAIN queue = 1..Len(queue)
  BY DEF RequestsTyped
<1>2. PICK k : k = CHOOSE i \in DOMAIN queue : queue[i] = p
  OBVIOUS
<1>3. k \in 1..Len(queue) /\ queue[k] = p
  BY <1>1, <1>2 DEF IsIn
<1>4. PICK n \in Nat : n = Len(queue) - 1
 <2>1. Len(queue) - 1 \in Nat
   BY <1>1, <1>3
 <2> QED BY <2>1
<1>5. PICK q : q = [i \in 1..n |-> queue[IF i < k THEN i ELSE i + 1]]
  OBVIOUS
<1>6. WithoutPlayer(p) = q
  BY <1>1, <1>2, <1>4, <1>5 DEF WithoutPlayer
<1>7. \A i \in 1..n : (IF i < k THEN i ELSE i + 1) \in 1..Len(queue)
  BY <1>1, <1>3, <1>4
<1>8. \A i \in 1..Len(queue) : queue[i] \in Players
  BY <1>1
<1>9. \A i \in 1..n : q[i] \in Players
  BY <1>5, <1>7, <1>8
<1>10. q \in Seq(Players) /\ Len(q) = n
  BY <1>4, <1>5, <1>9
<1>11. Distinct(q)
 <2>1. ASSUME NEW i \in 1..n, NEW j \in 1..n, q[i] = q[j] PROVE i = j
  <3>1. PICK x \in 1..Len(queue) : x = (IF i < k THEN i ELSE i + 1)
    BY <1>7
  <3>2. PICK y \in 1..Len(queue) : y = (IF j < k THEN j ELSE j + 1)
    BY <1>7
  <3>3. queue[x] = queue[y]
    BY <1>5, <2>1, <3>1, <3>2
  <3>4. x = y
    BY <3>3 DEF Distinct
  <3> QED BY <1>1, <1>3, <1>4, <3>1, <3>2, <3>4
 <2> QED BY <1>10, <2>1 DEF Distinct
<1>12. ASSUME NEW c \in Players, IsIn(c, q) PROVE IsIn(c, queue) /\ c # p
 <2>1. PICK i \in 1..n : q[i] = c
   BY <1>10, <1>12 DEF IsIn
 <2>2. PICK x \in 1..Len(queue) : x = (IF i < k THEN i ELSE i + 1)
   BY <1>7
 <2>3. queue[x] = c /\ x # k
   BY <1>1, <1>3, <1>4, <1>5, <2>1, <2>2
 <2> QED BY <1>3, <2>3 DEF IsIn, Distinct
<1>13. ASSUME NEW c \in Players, IsIn(c, queue), c # p PROVE IsIn(c, q)
 <2>1. PICK x \in 1..Len(queue) : queue[x] = c
   BY <1>13 DEF IsIn
 <2>2. x # k
   BY <1>3, <1>13, <2>1
 <2>3. PICK i \in 1..n : i = (IF x < k THEN x ELSE x - 1)
   BY <1>1, <1>3, <1>4, <2>2
 <2>4. x = (IF i < k THEN i ELSE i + 1)
   BY <1>1, <1>3, <2>2, <2>3
 <2>5. q[i] = c
   BY <1>5, <2>1, <2>4
 <2> QED BY <1>10, <2>5 DEF IsIn
<1> QED BY <1>6, <1>10, <1>11, <1>12, <1>13

RequestsFit == RequestsTyped /\ EntriesFit

\* What a step does to the entries and the queue.
Rolls(A) == entry' = RolledBack(A) /\ queue' = queue
Frees(a) ==
  /\ entry' = [p \in Players |-> IF entry[p].attempt = a THEN NoEntry ELSE entry[p]]
  /\ queue' = queue
TakesOut(p) ==
  /\ entry[p].state = "queued" /\ queue' = WithoutPlayer(p)
  /\ \/ entry' = [entry EXCEPT ![p] = NoEntry]
     \/ entry' = [entry EXCEPT ![p].state = "rolledback"]
PutsIn(h) ==
  /\ entry[h[1]] = NoEntry /\ queue' = Append(queue, h[1])
  /\ entry' = [entry EXCEPT ![h[1]] = [client |-> h[2], state |-> "queued", attempt |-> 0]]
Migrates(p, n) ==
  entry[p].state = "queued" /\ entry' = [entry EXCEPT ![p].client = n] /\ queue' = queue
Forgets(p) ==
  /\ entry[p].state = "rolledback" /\ entry[p].attempt = 0
  /\ entry' = [entry EXCEPT ![p] = NoEntry] /\ queue' = queue
ClearsAll ==
  /\ queue' = << >>
  /\ entry' = [p \in Players |-> IF entry[p].state = "queued" THEN NoEntry
                                 ELSE RolledBack(Attempts)[p]]

LEMMA NoEntryTyped == NoEntry \in EntryRecord /\ EntryFits(NoEntry)
<1>1. 0 \in 0..MaxAttempts
  BY AttemptsNat
<1> QED BY <1>1 DEF NoEntry, EntryRecord, EntryFits

LEMMA RolledEntry ==
  ASSUME RequestsTyped, NEW A, NEW p \in Players
  PROVE  /\ RolledBack(A)[p] \in EntryRecord
         /\ RolledBack(A)[p].client = entry[p].client
         /\ RolledBack(A)[p].attempt = entry[p].attempt
         /\ RolledBack(A)[p].state =
              IF entry[p].state = "inflight" /\ entry[p].attempt \in A THEN "rolledback"
              ELSE entry[p].state
         /\ EntryFits(entry[p]) => EntryFits(RolledBack(A)[p])
<1>1. entry[p] \in EntryRecord
  BY DEF RequestsTyped
<1>2. PICK e : e = RolledBack(A)[p]
  OBVIOUS
<1>3. CASE entry[p].state = "inflight" /\ entry[p].attempt \in A
 <2>1. e = [entry[p] EXCEPT !.state = "rolledback"]
   BY <1>2, <1>3 DEF RolledBack
 <2>2. /\ e \in EntryRecord /\ e.client = entry[p].client /\ e.attempt = entry[p].attempt
       /\ e.state = "rolledback"
   BY <1>1, <2>1 DEF EntryRecord
 <2>3. EntryFits(entry[p]) => EntryFits(e)
   BY <1>3, <2>2 DEF EntryFits
 <2> QED BY <1>2, <1>3, <2>2, <2>3
<1>4. CASE ~(entry[p].state = "inflight" /\ entry[p].attempt \in A)
 <2>1. e = entry[p]
   BY <1>2, <1>4 DEF RolledBack
 <2> QED BY <1>1, <1>2, <1>4, <2>1
<1> QED BY <1>3, <1>4

LEMMA RolledFunction == ASSUME NEW A PROVE RolledBack(A) = [p \in Players |-> RolledBack(A)[p]]
BY DEF RolledBack

LEMMA RollsFits ==
  ASSUME RequestsFit, NEW A, Rolls(A)
  PROVE  RequestsFit'
<1>1. RequestsTyped
  BY DEF RequestsFit
<1>2. \A p \in Players : /\ entry'[p] \in EntryRecord /\ entry'[p].client = entry[p].client
                         /\ EntryFits(entry'[p])
                         /\ entry'[p].state = "queued" <=> entry[p].state = "queued"
  BY <1>1, RolledEntry DEF Rolls, RequestsFit, EntriesFit
<1>3. entry' = [p \in Players |-> entry'[p]]
  BY RolledFunction DEF Rolls
<1>4. RequestsTyped'
  BY <1>1, <1>2, <1>3 DEF RequestsTyped, Rolls
<1>5. EntriesFit'
  BY <1>2 DEF RequestsFit, EntriesFit, Rolls
<1> QED BY <1>4, <1>5 DEF RequestsFit

LEMMA FreesFits ==
  ASSUME RequestsFit, NEW a \in Attempts, Frees(a)
  PROVE  RequestsFit'
<1>1. RequestsTyped
  BY DEF RequestsFit
<1>2. \A p \in Players : entry'[p] = entry[p] \/ (entry'[p] = NoEntry /\ entry[p].attempt = a)
  BY DEF Frees
<1>3. \A p \in Players : 0 \in 0..Links[p]
  BY LinksNat
<1>4. \A p \in Players : EntryFits(entry[p]) /\ entry[p] \in EntryRecord /\ entry[p].client \in 0..Links[p]
  BY DEF RequestsFit, EntriesFit, RequestsTyped
<1>5. ASSUME NEW p \in Players
      PROVE  /\ entry'[p] \in EntryRecord /\ entry'[p].client \in 0..Links[p]
             /\ EntryFits(entry'[p])
             /\ entry'[p].state = "queued" <=> entry[p].state = "queued"
 <2>1. CASE entry'[p] = entry[p]
   BY <1>4, <2>1
 <2>2. CASE entry'[p] = NoEntry /\ entry[p].attempt = a
  <3>1. entry[p].state # "queued"
    BY <1>4, <2>2, AttemptsNat DEF EntryFits
  <3> QED BY <1>3, <2>2, <3>1, NoEntryTyped DEF NoEntry
 <2> QED BY <1>2, <2>1, <2>2
<1>6. entry' = [p \in Players |-> entry'[p]]
  BY DEF Frees
<1>7. RequestsTyped'
  BY <1>1, <1>5, <1>6 DEF RequestsTyped, Frees
<1>8. EntriesFit'
  BY <1>5 DEF RequestsFit, EntriesFit, Frees
<1> QED BY <1>7, <1>8 DEF RequestsFit

LEMMA TakesOutFits ==
  ASSUME RequestsFit, NEW p \in Players, TakesOut(p)
  PROVE  RequestsFit'
<1>1. RequestsTyped /\ Distinct(queue) /\ IsIn(p, queue)
  BY DEF RequestsFit, EntriesFit, TakesOut
<1>2. /\ queue' \in Seq(Players) /\ Distinct(queue')
      /\ \A c \in Players : IsIn(c, queue') <=> IsIn(c, queue) /\ c # p
  BY <1>1, WithoutTakesOut DEF TakesOut
<1>3. \A c \in Players : EntryFits(entry[c]) /\ entry[c] \in EntryRecord /\ entry[c].client \in 0..Links[c]
  BY DEF RequestsFit, EntriesFit, RequestsTyped
<1>4. 0 \in 0..Links[p]
  BY LinksNat
<1>5. /\ entry'[p] \in EntryRecord /\ entry'[p].client \in 0..Links[p]
      /\ EntryFits(entry'[p]) /\ entry'[p].state # "queued"
 <2>1. CASE entry' = [entry EXCEPT ![p] = NoEntry]
  <3>1. entry'[p] = NoEntry
    BY <1>1, <2>1 DEF RequestsTyped
  <3> QED BY <1>4, <3>1, NoEntryTyped DEF NoEntry
 <2>2. CASE entry' = [entry EXCEPT ![p].state = "rolledback"]
  <3>1. PICK e : e = [entry[p] EXCEPT !.state = "rolledback"]
    OBVIOUS
  <3>2. /\ e \in EntryRecord /\ e.client = entry[p].client /\ e.attempt = entry[p].attempt
        /\ e.state = "rolledback"
    BY <1>3, <3>1 DEF EntryRecord
  <3>3. entry'[p] = e
    BY <1>1, <2>2, <3>1 DEF RequestsTyped
  <3>4. EntryFits(e)
    BY <1>3, <3>2 DEF EntryFits, TakesOut
  <3> QED BY <1>3, <3>2, <3>3, <3>4
 <2> QED BY <2>1, <2>2 DEF TakesOut
<1>6. \A c \in Players : c # p => entry'[c] = entry[c]
  BY <1>1 DEF TakesOut, RequestsTyped
<1>7. entry' = [c \in Players |-> entry'[c]]
  BY <1>1 DEF TakesOut, RequestsTyped
<1>8. RequestsTyped'
  BY <1>2, <1>3, <1>5, <1>6, <1>7 DEF RequestsTyped
<1>9. EntriesFit'
  BY <1>2, <1>3, <1>5, <1>6 DEF RequestsFit, EntriesFit
<1> QED BY <1>8, <1>9 DEF RequestsFit

LEMMA PutsInFits ==
  ASSUME RequestsFit, NEW h \in Handles, PutsIn(h)
  PROVE  RequestsFit'
<1>1. RequestsTyped /\ queue \in Seq(Players) /\ entry \in [Players -> EntryRecord]
  BY DEF RequestsFit, RequestsTyped
<1>2. PICK p \in Players : p = h[1] /\ h[2] \in 1..Links[p] /\ h[2] \in Nat /\ h[2] # 0
  BY Handle
<1>3. PICK e : e = [client |-> h[2], state |-> "queued", attempt |-> 0]
  OBVIOUS
<1>4. /\ e \in EntryRecord /\ e.client \in 0..Links[p] /\ EntryFits(e) /\ e.state = "queued"
 <2>1. h[2] \in 0..Links[p]
   BY <1>2, LinksNat
 <2> QED BY <1>2, <1>3, <2>1, AttemptsNat DEF EntryRecord, EntryFits
<1>5. entry' = [entry EXCEPT ![p] = e]
  BY <1>2, <1>3 DEF PutsIn
<1>6. queue' = Append(queue, p) /\ entry[p].state = "none"
  BY <1>2 DEF PutsIn, NoEntry
<1>7. ~IsIn(p, queue)
  BY <1>6 DEF RequestsFit, EntriesFit
<1>8. Len(queue) \in Nat /\ \A i \in 1..Len(queue) : queue[i] \in Players
  BY <1>1
<1>9. /\ queue' \in Seq(Players) /\ Len(queue') = Len(queue) + 1
      /\ queue'[Len(queue) + 1] = p /\ \A i \in 1..Len(queue) : queue'[i] = queue[i]
  BY <1>1, <1>6
<1>10. Distinct(queue')
 <2>1. Distinct(queue)
   BY DEF RequestsFit, EntriesFit
 <2> QED BY <1>7, <1>8, <1>9, <2>1 DEF Distinct, IsIn
<1>11. \A c \in Players : IsIn(c, queue') <=> IsIn(c, queue) \/ c = p
 <2>1. ASSUME NEW c \in Players, IsIn(c, queue') PROVE IsIn(c, queue) \/ c = p
   BY <1>8, <1>9, <2>1 DEF IsIn
 <2>2. ASSUME NEW c \in Players, IsIn(c, queue) PROVE IsIn(c, queue')
   BY <1>8, <1>9, <2>2 DEF IsIn
 <2>3. IsIn(p, queue')
   BY <1>8, <1>9 DEF IsIn
 <2> QED BY <2>1, <2>2, <2>3
<1>12. \A c \in Players : entry'[c] = IF c = p THEN e ELSE entry[c]
  BY <1>1, <1>5
<1>13. \A c \in Players : EntryFits(entry[c]) /\ entry[c].client \in 0..Links[c]
  BY DEF RequestsFit, EntriesFit, RequestsTyped
<1>14. RequestsTyped'
  BY <1>1, <1>4, <1>5, <1>9, <1>12, <1>13 DEF RequestsTyped
<1>15. EntriesFit'
  BY <1>4, <1>10, <1>11, <1>12, <1>13 DEF RequestsFit, EntriesFit
<1> QED BY <1>14, <1>15 DEF RequestsFit

LEMMA MigratesFits ==
  ASSUME RequestsFit, NEW p \in Players, NEW n \in 1..Links[p], Migrates(p, n)
  PROVE  RequestsFit'
<1>1. RequestsTyped /\ entry \in [Players -> EntryRecord]
  BY DEF RequestsFit, RequestsTyped
<1>2. n \in Nat /\ n # 0 /\ n \in 0..Links[p]
  BY LinksNat
<1>3. PICK e : e = [entry[p] EXCEPT !.client = n]
  OBVIOUS
<1>4. entry[p] \in EntryRecord /\ EntryFits(entry[p]) /\ entry[p].state = "queued"
  BY DEF RequestsFit, RequestsTyped, EntriesFit, Migrates
<1>5. e \in EntryRecord /\ e.client = n /\ e.state = "queued" /\ e.attempt = entry[p].attempt
  BY <1>2, <1>3, <1>4 DEF EntryRecord
<1>6. EntryFits(e)
  BY <1>2, <1>4, <1>5 DEF EntryFits
<1>7. entry' = [entry EXCEPT ![p] = e] /\ queue' = queue
  BY <1>3 DEF Migrates
<1>8. \A c \in Players : entry'[c] = IF c = p THEN e ELSE entry[c]
  BY <1>1, <1>7
<1>9. RequestsTyped'
  BY <1>1, <1>2, <1>5, <1>7, <1>8 DEF RequestsTyped
<1>10. EntriesFit'
  BY <1>4, <1>5, <1>6, <1>7, <1>8 DEF RequestsFit, EntriesFit
<1> QED BY <1>9, <1>10 DEF RequestsFit

LEMMA ForgetsFits ==
  ASSUME RequestsFit, NEW p \in Players, Forgets(p)
  PROVE  RequestsFit'
<1>1. RequestsTyped /\ entry \in [Players -> EntryRecord]
  BY DEF RequestsFit, RequestsTyped
<1>2. entry' = [entry EXCEPT ![p] = NoEntry] /\ queue' = queue /\ entry[p].state = "rolledback"
  BY DEF Forgets
<1>3. \A c \in Players : entry'[c] = IF c = p THEN NoEntry ELSE entry[c]
  BY <1>1, <1>2
<1>4. 0 \in 0..Links[p]
  BY LinksNat
<1>5. RequestsTyped'
  BY <1>1, <1>2, <1>3, <1>4, NoEntryTyped DEF RequestsTyped, NoEntry
<1>6. NoEntry.state # "queued"
  BY DEF NoEntry
<1>7. EntriesFit'
  BY <1>2, <1>3, <1>6, NoEntryTyped DEF RequestsFit, EntriesFit
<1> QED BY <1>5, <1>7 DEF RequestsFit

LEMMA ClearsAllFits ==
  ASSUME RequestsFit, ClearsAll
  PROVE  RequestsFit'
<1>1. RequestsTyped /\ entry \in [Players -> EntryRecord]
  BY DEF RequestsFit, RequestsTyped
<1>2. ASSUME NEW p \in Players
      PROVE  /\ entry'[p] \in EntryRecord /\ entry'[p].client \in 0..Links[p]
             /\ EntryFits(entry'[p]) /\ entry'[p].state # "queued"
 <2>1. EntryFits(entry[p]) /\ entry[p].client \in 0..Links[p]
   BY DEF RequestsFit, EntriesFit, RequestsTyped
 <2>2. CASE entry[p].state = "queued"
  <3>1. entry'[p] = NoEntry
    BY <2>2 DEF ClearsAll
  <3>2. 0 \in 0..Links[p]
    BY LinksNat
  <3> QED BY <3>1, <3>2, NoEntryTyped DEF NoEntry
 <2>3. CASE entry[p].state # "queued"
  <3>1. entry'[p] = RolledBack(Attempts)[p]
    BY <2>3 DEF ClearsAll
  <3> QED BY <1>1, <2>1, <2>3, <3>1, RolledEntry
 <2> QED BY <2>2, <2>3
<1>3. entry' = [p \in Players |-> entry'[p]]
  BY DEF ClearsAll
<1>4. queue' \in Seq(Players) /\ Len(queue') = 0
  BY DEF ClearsAll
<1>5. Distinct(queue') /\ \A p \in Players : ~IsIn(p, queue')
  BY <1>4 DEF Distinct, IsIn
<1>6. RequestsTyped'
  BY <1>2, <1>3, <1>4 DEF RequestsTyped
<1>7. EntriesFit'
  BY <1>2, <1>5 DEF EntriesFit
<1> QED BY <1>6, <1>7 DEF RequestsFit

\* Players that newAttemptLocked may freeze, with the connections in e: nobody
\* who is in an attempt, and everybody else's entry is the one there is.
MayFreeze(q, e) ==
  /\ q \in Seq(Players) /\ q # << >>
  /\ \A c \in Players :
       IF IsIn(c, q) THEN e[c].client \in 1..Links[c] /\ entry[c].state \in {"none", "queued"}
       ELSE e[c] = entry[c]
  /\ \/ queue' = << >> /\ \A c \in Players : entry[c].state = "queued" => IsIn(c, q)
     \/ queue' = queue /\ \A c \in Players : IsIn(c, q) => entry[c].state = "none"

\* The attempt n that newAttemptLocked makes, and the entries of those in it.
FrozenAs(q, e, n, y) ==
  /\ att[n].stage = "unused" /\ att' = [att EXCEPT ![n] = y]
  /\ y.stage = "frozen" /\ ~y.stopped /\ Begins(att[n], y)
  /\ \A c \in Players : IsIn(c, q) <=> << c, e[c].client >> \in { y.humans[i] : i \in DOMAIN y.humans }
  /\ \A c \in Players : \A m \in Nat :
       << c, m >> \in { y.humans[i] : i \in DOMAIN y.humans } => IsIn(c, q) /\ m = e[c].client
  /\ entry' = [c \in Players |->
       IF IsIn(c, q) THEN [client |-> e[c].client, state |-> "inflight", attempt |-> n]
       ELSE entry[c]]

LEMMA FrozenIs ==
  ASSUME RequestsFit, AttemptsTyped, NEW q, NEW e, MayFreeze(q, e), Free # {},
         NEW bots, NEW launched \in BOOLEAN, Freeze(q, e, bots, launched)
  PROVE  \E n \in Attempts, y \in AttemptType : FrozenAs(q, e, n, y)
<1>1. PICK n : n = NextAttempt
  OBVIOUS
<1>2. n \in Attempts /\ att[n].stage = "unused"
  BY <1>1, NextIsFree
<1>3. q \in Seq(Players) /\ DOMAIN q = 1..Len(q) /\ Len(q) \in Nat /\ Len(q) # 0
  BY DEF MayFreeze
<1>4. PICK humans : humans = [i \in DOMAIN q |-> << q[i], e[q[i]].client >>]
  OBVIOUS
<1>5. \A i \in 1..Len(q) : q[i] \in Players /\ IsIn(q[i], q)
  BY <1>3 DEF IsIn
<1>6. \A i \in 1..Len(q) : e[q[i]].client \in 1..Links[q[i]]
  BY <1>5 DEF MayFreeze
<1>7. \A i \in 1..Len(q) : humans[i] = << q[i], e[q[i]].client >> /\ humans[i] \in Handles
  BY <1>3, <1>4, <1>5, <1>6, HandleIs
<1>8. humans \in Seq(Handles) /\ Len(humans) = Len(q) /\ DOMAIN humans = 1..Len(q)
  BY <1>3, <1>4, <1>7
<1>9. PICK b \in {"none", "open"} : b = IF bots = 0 THEN "none" ELSE "open"
  OBVIOUS
<1>10. PICK y : y = [Unused EXCEPT !.stage = "frozen", !.launched = launched, !.bots = b,
                                   !.humans = humans]
  OBVIOUS
<1>11. att' = [att EXCEPT ![n] = y]
  BY <1>1, <1>4, <1>9, <1>10 DEF Freeze
<1>12. /\ y \in AttemptRecord /\ y.humans = humans /\ y.step = 1 /\ y.stage = "frozen"
       /\ ~y.stopped /\ ~y.published /\ y.bots = b /\ y.room = "none" /\ y.lease = "none"
  BY <1>8, <1>9, <1>10 DEF Unused, AttemptRecord, ListedStages, Nobody
<1>13. y.humans # << >> /\ y.step \in 1..Len(y.humans)
  BY <1>3, <1>8, <1>12
<1>14. y \in AttemptType /\ Begins(att[n], y)
  BY <1>2, <1>9, <1>12, <1>13 DEF AttemptType, Begins
<1>16. ASSUME NEW c \in Players, IsIn(c, q)
       PROVE  << c, e[c].client >> \in { y.humans[i] : i \in DOMAIN y.humans }
 <2>1. PICK i \in 1..Len(q) : q[i] = c
   BY <1>16 DEF IsIn
 <2>2. y.humans[i] = << c, e[c].client >> /\ i \in DOMAIN y.humans
   BY <1>7, <1>8, <1>12, <2>1
 <2> QED BY <2>2
<1>17. ASSUME NEW c \in Players, NEW m, << c, m >> \in { y.humans[i] : i \in DOMAIN y.humans }
       PROVE  IsIn(c, q) /\ m = e[c].client
 <2>1. PICK i \in 1..Len(q) : << c, m >> = humans[i]
   BY <1>8, <1>12, <1>17
 <2>2. << c, m >> = << q[i], e[q[i]].client >>
   BY <1>7, <2>1
 <2>3. c = q[i] /\ m = e[q[i]].client
   BY <2>2
 <2> QED BY <1>5, <2>3
<1>18. entry' = [c \in Players |->
         IF IsIn(c, q) THEN [client |-> e[c].client, state |-> "inflight", attempt |-> n]
         ELSE entry[c]]
 <2>1. entry' = [p \in Players |->
         IF \E i \in DOMAIN q : q[i] = p
         THEN [client |-> e[p].client, state |-> "inflight", attempt |-> n] ELSE e[p]]
   BY <1>1 DEF Freeze
 <2>2. \A p \in Players : (\E i \in DOMAIN q : q[i] = p) <=> IsIn(p, q)
   BY <1>3 DEF IsIn
 <2>3. \A p \in Players : ~IsIn(p, q) => e[p] = entry[p]
   BY DEF MayFreeze
 <2>4. \A p \in Players :
         (IF \E i \in DOMAIN q : q[i] = p
          THEN [client |-> e[p].client, state |-> "inflight", attempt |-> n] ELSE e[p])
         = (IF IsIn(p, q) THEN [client |-> e[p].client, state |-> "inflight", attempt |-> n]
            ELSE entry[p])
   BY <2>2, <2>3
 <2> QED BY <2>1, <2>4
<1>19. FrozenAs(q, e, n, y)
  BY <1>2, <1>11, <1>12, <1>14, <1>16, <1>17, <1>18 DEF FrozenAs
<1> QED BY <1>2, <1>14, <1>19

LEMMA FreezeFits ==
  ASSUME RequestsFit, NEW q, NEW e, MayFreeze(q, e), NEW n \in Attempts,
         entry' = [c \in Players |->
           IF IsIn(c, q) THEN [client |-> e[c].client, state |-> "inflight", attempt |-> n]
           ELSE entry[c]]
  PROVE  RequestsFit'
<1>1. RequestsTyped /\ entry \in [Players -> EntryRecord] /\ queue \in Seq(Players)
  BY DEF RequestsFit, RequestsTyped
<1>2. ASSUME NEW c \in Players
      PROVE  /\ entry'[c] \in EntryRecord /\ entry'[c].client \in 0..Links[c]
             /\ EntryFits(entry'[c])
             /\ IsIn(c, q) => entry'[c].state # "queued"
             /\ ~IsIn(c, q) => entry'[c] = entry[c]
 <2>1. CASE IsIn(c, q)
  <3>1. e[c].client \in 1..Links[c] /\ Links[c] \in Nat
    BY <2>1, LinksNat DEF MayFreeze
  <3>2. PICK x : x = [client |-> e[c].client, state |-> "inflight", attempt |-> n]
    OBVIOUS
  <3>3. x \in EntryRecord /\ x.client \in 0..Links[c] /\ EntryFits(x) /\ x.state # "queued"
    BY <3>1, <3>2, AttemptsNat DEF EntryRecord, EntryFits
  <3> QED BY <2>1, <3>2, <3>3
 <2>2. CASE ~IsIn(c, q)
   BY <1>1, <2>2 DEF RequestsFit, EntriesFit, RequestsTyped
 <2> QED BY <2>1, <2>2
<1>3. entry' = [c \in Players |-> entry'[c]]
  OBVIOUS
<1>4. CASE queue' = << >> /\ \A c \in Players : entry[c].state = "queued" => IsIn(c, q)
 <2>1. queue' \in Seq(Players) /\ Len(queue') = 0
   BY <1>4
 <2>2. Distinct(queue') /\ \A c \in Players : ~IsIn(c, queue')
   BY <2>1 DEF Distinct, IsIn
 <2>3. \A c \in Players : entry'[c].state # "queued"
   BY <1>2, <1>4
 <2>4. RequestsTyped'
   BY <1>2, <1>3, <2>1 DEF RequestsTyped
 <2>5. EntriesFit'
   BY <1>2, <2>2, <2>3 DEF EntriesFit
 <2> QED BY <2>4, <2>5 DEF RequestsFit
<1>5. CASE queue' = queue /\ \A c \in Players : IsIn(c, q) => entry[c].state = "none"
 <2>1. RequestsTyped'
   BY <1>1, <1>2, <1>3, <1>5 DEF RequestsTyped
 <2>2. \A c \in Players : entry'[c].state = "queued" <=> entry[c].state = "queued"
   BY <1>2, <1>5
 <2>3. EntriesFit'
   BY <1>2, <1>5, <2>2 DEF RequestsFit, EntriesFit
 <2> QED BY <2>1, <2>3 DEF RequestsFit
<1> QED BY <1>4, <1>5 DEF MayFreeze

-----------------------------------------------------------------------------
(* Entries and attempts                                                    *)

\* What a step leaves of an attempt that has to serve its entries.
Keeps(x, y) ==
  /\ y.stage \in ListedStages <=> x.stage \in ListedStages
  /\ x.stage \in ListedStages => y.humans = x.humans
EveryAttemptKeeps == \A a \in Attempts : Keeps(att[a], att'[a])
NotStopped(a) == att[a].stage \in ListedStages /\ att'[a].stopped => att[a].stopped

LEMMA EvolvesOrKeeps ==
  ASSUME NEW x, NEW y, Evolves(x, y),
         x.stage \in {"unused", "settle", "release"} =>
           y.stage = x.stage \/ (x.stage = "settle" /\ y.stage = "rollback")
  PROVE  Keeps(x, y)
BY DEF Evolves, Marked, Begins, TakesLease, Proceeds, Fails, Published, Withdrawn, RollsBack,
       Notifies, Plays, EndsWithout, Releases, LosesRoom, Unpublished, IsRemoved, Reopens,
       SameGoods, Dropped, Ends, StaysStopped, Keeps, ListedStages

LEMMA StillServes ==
  ASSUME NEW p \in Players, NEW a \in Attempts, Serves(p, a), Keeps(att[a], att'[a]),
         \/ /\ entry'[p].client = entry[p].client /\ entry'[p].attempt = entry[p].attempt
            /\ entry'[p].state = "inflight" /\ entry[p].attempt = a =>
                 entry[p].state = "inflight" /\ NotStopped(a)
         \/ entry[p].attempt # a /\ entry'[p].attempt # a
  PROVE  Serves(p, a)'
<1>1. CASE att[a].stage \in ListedStages
 <2>1. att'[a].humans = att[a].humans /\ att'[a].stage \in ListedStages
   BY <1>1 DEF Keeps
 <2>2. Humans(a)' = Humans(a)
   BY <2>1 DEF Humans
 <2> QED BY <1>1, <2>1, <2>2 DEF Serves, NotStopped
<1>2. CASE att[a].stage \notin ListedStages
  BY <1>2 DEF Serves, Keeps
<1> QED BY <1>1, <1>2

LEMMA RollsServes ==
  ASSUME RequestsFit, AttemptsServe, EveryAttemptKeeps, NEW A, Rolls(A),
         \A a \in Attempts : a \notin A => NotStopped(a)
  PROVE  AttemptsServe'
<1>1. RequestsTyped
  BY DEF RequestsFit
<1>2. ASSUME NEW p \in Players, NEW a \in Attempts PROVE Serves(p, a)'
 <2>1. /\ entry'[p].client = entry[p].client /\ entry'[p].attempt = entry[p].attempt
       /\ entry'[p].state = IF entry[p].state = "inflight" /\ entry[p].attempt \in A
                            THEN "rolledback" ELSE entry[p].state
   BY <1>1, RolledEntry DEF Rolls
 <2>2. Serves(p, a) /\ Keeps(att[a], att'[a])
   BY DEF AttemptsServe, EveryAttemptKeeps
 <2>3. entry'[p].state = "inflight" /\ entry[p].attempt = a =>
         entry[p].state = "inflight" /\ NotStopped(a)
   BY <2>1
 <2> QED BY <2>1, <2>2, <2>3, StillServes
<1> QED BY <1>2 DEF AttemptsServe

LEMMA SameServes ==
  ASSUME AttemptsServe, EveryAttemptKeeps, UNCHANGED entry,
         \A a \in Attempts : NotStopped(a)
  PROVE  AttemptsServe'
<1>1. ASSUME NEW p \in Players, NEW a \in Attempts PROVE Serves(p, a)'
 <2>1. Serves(p, a) /\ Keeps(att[a], att'[a]) /\ NotStopped(a)
   BY DEF AttemptsServe, EveryAttemptKeeps
 <2> QED BY <2>1, StillServes
<1> QED BY <1>1 DEF AttemptsServe

LEMMA OutsideServes ==
  ASSUME AttemptsServe, EveryAttemptKeeps, \A a \in Attempts : NotStopped(a),
         \A p \in Players : entry'[p] = entry[p] \/ (entry[p].attempt = 0 /\ entry'[p].attempt = 0)
  PROVE  AttemptsServe'
<1>1. ASSUME NEW p \in Players, NEW a \in Attempts PROVE Serves(p, a)'
 <2>1. Serves(p, a) /\ Keeps(att[a], att'[a]) /\ NotStopped(a) /\ a # 0
   BY AttemptsNat DEF AttemptsServe, EveryAttemptKeeps
 <2>2. CASE entry'[p] = entry[p]
   BY <2>1, <2>2, StillServes
 <2>3. CASE entry[p].attempt = 0 /\ entry'[p].attempt = 0
   BY <2>1, <2>3, StillServes
 <2> QED BY <2>2, <2>3
<1> QED BY <1>1 DEF AttemptsServe

LEMMA ClearsServes ==
  ASSUME RequestsFit, AttemptsServe, EveryAttemptKeeps, ClearsAll
  PROVE  AttemptsServe'
<1>1. RequestsTyped
  BY DEF RequestsFit
<1>2. ASSUME NEW p \in Players, NEW a \in Attempts PROVE Serves(p, a)'
 <2>1. Serves(p, a) /\ Keeps(att[a], att'[a]) /\ a # 0
   BY AttemptsNat DEF AttemptsServe, EveryAttemptKeeps
 <2>2. EntryFits(entry[p]) /\ entry[p] \in EntryRecord
   BY DEF RequestsFit, EntriesFit, RequestsTyped
 <2>3. CASE entry[p].state = "queued"
  <3>1. entry'[p] = NoEntry /\ entry[p].attempt = 0
    BY <2>2, <2>3 DEF ClearsAll, EntryFits
  <3> QED BY <2>1, <3>1, StillServes DEF NoEntry
 <2>4. CASE entry[p].state # "queued"
  <3>1. entry'[p] = RolledBack(Attempts)[p]
    BY <2>4 DEF ClearsAll
  <3>2. entry[p].state = "inflight" => entry[p].attempt \in Attempts
    BY <2>2, AttemptsNat DEF EntryFits, EntryRecord
  <3>3. /\ entry'[p].client = entry[p].client /\ entry'[p].attempt = entry[p].attempt
        /\ entry'[p].state # "inflight"
    BY <1>1, <3>1, <3>2, RolledEntry
  <3> QED BY <2>1, <3>3, StillServes
 <2> QED BY <2>3, <2>4
<1> QED BY <1>2 DEF AttemptsServe

LEMMA FreesServes ==
  ASSUME AttemptsServe, NEW a \in Attempts, Frees(a), att'[a].stage \notin ListedStages,
         \A b \in Attempts : b # a => Keeps(att[b], att'[b]) /\ NotStopped(b)
  PROVE  AttemptsServe'
<1>1. ASSUME NEW p \in Players, NEW b \in Attempts PROVE Serves(p, b)'
 <2>1. Serves(p, b) /\ a # 0 /\ b # 0
   BY AttemptsNat DEF AttemptsServe
 <2>2. entry'[p] = IF entry[p].attempt = a THEN NoEntry ELSE entry[p]
   BY DEF Frees
 <2>3. NoEntry.attempt = 0
   BY DEF NoEntry
 <2>4. CASE b = a
  <3>1. entry'[p].attempt # a
    BY <2>1, <2>2, <2>3
  <3> QED BY <2>4, <3>1 DEF Serves
 <2>5. CASE b # a
  <3>1. Keeps(att[b], att'[b]) /\ NotStopped(b)
    BY <2>5
  <3>2. CASE entry[p].attempt = a
    BY <2>1, <2>2, <2>3, <2>5, <3>1, <3>2, StillServes
  <3>3. CASE entry[p].attempt # a
    BY <2>1, <2>2, <3>1, <3>3, StillServes
  <3> QED BY <3>2, <3>3
 <2> QED BY <2>4, <2>5
<1> QED BY <1>1 DEF AttemptsServe

LEMMA FreezeServes ==
  ASSUME RequestsFit, AttemptsServe, AttemptsTyped, NEW q, NEW e, MayFreeze(q, e), Free # {},
         NEW bots, NEW launched \in BOOLEAN, Freeze(q, e, bots, launched)
  PROVE  AttemptsServe' /\ EveryAttemptEvolves /\ RequestsFit'
<1>1. PICK n \in Attempts, y \in AttemptType : FrozenAs(q, e, n, y)
  BY FrozenIs
<1>0. /\ y \in AttemptType /\ n \in Attempts
      /\ att[n].stage = "unused" /\ att' = [att EXCEPT ![n] = y]
      /\ y.stage = "frozen" /\ ~y.stopped /\ Begins(att[n], y)
      /\ \A c \in Players : IsIn(c, q) <=> << c, e[c].client >> \in { y.humans[i] : i \in DOMAIN y.humans }
      /\ \A c \in Players : \A m \in Nat :
           << c, m >> \in { y.humans[i] : i \in DOMAIN y.humans } => IsIn(c, q) /\ m = e[c].client
      /\ entry' = [c \in Players |->
           IF IsIn(c, q) THEN [client |-> e[c].client, state |-> "inflight", attempt |-> n]
           ELSE entry[c]]
  BY <1>1 DEF FrozenAs
<1>2. RequestsFit'
  BY <1>0, FreezeFits
<1>3. EveryAttemptEvolves
 <2>1. GoesOn(n, y)
   BY <1>0 DEF GoesOn, Evolves, Begins
 <2> QED BY <1>0, <2>1, OneEvolves
<1>4. att'[n] = y /\ \A a \in Attempts : a # n => att'[a] = att[a]
  BY <1>0 DEF AttemptsTyped
<1>5. ASSUME NEW p \in Players, NEW a \in Attempts PROVE Serves(p, a)'
 <2>1. Serves(p, a) /\ Serves(p, n) /\ n # 0 /\ a # 0
   BY AttemptsNat DEF AttemptsServe
 <2>2. entry[p].attempt # n
   BY <1>0, <2>1 DEF Serves, ListedStages
 <2>3. IsIn(p, q) => entry[p].attempt = 0
  <3>1. EntryFits(entry[p])
    BY DEF RequestsFit, EntriesFit
  <3>2. IsIn(p, q) => entry[p].state \in {"none", "queued"}
    BY DEF MayFreeze
  <3> QED BY <3>1, <3>2 DEF EntryFits, NoEntry
 <2>4. CASE a = n
  <3>1. Humans(n)' = { y.humans[i] : i \in DOMAIN y.humans }
    BY <1>4 DEF Humans
  <3>2. CASE IsIn(p, q)
   <4>1. /\ entry'[p].client = e[p].client /\ entry'[p].attempt = n
         /\ << p, e[p].client >> \in Humans(n)'
     BY <1>0, <3>1, <3>2
   <4>2. \A m \in Nat : << p, m >> \in Humans(n)' => m = e[p].client
     BY <1>0, <3>1
   <4> QED BY <1>0, <1>4, <2>4, <4>1, <4>2 DEF Serves, ListedStages
  <3>3. CASE ~IsIn(p, q)
   <4>1. entry'[p] = entry[p]
     BY <1>0, <3>3
   <4>2. \A m \in Nat : << p, m >> \notin Humans(n)'
     BY <1>0, <3>1, <3>3
   <4> QED BY <2>2, <2>4, <4>1, <4>2 DEF Serves
  <3> QED BY <3>2, <3>3
 <2>5. CASE a # n
  <3>1. att'[a] = att[a]
    BY <1>4, <2>5
  <3>2. Keeps(att[a], att'[a]) /\ NotStopped(a)
    BY <3>1 DEF Keeps, NotStopped
  <3>3. CASE IsIn(p, q)
   <4>1. entry'[p].attempt = n
     BY <1>0, <3>3
   <4> QED BY <2>1, <2>3, <2>5, <3>2, <3>3, <4>1, StillServes
  <3>4. CASE ~IsIn(p, q)
   <4>1. entry'[p] = entry[p]
     BY <1>0, <3>4
   <4> QED BY <2>1, <3>2, <4>1, StillServes
  <3> QED BY <3>3, <3>4
 <2> QED BY <2>4, <2>5
<1> QED BY <1>2, <1>3, <1>5 DEF AttemptsServe

EveryAttemptFits == \A a \in Attempts : AttInv(att[a])
Reserved == RequestsFit /\ AttemptsTyped /\ AttemptsServe

\* Nobody is let in.
LetsNobodyIn ==
  /\ queue = << >> => queue' = << >>
  /\ \A p \in Players : entry[p] = NoEntry => entry'[p] = NoEntry
Served ==
  /\ EveryAttemptEvolves /\ RequestsFit' /\ AttemptsServe'
  /\ mode = "draining" \/ closed => LetsNobodyIn

\* The attempts go on and serve the entries they served.
EveryAttemptStays ==
  EveryAttemptEvolves /\ EveryAttemptKeeps /\ \A a \in Attempts : NotStopped(a)

LEMMA AttemptsSame ==
  ASSUME AttemptsTyped, UNCHANGED att
  PROVE  EveryAttemptStays
BY NoneEvolves DEF EveryAttemptStays, EveryAttemptKeeps, Keeps, NotStopped

LEMMA OneStays ==
  ASSUME AttemptsTyped, NEW a \in Attempts, NEW y \in AttemptType,
         att' = [att EXCEPT ![a] = y], GoesOn(a, y), Keeps(att[a], y),
         att[a].stage \in ListedStages /\ y.stopped => att[a].stopped
  PROVE  EveryAttemptStays
<1>1. EveryAttemptEvolves
  BY OneEvolves
<1>2. \A b \in Attempts : att'[b] = IF b = a THEN y ELSE att[b]
  BY DEF AttemptsTyped
<1>3. ASSUME NEW b \in Attempts PROVE Keeps(att[b], att'[b]) /\ NotStopped(b)
 <2>1. CASE b = a
   BY <1>2, <2>1 DEF NotStopped
 <2>2. CASE b # a
   BY <1>2, <2>2 DEF NotStopped, Keeps
 <2> QED BY <2>1, <2>2
<1> QED BY <1>1, <1>3 DEF EveryAttemptStays, EveryAttemptKeeps

LEMMA SameIsServed ==
  ASSUME Reserved, EveryAttemptStays, UNCHANGED << entry, queue >>
  PROVE  Served
<1>1. RequestsFit'
  BY DEF Reserved, RequestsFit, RequestsTyped, EntriesFit
<1>2. AttemptsServe'
  BY SameServes DEF Reserved, EveryAttemptStays
<1> QED BY <1>1, <1>2 DEF Served, EveryAttemptStays, LetsNobodyIn

LEMMA RollsIsServed ==
  ASSUME Reserved, EveryAttemptEvolves, EveryAttemptKeeps, NEW A, Rolls(A),
         \A a \in Attempts : a \notin A => NotStopped(a)
  PROVE  Served
<1>1. RequestsFit' /\ AttemptsServe'
  BY RollsFits, RollsServes DEF Reserved
<1>2. \A p \in Players : entry[p] = NoEntry => entry'[p] = NoEntry
  BY DEF Rolls, RolledBack, NoEntry
<1> QED BY <1>1, <1>2 DEF Served, LetsNobodyIn, Rolls

LEMMA OneRolls ==
  ASSUME Reserved, NEW a \in Attempts, NEW y \in AttemptType,
         att' = [att EXCEPT ![a] = y], GoesOn(a, y), Keeps(att[a], y), Rolls({a})
  PROVE  Served
<1>1. AttemptsTyped
  BY DEF Reserved
<1>2. EveryAttemptEvolves
  BY <1>1, OneEvolves
<1>3. \A b \in Attempts : att'[b] = IF b = a THEN y ELSE att[b]
  BY <1>1 DEF AttemptsTyped
<1>4. EveryAttemptKeeps
  BY <1>3 DEF EveryAttemptKeeps, Keeps
<1>5. \A b \in Attempts : b \notin {a} => NotStopped(b)
  BY <1>3 DEF NotStopped
<1> QED BY <1>2, <1>4, <1>5, RollsIsServed

LEMMA FreesIsServed ==
  ASSUME Reserved, NEW a \in Attempts, NEW y \in AttemptType,
         att' = [att EXCEPT ![a] = y], GoesOn(a, y), Frees(a), y.stage \notin ListedStages
  PROVE  Served
<1>1. AttemptsTyped
  BY DEF Reserved
<1>2. EveryAttemptEvolves
  BY <1>1, OneEvolves
<1>3. \A b \in Attempts : att'[b] = IF b = a THEN y ELSE att[b]
  BY <1>1 DEF AttemptsTyped
<1>4. \A b \in Attempts : b # a => Keeps(att[b], att'[b]) /\ NotStopped(b)
  BY <1>3 DEF Keeps, NotStopped
<1>5. RequestsFit' /\ AttemptsServe'
  BY <1>3, <1>4, FreesFits, FreesServes DEF Reserved
<1>6. \A p \in Players : entry[p] = NoEntry => entry'[p] = NoEntry
  BY DEF Frees
<1> QED BY <1>2, <1>5, <1>6 DEF Served, LetsNobodyIn, Frees

LEMMA TakesOutIsServed ==
  ASSUME Reserved, EveryAttemptStays, NEW p \in Players, TakesOut(p)
  PROVE  Served
<1>1. RequestsFit'
  BY TakesOutFits DEF Reserved
<1>2. RequestsTyped /\ EntryFits(entry[p]) /\ entry[p].state = "queued" /\ IsIn(p, queue)
  BY DEF Reserved, RequestsFit, EntriesFit, TakesOut
<1>3. entry \in [Players -> EntryRecord] /\ entry[p] \in EntryRecord
  BY <1>2 DEF RequestsTyped
<1>4. entry[p].attempt = 0
  BY <1>2 DEF EntryFits
<1>5. entry'[p].attempt = 0
 <2>1. CASE entry' = [entry EXCEPT ![p] = NoEntry]
   BY <1>3, <2>1 DEF NoEntry
 <2>2. CASE entry' = [entry EXCEPT ![p].state = "rolledback"]
   BY <1>3, <1>4, <2>2 DEF EntryRecord
 <2> QED BY <2>1, <2>2 DEF TakesOut
<1>6. \A c \in Players : c # p => entry'[c] = entry[c]
  BY <1>3 DEF TakesOut
<1>7. AttemptsServe'
  BY <1>4, <1>5, <1>6, OutsideServes DEF Reserved, EveryAttemptStays
<1>8. entry[p] # NoEntry
  BY <1>2 DEF NoEntry
<1>9. queue # << >>
  BY <1>2 DEF IsIn
<1>10. LetsNobodyIn
  BY <1>6, <1>8, <1>9 DEF LetsNobodyIn
<1> QED BY <1>1, <1>7, <1>10 DEF Served, EveryAttemptStays

LEMMA PutsInIsServed ==
  ASSUME Reserved, EveryAttemptStays, NEW h \in Handles, PutsIn(h), mode = "normal", ~closed
  PROVE  Served
<1>1. RequestsFit'
  BY PutsInFits DEF Reserved
<1>2. entry \in [Players -> EntryRecord] /\ h[1] \in Players
  BY Handle DEF Reserved, RequestsFit, RequestsTyped
<1>3. /\ entry[h[1]].attempt = 0 /\ entry'[h[1]].attempt = 0
      /\ \A c \in Players : c # h[1] => entry'[c] = entry[c]
  BY <1>2 DEF PutsIn, NoEntry
<1>4. AttemptsServe'
  BY <1>3, OutsideServes DEF Reserved, EveryAttemptStays
<1> QED BY <1>1, <1>4 DEF Served, EveryAttemptStays

LEMMA MigratesIsServed ==
  ASSUME Reserved, EveryAttemptStays, NEW p \in Players, NEW n \in 1..Links[p], Migrates(p, n)
  PROVE  Served
<1>1. RequestsFit'
  BY MigratesFits DEF Reserved
<1>2. entry \in [Players -> EntryRecord] /\ entry[p] \in EntryRecord /\ EntryFits(entry[p])
  BY DEF Reserved, RequestsFit, EntriesFit, RequestsTyped
<1>3. /\ entry[p].attempt = 0 /\ entry'[p].attempt = 0
      /\ \A c \in Players : c # p => entry'[c] = entry[c]
  BY <1>2 DEF Migrates, EntryFits, EntryRecord
<1>4. AttemptsServe'
  BY <1>3, OutsideServes DEF Reserved, EveryAttemptStays
<1>5. entry[p] # NoEntry
  BY DEF Migrates, NoEntry
<1> QED BY <1>1, <1>3, <1>4, <1>5 DEF Served, EveryAttemptStays, LetsNobodyIn, Migrates

LEMMA ForgetsIsServed ==
  ASSUME Reserved, EveryAttemptStays, NEW p \in Players, Forgets(p)
  PROVE  Served
<1>1. RequestsFit'
  BY ForgetsFits DEF Reserved
<1>2. entry \in [Players -> EntryRecord]
  BY DEF Reserved, RequestsFit, RequestsTyped
<1>3. /\ entry[p].attempt = 0 /\ entry'[p].attempt = 0 /\ entry'[p] = NoEntry
      /\ \A c \in Players : c # p => entry'[c] = entry[c]
  BY <1>2 DEF Forgets, NoEntry
<1>4. AttemptsServe'
  BY <1>3, OutsideServes DEF Reserved, EveryAttemptStays
<1> QED BY <1>1, <1>3, <1>4 DEF Served, EveryAttemptStays, LetsNobodyIn, Forgets

LEMMA ClearsIsServed ==
  ASSUME Reserved, EveryAttemptEvolves, EveryAttemptKeeps, ClearsAll
  PROVE  Served
<1>1. RequestsFit' /\ AttemptsServe'
  BY ClearsAllFits, ClearsServes DEF Reserved
<1>2. ASSUME NEW p \in Players, entry[p] = NoEntry PROVE entry'[p] = NoEntry
  BY <1>2 DEF ClearsAll, RolledBack, NoEntry
<1> QED BY <1>1, <1>2 DEF Served, LetsNobodyIn, ClearsAll

LEMMA FreezeIsServed ==
  ASSUME Reserved, NEW q, NEW e, MayFreeze(q, e), Free # {}, NEW bots, NEW launched \in BOOLEAN,
         Freeze(q, e, bots, launched), mode = "draining" \/ closed => LetsNobodyIn
  PROVE  Served
BY FreezeServes DEF Reserved, Served

LEMMA OneGoesOn ==
  ASSUME Reserved, NEW a \in Attempts, NEW y \in AttemptType,
         att' = [att EXCEPT ![a] = y], GoesOn(a, y),
         att[a].stage \in {"unused", "settle", "release"} => y.stage = att[a].stage,
         att[a].stage \in ListedStages /\ y.stopped => att[a].stopped,
         UNCHANGED << entry, queue >>
  PROVE  Served
<1>1. Keeps(att[a], y)
  BY EvolvesOrKeeps DEF GoesOn
<1>2. EveryAttemptStays
  BY <1>1, OneStays DEF Reserved
<1> QED BY <1>2, SameIsServed

LEMMA FailIsServed ==
  ASSUME Reserved, NEW a \in Attempts, Fail(a), UNCHANGED queue,
         att[a].stage \in {"frozen", "assemble", "commit", "ready", "settle"}
  PROVE  Served
<1>1. att[a] \in AttemptType
  BY DEF Reserved, AttemptsTyped
<1>2. PICK z : z = Stopped(att[a], Nobody)
  OBVIOUS
<1>3. z \in AttemptType /\ Marked(att[a], z) /\ z.stopped
  BY <1>1, <1>2, StoppedIsMarked DEF ListedStages
<1>4. PICK y : y = [z EXCEPT !.stage = "rollback", !.launched = TRUE]
  OBVIOUS
<1>5. /\ y \in AttemptType /\ y.stage = "rollback" /\ y.stopped /\ SameGoods(z, y)
  BY <1>3, <1>4 DEF AttemptType, AttemptRecord, ListedStages, SameGoods
<1>6. Fails(att[a], y)
  BY <1>3, <1>5 DEF Fails, Marked, SameGoods
<1>7. att' = [att EXCEPT ![a] = y]
  BY <1>2, <1>4 DEF Fail
<1>8. GoesOn(a, y)
  BY <1>6 DEF GoesOn, Evolves, Fails, SameGoods
<1>9. Keeps(att[a], y)
  BY <1>5, <1>8, EvolvesOrKeeps DEF GoesOn
<1>10. Rolls({a})
  BY DEF Fail, Rolls
<1> QED BY <1>5, <1>7, <1>8, <1>9, <1>10, OneRolls
LEMMA TakeLeaseIsServed ==
  ASSUME Reserved, NEW a \in Attempts, TakeLease(a)
  PROVE  Served
<1>1. att[a] \in AttemptType /\ att[a].stage = "frozen"
  BY DEF Reserved, AttemptsTyped, TakeLease
<1>2. CASE mode = "normal"
 <2>1. PICK y : y = [att[a] EXCEPT !.stage = "assemble", !.launched = TRUE, !.lease = "held"]
   OBVIOUS
 <2>2. y \in AttemptType /\ TakesLease(att[a], y)
   BY <1>1, <1>2, <2>1 DEF AttemptType, AttemptRecord, ListedStages, TakesLease
 <2>3. att' = [att EXCEPT ![a] = y]
   BY <1>2, <2>1 DEF TakeLease, Reserved, AttemptsTyped
 <2>4. UNCHANGED << entry, queue >>
   BY <1>2 DEF TakeLease, requests, connections
 <2>5. GoesOn(a, y)
   BY <2>2 DEF GoesOn, Evolves, TakesLease
 <2>6. att[a].stage \in ListedStages /\ y.stopped => att[a].stopped
   BY <2>2 DEF TakesLease
 <2> QED BY <1>1, <2>2, <2>3, <2>4, <2>5, <2>6, OneGoesOn
<1>3. CASE mode # "normal"
  BY <1>1, <1>3, FailIsServed DEF TakeLease, requests
<1> QED BY <1>2, <1>3

LEMMA AssembleIsServed ==
  ASSUME Reserved, NEW a \in Attempts, Assemble(a)
  PROVE  Served
<1>1. att[a] \in AttemptType /\ att[a].stage = "assemble"
  BY DEF Reserved, AttemptsTyped, Assemble
<1>2. CASE Valid(a) /\ att' = [att EXCEPT ![a].stage = "commit"] /\ UNCHANGED entry
 <2>1. PICK y : y = [att[a] EXCEPT !.stage = "commit"]
   OBVIOUS
 <2>7. Validated(att[a])
   BY <1>1, <1>2 DEF Assemble, Validated
 <2>2. y \in AttemptType /\ Proceeds(att[a], y)
   BY <1>1, <1>2, <2>1, <2>7 DEF AttemptType, AttemptRecord, ListedStages, Proceeds, Valid
 <2>3. att' = [att EXCEPT ![a] = y]
   BY <1>2, <2>1 DEF Reserved, AttemptsTyped
 <2>4. UNCHANGED << entry, queue >>
   BY <1>2 DEF Assemble, requests, connections
 <2>5. GoesOn(a, y)
   BY <2>2 DEF GoesOn, Evolves, Proceeds
 <2>6. att[a].stage \in ListedStages /\ y.stopped => att[a].stopped
   BY <2>2 DEF Proceeds
 <2> QED BY <1>1, <2>2, <2>3, <2>4, <2>5, <2>6, OneGoesOn
<1>3. CASE Fail(a)
  BY <1>1, <1>3, FailIsServed DEF Assemble, requests
<1> QED BY <1>2, <1>3 DEF Assemble

LEMMA CommitIsServed ==
  ASSUME Reserved, NEW a \in Attempts, AttInv(att[a]), Commit(a)
  PROVE  Served
<1>1. att[a] \in AttemptType /\ att[a].stage = "commit"
  BY DEF Reserved, AttemptsTyped, Commit
<1>2. CASE /\ ~att[a].stopped /\ UNCHANGED entry
           /\ att' = [att EXCEPT ![a].stage = "ready", ![a].room = "waiting"]
 <2>1. PICK y : y = [att[a] EXCEPT !.stage = "ready", !.room = "waiting"]
   OBVIOUS
 <2>2. y \in AttemptType /\ Proceeds(att[a], y)
   BY <1>1, <1>2, <2>1 DEF AttemptType, AttemptRecord, ListedStages, LiveStates, Proceeds
 <2>3. att' = [att EXCEPT ![a] = y]
   BY <1>2, <2>1 DEF Reserved, AttemptsTyped
 <2>4. UNCHANGED << entry, queue >>
   BY <1>2 DEF Commit, requests, connections
 <2>5. GoesOn(a, y)
   BY <2>2 DEF GoesOn, Evolves, Proceeds
 <2>6. att[a].stage \in ListedStages /\ y.stopped => att[a].stopped
   BY <2>2 DEF Proceeds
 <2> QED BY <1>1, <2>2, <2>3, <2>4, <2>5, <2>6, OneGoesOn
<1>3. CASE Fail(a)
  BY <1>1, <1>3, FailIsServed DEF Commit, requests
<1> QED BY <1>2, <1>3 DEF Commit

LEMMA ReadyAllIsServed ==
  ASSUME Reserved, NEW a \in Attempts, ReadyAllAndStart(a)
  PROVE  Served
<1>1. att[a] \in AttemptType /\ att[a].stage = "ready"
  BY DEF Reserved, AttemptsTyped, ReadyAllAndStart
<1>2. CASE /\ Valid(a) /\ att[a].room = "waiting" /\ Members(a) = Humans(a) /\ UNCHANGED entry
           /\ att' = [att EXCEPT ![a].stage = "settle", ![a].room = "ready"]
 <2>1. PICK y : y = [att[a] EXCEPT !.stage = "settle", !.room = "ready"]
   OBVIOUS
 <2>7. Validated(att[a])
   BY <1>1, <1>2 DEF ReadyAllAndStart, Validated
 <2>2. y \in AttemptType /\ Proceeds(att[a], y)
   BY <1>1, <1>2, <2>1, <2>7 DEF AttemptType, AttemptRecord, ListedStages, LiveStates, Proceeds, Valid
 <2>3. att' = [att EXCEPT ![a] = y]
   BY <1>2, <2>1 DEF Reserved, AttemptsTyped
 <2>4. UNCHANGED << entry, queue >>
   BY <1>2 DEF ReadyAllAndStart, requests, connections
 <2>5. GoesOn(a, y)
   BY <2>2 DEF GoesOn, Evolves, Proceeds
 <2>6. att[a].stage \in ListedStages /\ y.stopped => att[a].stopped
   BY <2>2 DEF Proceeds
 <2> QED BY <1>1, <2>2, <2>3, <2>4, <2>5, <2>6, OneGoesOn
<1>3. CASE Fail(a)
  BY <1>1, <1>3, FailIsServed DEF ReadyAllAndStart, requests
<1> QED BY <1>2, <1>3 DEF ReadyAllAndStart

LEMMA CommitAttemptIsServed ==
  ASSUME Reserved, NEW a \in Attempts, CommitAttempt(a)
  PROVE  Served
<1>1. att[a] \in AttemptType /\ att[a].stage = "settle"
  BY DEF Reserved, AttemptsTyped, CommitAttempt
<1>2. CASE /\ ~att[a].stopped /\ Live(a)
           /\ att' = [att EXCEPT ![a].stage = "publish", ![a].published = TRUE]
           /\ entry' = [p \in Players |-> IF entry[p].attempt = a THEN NoEntry ELSE entry[p]]
 <2>1. PICK y : y = [att[a] EXCEPT !.stage = "publish", !.published = TRUE]
   OBVIOUS
 <2>2. y \in AttemptType /\ Proceeds(att[a], y)
   BY <1>1, <1>2, <2>1 DEF AttemptType, AttemptRecord, ListedStages, LiveStates, Proceeds, Live
 <2>3. att' = [att EXCEPT ![a] = y]
   BY <1>2, <2>1 DEF Reserved, AttemptsTyped
 <2>4. GoesOn(a, y)
   BY <2>2 DEF GoesOn, Evolves, Proceeds
 <2>5. Frees(a)
   BY <1>2 DEF CommitAttempt, Frees, requests
 <2>6. y.stage \notin ListedStages
   BY <1>1, <2>2 DEF Proceeds, ListedStages
 <2> QED BY <2>2, <2>3, <2>4, <2>5, <2>6, FreesIsServed
<1>3. CASE Fail(a)
  BY <1>1, <1>3, FailIsServed DEF CommitAttempt, requests
<1> QED BY <1>2, <1>3 DEF CommitAttempt

LEMMA WithdrawIsServed ==
  ASSUME Reserved, NEW a \in Attempts, Withdraw(a), UNCHANGED << entry, queue >>,
         att[a].stage \in {"publish", "register"}
  PROVE  Served
<1>1. att[a] \in AttemptType
  BY DEF Reserved, AttemptsTyped
<1>2. PICK x : x = [att[a] EXCEPT !.stage = "withdraw"]
  OBVIOUS
<1>3. /\ x \in AttemptType /\ x.stage = "withdraw" /\ x.bots = att[a].bots
      /\ x.room = att[a].room /\ x.lease = att[a].lease /\ x.humans = att[a].humans
  BY <1>1, <1>2 DEF AttemptType, AttemptRecord, ListedStages
<1>4. CASE Live(a)
 <2>1. PICK y \in AttemptType :
          /\ att' = [att EXCEPT ![a] = y] /\ y.room = "dropped" /\ y.humans = x.humans /\ Empties(a)
          /\ y.stage = x.stage /\ y.bots = x.bots /\ y.lease = x.lease
   BY <1>2, <1>3, <1>4, DropSets DEF Withdraw, Reserved
 <2>2. Withdrawn(att[a], y)
   BY <1>3, <1>4, <2>1 DEF Withdrawn, Dropped, Live, LiveStates
 <2>3. GoesOn(a, y)
   BY <2>2, <2>1 DEF GoesOn, Evolves
 <2> QED BY <1>1, <2>1, <2>3, OneGoesOn DEF ListedStages
<1>5. CASE ~Live(a)
 <2>1. att' = [att EXCEPT ![a] = x]
   BY <1>2, <1>5 DEF Withdraw, Reserved, AttemptsTyped
 <2>2. Withdrawn(att[a], x)
   BY <1>3, <1>5 DEF Withdrawn, Dropped, Live, LiveStates
 <2>3. GoesOn(a, x)
   BY <2>2, <1>3, <1>5 DEF GoesOn, Evolves, Withdrawn, Dropped, Live, LiveStates
 <2> QED BY <1>1, <1>3, <2>1, <2>3, OneGoesOn DEF ListedStages
<1> QED BY <1>4, <1>5

LEMMA PublishJoinedIsServed ==
  ASSUME Reserved, NEW a \in Attempts, PublishJoined(a)
  PROVE  Served
<1>1. att[a] \in AttemptType /\ att[a].stage = "publish"
  BY DEF Reserved, AttemptsTyped, PublishJoined
<1>0. UNCHANGED << entry, queue >>
  BY DEF PublishJoined, requests
<1>2. CASE Withdraw(a)
  BY <1>0, <1>1, <1>2, WithdrawIsServed
<1>3. CASE ~Withdraw(a)
 <2>1. PICK last \in BOOLEAN :
         /\ last <=> att[a].step = Len(att[a].humans)
         /\ att' = [att EXCEPT ![a].step = IF last THEN 1 ELSE @ + 1,
                               ![a].stage = IF last THEN "register" ELSE @]
   BY <1>3 DEF PublishJoined
 <2>2. PICK n : n = IF last THEN 1 ELSE att[a].step + 1
   OBVIOUS
 <2>3. PICK stage : stage = IF last THEN "register" ELSE att[a].stage
   OBVIOUS
 <2>4. PICK y : y = [att[a] EXCEPT !.step = n, !.stage = stage]
   OBVIOUS
 <2>5. att' = [att EXCEPT ![a] = y]
   BY <2>1, <2>2, <2>3, <2>4 DEF Reserved, AttemptsTyped
 <2>6. att[a] \in AttemptRecord /\ (att[a].humans = << >> \/ att[a].step \in 1..Len(att[a].humans))
   BY <1>1 DEF AttemptType
 <2>7. att[a].step \in Nat /\ Len(att[a].humans) \in Nat
   BY <2>6 DEF AttemptRecord
 <2>8. n \in Nat /\ stage \in {"publish", "register"}
   BY <1>1, <2>2, <2>3, <2>7
 <2>9. /\ y \in AttemptRecord /\ y.humans = att[a].humans
       /\ y.stage \in {"publish", "register"} /\ SameGoods(att[a], y) /\ y.step = n
   BY <2>4, <2>6, <2>8 DEF AttemptRecord, SameGoods, ListedStages
 <2>10. y.humans = << >> \/ y.step \in 1..Len(y.humans)
   BY <2>1, <2>2, <2>6, <2>7, <2>9
 <2>11. Published(att[a], y) /\ y \in AttemptType
   BY <1>1, <2>9, <2>10 DEF Published, AttemptType
 <2>12. GoesOn(a, y)
   BY <2>11 DEF GoesOn, Evolves, Published, SameGoods
 <2> QED BY <1>0, <1>1, <2>5, <2>11, <2>12, OneGoesOn DEF ListedStages
<1> QED BY <1>2, <1>3

LEMMA RegisterIsServed ==
  ASSUME Reserved, NEW a \in Attempts, RegisterSession(a)
  PROVE  Served
<1>1. att[a] \in AttemptType /\ att[a].stage = "register"
  BY DEF Reserved, AttemptsTyped, RegisterSession
<1>0. UNCHANGED << entry, queue >>
  BY DEF RegisterSession, requests
<1>2. CASE att' = [att EXCEPT ![a].stage = "start", ![a].lease = "session"]
 <2>1. PICK y : y = [att[a] EXCEPT !.stage = "start", !.lease = "session"]
   OBVIOUS
 <2>2. y \in AttemptType /\ Published(att[a], y)
   BY <1>1, <2>1 DEF AttemptType, AttemptRecord, ListedStages, Published
 <2>3. att' = [att EXCEPT ![a] = y]
   BY <1>2, <2>1 DEF Reserved, AttemptsTyped
 <2>4. GoesOn(a, y)
   BY <2>2 DEF GoesOn, Evolves, Published, SameGoods
 <2> QED BY <1>0, <1>1, <2>2, <2>3, <2>4, OneGoesOn DEF ListedStages
<1>3. CASE Withdraw(a)
  BY <1>0, <1>1, <1>3, WithdrawIsServed
<1> QED BY <1>2, <1>3 DEF RegisterSession

LEMMA StartIsServed ==
  ASSUME Reserved, NEW a \in Attempts, StartSession(a)
  PROVE  Served
<1>1. att[a] \in AttemptType /\ att[a].stage = "start"
  BY DEF Reserved, AttemptsTyped, StartSession
<1>0. UNCHANGED << entry, queue >>
  BY DEF StartSession, requests
<1>2. CASE Current(a)
 <2>1. PICK x : x = [att[a] EXCEPT !.stage = "done", !.room = "playing"]
   OBVIOUS
 <2>2. /\ x \in AttemptType /\ x.stage = "done" /\ x.room = "playing"
       /\ x.bots = att[a].bots /\ x.lease = att[a].lease /\ x.humans = att[a].humans
   BY <1>1, <2>1 DEF AttemptType, AttemptRecord, LiveStates
 <2>3. att' = [att EXCEPT ![a] = Over(x)]
   BY <1>2, <2>1 DEF StartSession
 <2>4. Plays(att[a], Over(x)) /\ Over(x) \in AttemptType
   BY <1>1, <1>2, <2>2, OverEnds DEF Plays, Current, Live, LiveStates
 <2>5. GoesOn(a, Over(x))
   BY <2>4, <1>2 DEF GoesOn, Evolves, Plays, Ends
 <2> QED BY <1>0, <1>1, <2>3, <2>4, <2>5, OneGoesOn DEF ListedStages
<1>3. CASE ~Current(a)
 <2>1. PICK x : x = [att[a] EXCEPT !.stage = "done", !.lease = "none"]
   OBVIOUS
 <2>2. /\ x \in AttemptType /\ x.stage = "done" /\ x.room = att[a].room
       /\ x.bots = att[a].bots /\ x.lease = "none"
   BY <1>1, <2>1 DEF AttemptType, AttemptRecord
 <2>3. att' = [att EXCEPT ![a] = Over(x)]
   BY <1>3, <2>1 DEF StartSession
 <2>4. EndsWithout(att[a], Over(x)) /\ Over(x) \in AttemptType
   BY <1>1, <2>2, OverEnds DEF EndsWithout
 <2>5. GoesOn(a, Over(x))
   BY <2>4 DEF GoesOn, Evolves, EndsWithout, Ends
 <2> QED BY <1>0, <1>1, <2>3, <2>4, <2>5, OneGoesOn DEF ListedStages
<1> QED BY <1>2, <1>3

LEMMA ReleaseWithdrawnIsServed ==
  ASSUME Reserved, NEW a \in Attempts, ReleaseWithdrawn(a)
  PROVE  Served
<1>1. att[a] \in AttemptType /\ att[a].stage = "withdraw"
  BY DEF Reserved, AttemptsTyped, ReleaseWithdrawn
<1>2. PICK x : x = [att[a] EXCEPT !.stage = "done", !.lease = "none"]
  OBVIOUS
<1>3. /\ x \in AttemptType /\ x.stage = "done" /\ x.room = att[a].room
      /\ x.bots = att[a].bots /\ x.lease = "none"
  BY <1>1, <1>2 DEF AttemptType, AttemptRecord
<1>4. att' = [att EXCEPT ![a] = Over(x)]
  BY <1>2 DEF ReleaseWithdrawn
<1>5. EndsWithout(att[a], Over(x)) /\ Over(x) \in AttemptType
  BY <1>1, <1>3, OverEnds DEF EndsWithout
<1>6. UNCHANGED << entry, queue >>
  BY DEF ReleaseWithdrawn, requests
<1>7. GoesOn(a, Over(x))
  BY <1>5 DEF GoesOn, Evolves, EndsWithout, Ends
<1> QED BY <1>1, <1>4, <1>5, <1>6, <1>7, OneGoesOn DEF ListedStages

LEMMA RollbackIsServed ==
  ASSUME Reserved, NEW a \in Attempts, RollbackRoom(a)
  PROVE  Served
<1>1. att[a] \in AttemptType /\ att[a].stage = "rollback"
  BY DEF Reserved, AttemptsTyped, RollbackRoom
<1>0. UNCHANGED << entry, queue >>
  BY DEF RollbackRoom, requests
<1>2. PICK x : x = [att[a] EXCEPT !.stage = "notify"]
  OBVIOUS
<1>3. /\ x \in AttemptType /\ x.stage = "notify" /\ x.bots = att[a].bots
      /\ x.room = att[a].room /\ x.lease = att[a].lease /\ x.humans = att[a].humans
      /\ x.published = att[a].published /\ x.stopped = att[a].stopped
  BY <1>1, <1>2 DEF AttemptType, AttemptRecord, ListedStages
<1>4. CASE Live(a)
 <2>1. PICK y \in AttemptType :
          /\ att' = [att EXCEPT ![a] = y] /\ y.room = "dropped" /\ y.humans = x.humans /\ Empties(a)
          /\ y.stage = x.stage /\ y.bots = x.bots /\ y.lease = x.lease
          /\ y.published = x.published /\ y.stopped = x.stopped
   BY <1>2, <1>3, <1>4, DropSets DEF RollbackRoom, Reserved
 <2>2. RollsBack(att[a], y)
   BY <1>1, <1>3, <1>4, <2>1 DEF RollsBack, Dropped, Live, LiveStates
 <2>3. GoesOn(a, y)
   BY <2>2, <2>1 DEF GoesOn, Evolves
 <2> QED BY <1>0, <1>1, <1>3, <2>1, <2>3, OneGoesOn
<1>5. CASE ~Live(a)
 <2>1. att' = [att EXCEPT ![a] = x]
   BY <1>2, <1>5 DEF RollbackRoom, Reserved, AttemptsTyped
 <2>2. RollsBack(att[a], x)
   BY <1>1, <1>3, <1>5 DEF RollsBack, Dropped, Live, LiveStates
 <2>3. GoesOn(a, x)
   BY <2>2, <1>3, <1>5 DEF GoesOn, Evolves
 <2> QED BY <1>0, <1>1, <1>3, <2>1, <2>3, OneGoesOn
<1> QED BY <1>4, <1>5

LEMMA NotifyIsServed ==
  ASSUME Reserved, NEW a \in Attempts, NotifyRolledBack(a)
  PROVE  Served
<1>1. att[a] \in AttemptType /\ att[a].stage = "notify"
  BY DEF Reserved, AttemptsTyped, NotifyRolledBack
<1>2. PICK last \in BOOLEAN :
        /\ last <=> att[a].step = Len(att[a].humans)
        /\ att' = [att EXCEPT ![a].step = IF last THEN 1 ELSE @ + 1,
                              ![a].stage = IF last THEN "release" ELSE @]
  BY DEF NotifyRolledBack
<1>3. PICK n : n = IF last THEN 1 ELSE att[a].step + 1
  OBVIOUS
<1>4. PICK stage : stage = IF last THEN "release" ELSE att[a].stage
  OBVIOUS
<1>5. PICK y : y = [att[a] EXCEPT !.step = n, !.stage = stage]
  OBVIOUS
<1>6. att' = [att EXCEPT ![a] = y]
  BY <1>2, <1>3, <1>4, <1>5 DEF Reserved, AttemptsTyped
<1>7. att[a] \in AttemptRecord /\ (att[a].humans = << >> \/ att[a].step \in 1..Len(att[a].humans))
  BY <1>1 DEF AttemptType
<1>8. att[a].step \in Nat /\ Len(att[a].humans) \in Nat
  BY <1>7 DEF AttemptRecord
<1>9. n \in Nat /\ stage \in {"notify", "release"}
  BY <1>1, <1>3, <1>4, <1>8
<1>10. /\ y \in AttemptRecord /\ y.humans = att[a].humans /\ y.stopped = att[a].stopped
       /\ y.stage \in {"notify", "release"} /\ SameGoods(att[a], y) /\ y.step = n
  BY <1>5, <1>7, <1>9 DEF AttemptRecord, SameGoods, ListedStages
<1>11. y.humans = << >> \/ y.step \in 1..Len(y.humans)
  BY <1>2, <1>3, <1>7, <1>8, <1>10
<1>12. Notifies(att[a], y) /\ y \in AttemptType
  BY <1>1, <1>10, <1>11 DEF Notifies, AttemptType
<1>13. UNCHANGED << entry, queue >>
  BY DEF NotifyRolledBack, requests
<1>14. GoesOn(a, y)
  BY <1>12 DEF GoesOn, Evolves, Notifies, SameGoods
<1> QED BY <1>1, <1>6, <1>10, <1>12, <1>13, <1>14, OneGoesOn

LEMMA ReleaseIsServed ==
  ASSUME Reserved, NEW a \in Attempts, Release(a)
  PROVE  Served
<1>1. att[a] \in AttemptType /\ att[a].stage = "release"
  BY DEF Reserved, AttemptsTyped, Release
<1>2. PICK x : x = [att[a] EXCEPT !.stage = "done", !.lease = "none",
                      !.bots = IF att[a].room = "none" /\ @ = "open" THEN "closed" ELSE @]
  OBVIOUS
<1>3. /\ x \in AttemptType /\ x.stage = "done" /\ x.lease = "none" /\ x.room = att[a].room
      /\ x.published = att[a].published
      /\ x.bots = IF att[a].room = "none" /\ att[a].bots = "open" THEN "closed" ELSE att[a].bots
  BY <1>1, <1>2 DEF AttemptType, AttemptRecord
<1>4. att' = [att EXCEPT ![a] = Over(x)]
  BY <1>2 DEF Release
<1>5. Releases(att[a], Over(x)) /\ Over(x) \in AttemptType
  BY <1>1, <1>3, OverEnds DEF Releases
<1>6. GoesOn(a, Over(x))
  BY <1>5 DEF GoesOn, Evolves, Releases, Ends
<1>7. Frees(a)
  BY DEF Release, Frees
<1>8. Over(x).stage \notin ListedStages
  BY <1>3, OverEnds DEF Ends, ListedStages
<1> QED BY <1>4, <1>5, <1>6, <1>7, <1>8, FreesIsServed

LEMMA WorkerIsServed ==
  ASSUME Reserved, NEW a \in Attempts, AttInv(att[a]), Worker(a)
  PROVE  Served
  BY TakeLeaseIsServed, AssembleIsServed, CommitIsServed, ReadyAllIsServed, CommitAttemptIsServed,
     PublishJoinedIsServed, RegisterIsServed, StartIsServed, ReleaseWithdrawnIsServed,
     RollbackIsServed, NotifyIsServed, ReleaseIsServed DEF Worker

-----------------------------------------------------------------------------
(* The other steps                                                         *)

\* Two states of the attempts that differ in who has been launched at most.
Alike(f, g) ==
  \A a \in Attempts : SameGoods(f[a], g[a]) /\ g[a].stage = f[a].stage /\ g[a].stopped = f[a].stopped

LEMMA LaunchedAlike ==
  ASSUME NEW f \in [Attempts -> AttemptType], NEW h
  PROVE  Launched(f, h) \in [Attempts -> AttemptType] /\ Alike(f, Launched(f, h))
<1>1. ASSUME NEW a \in Attempts
      PROVE  /\ Launched(f, h)[a] \in AttemptType
             /\ SameGoods(f[a], Launched(f, h)[a]) /\ Launched(f, h)[a].stage = f[a].stage
             /\ Launched(f, h)[a].stopped = f[a].stopped
 <2>1. PICK y : y = [f[a] EXCEPT !.launched = TRUE]
   OBVIOUS
 <2>2. Launched(f, h)[a] = y \/ Launched(f, h)[a] = f[a]
   BY <2>1 DEF Launched
 <2>3. f[a] \in AttemptType
   OBVIOUS
 <2>4. /\ y \in AttemptType /\ SameGoods(f[a], y) /\ y.stage = f[a].stage
       /\ y.stopped = f[a].stopped
   BY <2>1, <2>3 DEF AttemptType, AttemptRecord, SameGoods
 <2> QED BY <2>2, <2>3, <2>4 DEF SameGoods
<1>2. Launched(f, h) = [a \in Attempts |-> Launched(f, h)[a]]
  BY DEF Launched
<1>3. Launched(f, h) \in [Attempts -> AttemptType]
  BY <1>1, <1>2
<1> QED BY <1>1, <1>3 DEF Alike

LEMMA AllMarked ==
  ASSUME AttemptsTyped', \A a \in Attempts : Marked(att[a], att'[a])
  PROVE  EveryAttemptEvolves /\ EveryAttemptKeeps
<1>1. EveryAttemptEvolves
  BY DEF EveryAttemptEvolves, GoesOn, Evolves, Marked, SameGoods
<1>2. EveryAttemptKeeps
  BY DEF EveryAttemptKeeps, Keeps, Marked, SameGoods
<1> QED BY <1>1, <1>2

LEMMA AlikeStays ==
  ASSUME AttemptsTyped', Alike(att, att')
  PROVE  EveryAttemptStays
<1>1. \A a \in Attempts : Marked(att[a], att'[a]) /\ NotStopped(a)
  BY DEF Alike, Marked, StaysStopped, NotStopped
<1> QED BY <1>1, AllMarked DEF EveryAttemptStays

\* An entry that is inflight is in an attempt that is listed.
LEMMA InflightIsListed ==
  ASSUME Reserved, NEW p \in Players, entry[p].state = "inflight"
  PROVE  entry[p].attempt \in Attempts /\ att[entry[p].attempt].stage \in ListedStages
<1>1. EntryFits(entry[p]) /\ entry[p] \in EntryRecord
  BY DEF Reserved, RequestsFit, EntriesFit, RequestsTyped
<1>2. entry[p].attempt \in Attempts
  BY <1>1, AttemptsNat DEF EntryFits, EntryRecord
<1>3. Serves(p, entry[p].attempt)
  BY <1>2 DEF Reserved, AttemptsServe
<1> QED BY <1>2, <1>3 DEF Serves

\* Cancelling an attempt, and whatever is launched with it.
LEMMA StopIsServed ==
  ASSUME Reserved, NEW a \in Attempts, NEW by \in Players \cup {Nobody},
         att[a].stage \in ListedStages, Rolls({a}), AttemptsTyped',
         Alike([att EXCEPT ![a] = Stopped(att[a], by)], att')
  PROVE  Served
<1>1. att \in [Attempts -> AttemptType] /\ att[a] \in AttemptType
  BY DEF Reserved, AttemptsTyped
<1>2. PICK z : z = Stopped(att[a], by)
  OBVIOUS
<1>3. z \in AttemptType /\ Marked(att[a], z)
  BY <1>1, <1>2, StoppedIsMarked
<1>4. PICK f : f = [att EXCEPT ![a] = z]
  OBVIOUS
<1>5. Alike(f, att') /\ f[a] = z /\ \A b \in Attempts : b # a => f[b] = att[b]
  BY <1>1, <1>2, <1>4
<1>6. ASSUME NEW b \in Attempts PROVE Marked(att[b], att'[b]) /\ (b # a => NotStopped(b))
 <2>1. SameGoods(f[b], att'[b]) /\ att'[b].stage = f[b].stage /\ att'[b].stopped = f[b].stopped
   BY <1>5 DEF Alike
 <2>2. CASE b = a
   BY <1>3, <1>5, <2>1, <2>2 DEF Marked, SameGoods, StaysStopped
 <2>3. CASE b # a
   BY <1>5, <2>1, <2>3 DEF Marked, SameGoods, StaysStopped, NotStopped
 <2> QED BY <2>2, <2>3
<1>7. EveryAttemptEvolves /\ EveryAttemptKeeps
  BY <1>6, AllMarked
<1>8. \A b \in Attempts : b \notin {a} => NotStopped(b)
  BY <1>6
<1> QED BY <1>7, <1>8, RollsIsServed

\* cancelEntryLocked, and whatever is launched with it.
LEMMA CancelledIsServed ==
  ASSUME Reserved, NEW p \in Players, NEW by \in Players \cup {Nobody}, NEW c,
         c = Cancelled(p, by), entry' = c.entry, queue' = c.queue,
         AttemptsTyped', Alike(c.att, att')
  PROVE  Served
<1>1. CASE entry[p].state = "queued"
 <2>1. /\ c.entry = [entry EXCEPT ![p] = NoEntry] /\ c.queue = WithoutPlayer(p)
       /\ c.att = att
   BY <1>1 DEF Cancelled
 <2>2. TakesOut(p)
   BY <1>1, <2>1 DEF TakesOut
 <2>3. EveryAttemptStays
   BY <2>1, AlikeStays
 <2> QED BY <2>2, <2>3, TakesOutIsServed
<1>2. CASE entry[p].state = "inflight"
 <2>1. PICK a : a = entry[p].attempt
   OBVIOUS
 <2>2. a \in Attempts /\ att[a].stage \in ListedStages
   BY <1>2, <2>1, InflightIsListed
 <2>3. /\ c.entry = RolledBack({a}) /\ c.queue = queue
       /\ c.att = [att EXCEPT ![a] = Stopped(att[a], by)]
   BY <1>2, <2>1 DEF Cancelled
 <2>4. Rolls({a})
   BY <2>3 DEF Rolls
 <2> QED BY <2>2, <2>3, <2>4, StopIsServed
<1>3. CASE entry[p].state \notin {"queued", "inflight"}
 <2>1. c.entry = entry /\ c.queue = queue /\ c.att = att
   BY <1>3 DEF Cancelled
 <2>2. EveryAttemptStays
   BY <2>1, AlikeStays
 <2> QED BY <2>1, <2>2, SameIsServed
<1> QED BY <1>1, <1>2, <1>3

LEMMA CancelledTyped ==
  ASSUME Reserved, NEW p \in Players, NEW by \in Players \cup {Nobody}
  PROVE  Cancelled(p, by).att \in [Attempts -> AttemptType]
<1>1. att \in [Attempts -> AttemptType]
  BY DEF Reserved, AttemptsTyped
<1>2. CASE entry[p].state = "inflight"
 <2>1. PICK a : a = entry[p].attempt
   OBVIOUS
 <2>2. a \in Attempts /\ att[a].stage \in ListedStages
   BY <1>2, <2>1, InflightIsListed
 <2>3. Cancelled(p, by).att = [att EXCEPT ![a] = Stopped(att[a], by)]
   BY <1>2, <2>1 DEF Cancelled
 <2>4. Stopped(att[a], by) \in AttemptType
   BY <1>1, <2>2, StoppedIsMarked
 <2> QED BY <1>1, <2>3, <2>4
<1>3. CASE entry[p].state # "inflight"
  BY <1>1, <1>3 DEF Cancelled
<1> QED BY <1>2, <1>3

LEMMA CancelEntryIsServed ==
  ASSUME Reserved, NEW h \in Handles, NEW by \in Players \cup {Nobody}, CancelEntry(h, by)
  PROVE  Served
<1>1. CASE Owns(h)
 <2>1. PICK c : /\ c = Cancelled(h[1], by)
                /\ entry' = c.entry /\ queue' = c.queue /\ att' = c.att
   BY <1>1 DEF CancelEntry
 <2>2. h[1] \in Players
   BY Handle
 <2>3. AttemptsTyped'
   BY <2>1, <2>2, CancelledTyped DEF AttemptsTyped
 <2>4. Alike(c.att, att')
   BY <2>1 DEF Alike, SameGoods
 <2> QED BY <2>1, <2>2, <2>3, <2>4, CancelledIsServed
<1>2. CASE ~Owns(h)
 <2>1. UNCHANGED << entry, queue >> /\ UNCHANGED att
   BY <1>2 DEF CancelEntry, requests
 <2>2. EveryAttemptStays
   BY <2>1, AttemptsSame DEF Reserved
 <2> QED BY <2>1, <2>2, SameIsServed
<1> QED BY <1>1, <1>2

LEMMA NothingIsServed ==
  ASSUME Reserved, UNCHANGED << entry, queue, att >>
  PROVE  Served
<1>1. EveryAttemptStays
  BY AttemptsSame DEF Reserved
<1> QED BY <1>1, SameIsServed

\* A handle that is bound to a room of a match is bound to one that is there.
SeatsLive == \A h \in Handles : room[h] \in Attempts => Live(room[h])

LEMMA EnqueueIsServed ==
  ASSUME Reserved, NEW h \in Handles, Enqueue(h)
  PROVE  Served
<1>1. PICK p \in Players : p = h[1] /\ h[2] \in 1..Links[p]
  BY Handle
<1>2. PICK e : e = [entry EXCEPT ![p] = [client |-> h[2], state |-> "queued", attempt |-> 0]]
  OBVIOUS
<1>3. mode = "normal" /\ ~closed /\ entry[p] = NoEntry
  BY <1>1 DEF Enqueue, MayRequest
<1>4. CASE entry' = e /\ queue' = Append(queue, p) /\ UNCHANGED att
 <2>1. PutsIn(h)
   BY <1>1, <1>2, <1>3, <1>4 DEF PutsIn
 <2>2. EveryAttemptStays
   BY <1>4, AttemptsSame DEF Reserved
 <2> QED BY <1>3, <2>1, <2>2, PutsInIsServed
<1>5. CASE Free # {} /\ Freeze(Append(queue, p), e, 0, FALSE) /\ queue' = << >>
 <2>1. PICK q : q = Append(queue, p)
   OBVIOUS
 <2>2. entry \in [Players -> EntryRecord] /\ queue \in Seq(Players) /\ Len(queue) \in Nat
   BY DEF Reserved, RequestsFit, RequestsTyped
 <2>3. /\ q \in Seq(Players) /\ Len(q) = Len(queue) + 1 /\ q[Len(queue) + 1] = p /\ q # << >>
       /\ \A i \in 1..Len(queue) : q[i] = queue[i]
   BY <2>1, <2>2
 <2>4. \A c \in Players : IsIn(c, q) <=> IsIn(c, queue) \/ c = p
  <3>1. ASSUME NEW c \in Players, IsIn(c, q) PROVE IsIn(c, queue) \/ c = p
    BY <2>2, <2>3, <3>1 DEF IsIn
  <3>2. ASSUME NEW c \in Players, IsIn(c, queue) PROVE IsIn(c, q)
    BY <2>2, <2>3, <3>2 DEF IsIn
  <3>3. IsIn(p, q)
    BY <2>2, <2>3 DEF IsIn
  <3> QED BY <3>1, <3>2, <3>3
 <2>5. /\ \A c \in Players : c # p => e[c] = entry[c]
       /\ e[p].client = h[2]
   BY <1>2, <2>2
 <2>6. \A c \in Players : entry[c].state = "queued" <=> IsIn(c, queue)
   BY DEF Reserved, RequestsFit, EntriesFit
 <2>7. \A c \in Players : IsIn(c, queue) => entry[c].client \in 1..Links[c]
  <3>1. \A c \in Players : entry[c].client \in 0..Links[c] /\ Links[c] \in Nat /\ EntryFits(entry[c])
    BY LinksNat DEF Reserved, RequestsFit, RequestsTyped, EntriesFit
  <3> QED BY <2>6, <3>1 DEF EntryFits
 <2>8. MayFreeze(q, e)
  <3>1. ASSUME NEW c \in Players, IsIn(c, q)
        PROVE  e[c].client \in 1..Links[c] /\ entry[c].state \in {"none", "queued"}
   <4>1. CASE c = p
     BY <1>1, <1>3, <2>5, <4>1 DEF NoEntry
   <4>2. CASE c # p
     BY <2>4, <2>5, <2>6, <2>7, <3>1, <4>2
   <4> QED BY <4>1, <4>2
  <3>2. ASSUME NEW c \in Players, ~IsIn(c, q) PROVE e[c] = entry[c]
    BY <2>4, <2>5, <3>2
  <3>3. \A c \in Players : entry[c].state = "queued" => IsIn(c, q)
    BY <2>4, <2>6
  <3> QED BY <1>5, <2>3, <3>1, <3>2, <3>3 DEF MayFreeze
 <2>9. Freeze(q, e, 0, FALSE)
   BY <1>5, <2>1
 <2> QED BY <1>3, <1>5, <2>8, <2>9, FreezeIsServed
<1> QED BY <1>1, <1>2, <1>4, <1>5 DEF Enqueue

LEMMA PracticeIsServed ==
  ASSUME Reserved, NEW h \in Handles, PracticeMatch(h)
  PROVE  Served
<1>1. PICK p \in Players : p = h[1] /\ h[2] \in 1..Links[p]
  BY Handle
<1>2. PICK e : e = [entry EXCEPT ![p].client = h[2]]
  OBVIOUS
<1>3. PICK q : q = << p >>
  OBVIOUS
<1>4. /\ mode = "normal" /\ ~closed /\ entry[p] = NoEntry /\ Free # {}
      /\ Freeze(q, e, 2, FALSE) /\ queue' = queue
  BY <1>1, <1>2, <1>3 DEF PracticeMatch, MayRequest
<1>5. entry \in [Players -> EntryRecord]
  BY DEF Reserved, RequestsFit, RequestsTyped
<1>6. q \in Seq(Players) /\ Len(q) = 1 /\ q[1] = p /\ q # << >>
  BY <1>3
<1>7. \A c \in Players : IsIn(c, q) <=> c = p
  BY <1>6 DEF IsIn
<1>8. e[p].client = h[2] /\ \A c \in Players : c # p => e[c] = entry[c]
  BY <1>2, <1>4, <1>5 DEF NoEntry
<1>9. MayFreeze(q, e)
  BY <1>1, <1>4, <1>6, <1>7, <1>8 DEF MayFreeze, NoEntry
<1> QED BY <1>4, <1>9, FreezeIsServed

\* The bot-fill timer is only set with somebody in the queue.
FillFits == fill # "off" => queue # << >>

LEMMA BotFillIsServed ==
  ASSUME Reserved, FillFits, CommitBotFill
  PROVE  Served
<1>1. PICK e : e = entry
  OBVIOUS
<1>2. PICK q : q = queue
  OBVIOUS
<1>3. PICK b : b = 3 - Len(queue)
  OBVIOUS
<1>4. Free # {} /\ Freeze(q, e, b, TRUE) /\ queue' = << >>
  BY <1>1, <1>2, <1>3 DEF CommitBotFill
<1>5. \A c \in Players : /\ entry[c].state = "queued" <=> IsIn(c, q)
                         /\ entry[c].client \in 0..Links[c] /\ EntryFits(entry[c])
  BY <1>2 DEF Reserved, RequestsFit, EntriesFit, RequestsTyped
<1>6. \A c \in Players : IsIn(c, q) => e[c].client \in 1..Links[c]
  BY <1>1, <1>5, LinksNat DEF EntryFits
<1>7. q \in Seq(Players) /\ q # << >>
  BY <1>2 DEF Reserved, RequestsFit, RequestsTyped, FillFits, CommitBotFill
<1>8. MayFreeze(q, e)
  BY <1>1, <1>4, <1>5, <1>6, <1>7 DEF MayFreeze
<1>9. PICK n \in Attempts, y \in AttemptType : FrozenAs(q, e, n, y)
  BY <1>4, <1>8, FrozenIs DEF Reserved
<1>10. \A c \in Players : ~IsIn(c, q) => entry'[c] = entry[c]
  BY <1>9 DEF FrozenAs
<1>11. LetsNobodyIn
 <2>1. ASSUME NEW c \in Players, entry[c] = NoEntry PROVE entry'[c] = NoEntry
  <3>1. ~IsIn(c, q)
    BY <1>5, <2>1 DEF NoEntry
  <3> QED BY <1>10, <2>1, <3>1
 <2> QED BY <1>4, <2>1 DEF LetsNobodyIn
<1> QED BY <1>4, <1>8, <1>11, FreezeIsServed

LEMMA PublishQueuedIsServed ==
  ASSUME Reserved, NEW h \in Handles, PublishQueued(h)
  PROVE  Served
<1>1. UNCHANGED << entry, queue >>
  BY DEF PublishQueued, requests
<1>2. CASE UNCHANGED att
  BY <1>1, <1>2, NothingIsServed
<1>3. CASE att' = Launched(att, h)
 <2>1. AttemptsTyped' /\ Alike(att, att')
   BY <1>3, LaunchedAlike DEF Reserved, AttemptsTyped
 <2> QED BY <1>1, <2>1, AlikeStays, SameIsServed
<1> QED BY <1>2, <1>3 DEF PublishQueued

LEMMA SendQueuedIsServed ==
  ASSUME Reserved, NEW h \in Handles, SendQueued(h)
  PROVE  Served
<1>1. h[1] \in Players
  BY Handle
<1>2. CASE Owns(h) /\ ~Reaches(h)
 <2>1. PICK c : /\ c = Cancelled(h[1], Nobody) /\ entry' = c.entry /\ queue' = c.queue
                /\ att' = Launched(c.att, h)
   BY <1>2 DEF SendQueued
 <2>2. c.att \in [Attempts -> AttemptType]
   BY <1>1, <2>1, CancelledTyped
 <2>3. AttemptsTyped' /\ Alike(c.att, att')
   BY <2>1, <2>2, LaunchedAlike DEF AttemptsTyped
 <2> QED BY <1>1, <2>1, <2>3, CancelledIsServed
<1>3. CASE ~(Owns(h) /\ ~Reaches(h))
 <2>1. entry' = entry /\ queue' = queue /\ att' = Launched(att, h)
   BY <1>3 DEF SendQueued
 <2>2. AttemptsTyped' /\ Alike(att, att')
   BY <2>1, LaunchedAlike DEF Reserved, AttemptsTyped
 <2> QED BY <2>1, <2>2, AlikeStays, SameIsServed
<1> QED BY <1>2, <1>3

\* A room that is dropped when its last player leaves it.
LEMMA DropIsServed ==
  ASSUME Reserved, NEW a \in Attempts, Live(a), NEW x \in AttemptType, Drop(a, x, FALSE),
         x.stage = att[a].stage, x.humans = att[a].humans, x.bots = att[a].bots,
         x.lease = att[a].lease, x.stopped = att[a].stopped,
         x.published => att[a].published, UNCHANGED << entry, queue >>
  PROVE  Served
<1>1. PICK y \in AttemptType :
        /\ att' = [att EXCEPT ![a] = y] /\ y.room = "dropped"
        /\ y.stage = x.stage /\ y.bots = x.bots /\ y.published = x.published
        /\ y.lease = x.lease /\ y.stopped = x.stopped /\ y.humans = x.humans /\ Empties(a)
  BY DropSets DEF Reserved
<1>2. LosesRoom(att[a], y)
  BY <1>1 DEF LosesRoom, Live, LiveStates
<1>3. GoesOn(a, y)
  BY <1>2, <1>1 DEF GoesOn, Evolves
<1> QED BY <1>1, <1>3, OneGoesOn

LEMMA LeaveRoomIsServed ==
  ASSUME Reserved, NEW h \in Handles, LeaveRoom(h)
  PROVE  Served
<1>1. PICK a \in Attempts :
        /\ att[a].room = "waiting"
        /\ Drop(a, att[a], FALSE) \/ UNCHANGED att
        /\ UNCHANGED << entry, queue >>
  BY DEF LeaveRoom, requests
<1>2. att[a] \in AttemptType /\ Live(a)
  BY <1>1 DEF Reserved, AttemptsTyped, Live
<1>3. CASE Drop(a, att[a], FALSE)
  BY <1>1, <1>2, <1>3, DropIsServed
<1>4. CASE UNCHANGED att
  BY <1>1, <1>4, NothingIsServed
<1> QED BY <1>1, <1>3, <1>4

LEMMA GoOfflineIsServed ==
  ASSUME Reserved, SeatsLive, NEW h \in Handles, GoOffline(h)
  PROVE  Served
<1>1. UNCHANGED << entry, queue >>
  BY DEF GoOffline, requests
<1>2. CASE UNCHANGED att
  BY <1>1, <1>2, NothingIsServed
<1>3. CASE att' # att
 <2>1. PICK a : a = room[h]
   OBVIOUS
 <2>2. a \in Attempts /\ Drop(a, att[a], FALSE)
   BY <1>3, <2>1 DEF GoOffline
 <2>3. att[a] \in AttemptType /\ Live(a)
   BY <2>1, <2>2 DEF Reserved, AttemptsTyped, SeatsLive
 <2> QED BY <1>1, <2>2, <2>3, DropIsServed
<1> QED BY <1>2, <1>3

LEMMA TimeOutIsServed ==
  ASSUME Reserved, NEW a \in Attempts, TimeOutRoom(a)
  PROVE  Served
<1>1. /\ att[a] \in AttemptType /\ Live(a) /\ Drop(a, att[a], FALSE)
      /\ UNCHANGED << entry, queue >>
  BY DEF Reserved, AttemptsTyped, TimeOutRoom, Live, requests
<1> QED BY <1>1, DropIsServed

LEMMA CloseRoomIsServed ==
  ASSUME Reserved, NEW a \in Attempts, CloseRoom(a)
  PROVE  Served
<1>1. att[a] \in AttemptType /\ UNCHANGED << entry, queue >>
  BY DEF Reserved, AttemptsTyped, CloseRoom, requests
<1>2. PICK x : x = [att[a] EXCEPT !.published = FALSE]
  OBVIOUS
<1>3. /\ x \in AttemptType /\ x.stage = att[a].stage /\ x.humans = att[a].humans
      /\ x.bots = att[a].bots /\ x.lease = att[a].lease /\ x.stopped = att[a].stopped
      /\ x.room = att[a].room /\ ~x.published
  BY <1>1, <1>2 DEF AttemptType, AttemptRecord
<1>4. CASE Live(a)
 <2>1. Drop(a, x, FALSE)
   BY <1>2, <1>4 DEF CloseRoom
 <2> QED BY <1>1, <1>3, <1>4, <2>1, DropIsServed
<1>5. CASE ~Live(a)
 <2>1. att' = [att EXCEPT ![a] = x]
   BY <1>2, <1>5 DEF CloseRoom, Reserved, AttemptsTyped
 <2>2. Unpublished(att[a], x)
   BY <1>3, <1>5 DEF Unpublished, Live, LiveStates
 <2>3. GoesOn(a, x)
   BY <2>2 DEF GoesOn, Evolves, Unpublished
 <2> QED BY <1>1, <1>3, <2>1, <2>3, OneGoesOn
<1> QED BY <1>4, <1>5

LEMMA DispatchIsServed ==
  ASSUME Reserved, NEW a \in Attempts, DispatchRemoval(a)
  PROVE  Served
<1>1. att[a] \in AttemptType /\ att[a] \in AttemptRecord /\ att[a].room = "dropped"
  BY DEF Reserved, AttemptsTyped, AttemptType, DispatchRemoval
<1>2. PICK bots \in {"none", "open", "closed"} :
        bots = IF att[a].bots = "open" THEN "closed" ELSE att[a].bots
  BY <1>1 DEF AttemptRecord
<1>3. PICK lease \in {"none", "held", "session"} :
        lease = IF att[a].lease = "session" THEN "none" ELSE att[a].lease
  BY <1>1 DEF AttemptRecord
<1>4. PICK r : r = [att[a] EXCEPT !.room = "gone", !.left = {}, !.published = FALSE,
                                  !.bots = bots, !.lease = lease]
  OBVIOUS
<1>5. {} \in SUBSET Handles
  OBVIOUS
<1>6. /\ r \in AttemptType /\ r.stage = att[a].stage /\ r.bots = bots /\ r.room = "gone"
      /\ r.lease = lease /\ ~r.published /\ r.stopped = att[a].stopped
      /\ r.humans = att[a].humans
  BY <1>1, <1>4, <1>5 DEF AttemptType, AttemptRecord
<1>7. att' = [att EXCEPT ![a] = IF Listed(a) THEN Stopped(r, Nobody) ELSE Over(r)]
  BY <1>2, <1>3, <1>4 DEF DispatchRemoval
<1>8. Rolls({a})
  BY DEF DispatchRemoval, Rolls
<1>9. Listed(a) <=> att[a].stage \in ListedStages
  BY DEF Listed, ListedStages
<1>10. CASE Listed(a)
 <2>1. PICK y : y = Stopped(r, Nobody)
   OBVIOUS
 <2>2. y \in AttemptType /\ Marked(r, y)
   BY <1>6, <1>9, <1>10, <2>1, StoppedIsMarked
 <2>3. IsRemoved(att[a], y)
   BY <1>1, <1>2, <1>3, <1>6, <2>2 DEF IsRemoved, Marked, SameGoods, StaysStopped
 <2>4. GoesOn(a, y)
   BY <2>3, <1>6, <2>2 DEF GoesOn, Evolves, Marked, SameGoods
 <2>5. Keeps(att[a], y)
   BY <1>6, <2>2 DEF Keeps, Marked, SameGoods
 <2>6. att' = [att EXCEPT ![a] = y]
   BY <1>7, <1>10, <2>1
 <2> QED BY <1>8, <2>2, <2>4, <2>5, <2>6, OneRolls
<1>11. CASE ~Listed(a) /\ att[a].stage # "done"
 <2>1. att' = [att EXCEPT ![a] = r]
   BY <1>6, <1>7, <1>11 DEF Over
 <2>2. IsRemoved(att[a], r)
   BY <1>1, <1>2, <1>3, <1>6 DEF IsRemoved, StaysStopped
 <2>3. GoesOn(a, r)
   BY <2>2, <1>6 DEF GoesOn, Evolves
 <2>4. Keeps(att[a], r)
   BY <1>6 DEF Keeps
 <2> QED BY <1>6, <1>8, <2>1, <2>3, <2>4, OneRolls
<1>12. CASE ~Listed(a) /\ att[a].stage = "done"
 <2>1. PICK y : y = Over(r)
   OBVIOUS
 <2>2. y \in AttemptType /\ Ends(y, bots, "gone", lease)
   BY <1>6, <1>12, <2>1, OverEnds
 <2>3. IsRemoved(att[a], y)
   BY <1>1, <1>2, <1>3, <1>12, <2>2 DEF IsRemoved
 <2>4. GoesOn(a, y)
   BY <2>3, <2>2 DEF GoesOn, Evolves, Ends
 <2>5. Keeps(att[a], y)
   BY <1>12, <2>2 DEF Keeps, Ends, ListedStages
 <2>6. att' = [att EXCEPT ![a] = y]
   BY <1>7, <1>12, <2>1
 <2> QED BY <1>8, <2>2, <2>4, <2>5, <2>6, OneRolls
<1> QED BY <1>10, <1>11, <1>12

LEMMA EndGameIsServed ==
  ASSUME Reserved, EveryAttemptFits, NEW a \in Attempts, EndGame(a)
  PROVE  Served
<1>1. att[a] \in AttemptType /\ att[a].room = "playing" /\ att[a].stage = "done"
  BY DEF Reserved, AttemptsTyped, EndGame, EveryAttemptFits, AttInv
<1>2. PICK y : y = [att[a] EXCEPT !.room = "waiting", !.lease = "none"]
  OBVIOUS
<1>3. y \in AttemptType /\ Reopens(att[a], y)
  BY <1>1, <1>2 DEF AttemptType, AttemptRecord, LiveStates, Reopens
<1>4. att' = [att EXCEPT ![a] = y]
  BY <1>2 DEF EndGame, Reserved, AttemptsTyped
<1>5. GoesOn(a, y)
  BY <1>3 DEF GoesOn, Evolves, Reopens
<1> QED BY <1>1, <1>3, <1>4, <1>5, OneGoesOn DEF EndGame, requests, ListedStages

LEMMA ExpireBotsIsServed ==
  ASSUME Reserved, NEW a \in Attempts, ExpireBots(a)
  PROVE  Served
<1>1. att[a].stage \in ListedStages /\ Rolls({a})
  BY DEF ExpireBots, Listed, ListedStages, Rolls
<1>2. att' = [att EXCEPT ![a] = Stopped(att[a], Nobody)]
  BY DEF ExpireBots
<1>3. Stopped(att[a], Nobody) \in AttemptType /\ att \in [Attempts -> AttemptType]
  BY <1>1, StoppedIsMarked DEF Reserved, AttemptsTyped
<1>4. AttemptsTyped'
  BY <1>2, <1>3 DEF AttemptsTyped
<1>5. Alike([att EXCEPT ![a] = Stopped(att[a], Nobody)], att')
  BY <1>2 DEF Alike, SameGoods
<1> QED BY <1>1, <1>4, <1>5, StopIsServed

LEMMA ExpireIsServed ==
  ASSUME Reserved, NEW p \in Players, Expire(p)
  PROVE  Served
<1>1. CASE entry[p].state = "queued"
 <2>1. TakesOut(p) /\ UNCHANGED att
   BY <1>1 DEF Expire, TakesOut
 <2>2. EveryAttemptStays
   BY <2>1, AttemptsSame DEF Reserved
 <2> QED BY <2>1, <2>2, TakesOutIsServed
<1>2. CASE entry[p].state = "inflight"
 <2>1. PICK h : h = << p, entry[p].client >>
   OBVIOUS
 <2>2. EntryFits(entry[p]) /\ entry[p].client \in 0..Links[p] /\ Links[p] \in Nat
   BY LinksNat DEF Reserved, RequestsFit, EntriesFit, RequestsTyped
 <2>3. entry[p].client \in 1..Links[p]
   BY <1>2, <2>2 DEF EntryFits
 <2>4. h \in Handles
   BY <2>1, <2>3, HandleIs
 <2>5. CancelEntry(h, Nobody)
   BY <1>2, <2>1 DEF Expire
 <2> QED BY <2>4, <2>5, CancelEntryIsServed
<1> QED BY <1>1, <1>2 DEF Expire

LEMMA NotifyExpiredIsServed ==
  ASSUME Reserved, NEW p \in Players, NotifyExpired(p)
  PROVE  Served
<1>1. Forgets(p) /\ UNCHANGED att
  BY DEF NotifyExpired, Forgets
<1>2. EveryAttemptStays
  BY <1>1, AttemptsSame DEF Reserved
<1> QED BY <1>1, <1>2, ForgetsIsServed

LEMMA ReplaceIsServed ==
  ASSUME Reserved, HandlesTyped, NEW p \in Players, ReplaceClient(p)
  PROVE  Served
<1>1. rejoin[p].gen \in 1..Links[p]
  BY DEF ReplaceClient, HandlesTyped
<1>2. PICK n \in 1..Links[p] : n = rejoin[p].gen
  BY <1>1
<1>3. queue' = queue
  BY DEF ReplaceClient
<1>4. CASE /\ entry[p].state = "queued" /\ entry' = [entry EXCEPT ![p].client = n]
           /\ UNCHANGED att
 <2>1. Migrates(p, n)
   BY <1>3, <1>4 DEF Migrates
 <2>2. EveryAttemptStays
   BY <1>4, AttemptsSame DEF Reserved
 <2> QED BY <2>1, <2>2, MigratesIsServed
<1>5. CASE /\ entry[p].state = "inflight"
           /\ att' = [att EXCEPT ![entry[p].attempt] = Stopped(att[entry[p].attempt], p)]
           /\ entry' = RolledBack({entry[p].attempt})
 <2>1. PICK a \in Attempts : a = entry[p].attempt /\ att[a].stage \in ListedStages
   BY <1>5, InflightIsListed
 <2>2. Rolls({a}) /\ att' = [att EXCEPT ![a] = Stopped(att[a], p)]
   BY <1>3, <1>5, <2>1 DEF Rolls
 <2>3. Stopped(att[a], p) \in AttemptType /\ att \in [Attempts -> AttemptType]
   BY <2>1, StoppedIsMarked DEF Reserved, AttemptsTyped
 <2>4. AttemptsTyped'
   BY <2>2, <2>3 DEF AttemptsTyped
 <2>5. Alike([att EXCEPT ![a] = Stopped(att[a], p)], att')
   BY <2>2 DEF Alike, SameGoods
 <2> QED BY <2>1, <2>2, <2>4, <2>5, StopIsServed
<1>6. CASE UNCHANGED << entry, att >>
  BY <1>3, <1>6, NothingIsServed
<1> QED BY <1>2, <1>4, <1>5, <1>6 DEF ReplaceClient

LEMMA SendMigratedIsServed ==
  ASSUME Reserved, HandlesTyped, NEW p \in Players, SendMigrated(p)
  PROVE  Served
<1>1. rejoin[p].gen \in 1..Links[p]
  BY DEF SendMigrated, HandlesTyped
<1>2. PICK h \in Handles : h = << p, rejoin[p].gen >>
  BY <1>1, HandleIs
<1>3. CASE UNCHANGED << requests, att >>
  BY <1>3, NothingIsServed DEF requests
<1>4. CASE CancelEntry(h, Nobody)
  BY <1>4, CancelEntryIsServed
<1> QED BY <1>2, <1>3, <1>4 DEF SendMigrated

LEMMA CancelAllIsServed ==
  ASSUME Reserved, CancelAll
  PROVE  Served
<1>1. ASSUME NEW a \in Attempts
      PROVE  att'[a] \in AttemptType /\ Marked(att[a], att'[a])
 <2>1. att[a] \in AttemptType
   BY DEF Reserved, AttemptsTyped
 <2>2. CASE Listed(a)
  <3>1. att'[a] = Stopped(att[a], Nobody) /\ att[a].stage \in ListedStages
    BY <2>2 DEF CancelAll, Listed, ListedStages
  <3> QED BY <2>1, <3>1, StoppedIsMarked
 <2>3. CASE ~Listed(a)
  <3>1. att'[a] = att[a]
    BY <2>3 DEF CancelAll
  <3> QED BY <2>1, <3>1 DEF Marked, SameGoods, StaysStopped
 <2> QED BY <2>2, <2>3
<1>2. att' = [a \in Attempts |-> att'[a]]
  BY DEF CancelAll
<1>3. AttemptsTyped'
  BY <1>1, <1>2 DEF AttemptsTyped
<1>4. EveryAttemptEvolves /\ EveryAttemptKeeps
  BY <1>1, <1>3, AllMarked
<1>5. ClearsAll
  BY DEF CancelAll, ClearsAll
<1> QED BY <1>4, <1>5, ClearsIsServed

LEMMA StepIsServed ==
  ASSUME Reserved, EveryAttemptFits, HandlesTyped, SeatsLive, FillFits, [Next]_vars
  PROVE  Served
<1>1. CASE UNCHANGED vars
  BY <1>1, NothingIsServed DEF vars, requests
<1>2. ASSUME NEW h \in Handles, Command(h) \/ Handler(h) PROVE Served
 <2>1. CASE CancelMatch(h)
  <3>1. h[1] \in Players
    BY Handle
  <3> QED BY <2>1, <3>1, CancelEntryIsServed DEF CancelMatch
 <2>2. CASE EnterOtherRoom(h) \/ LeaveOtherRoom(h)
   BY <2>2, NothingIsServed DEF EnterOtherRoom, LeaveOtherRoom, requests
 <2> QED BY <1>2, <2>1, <2>2, EnqueueIsServed, PracticeIsServed, LeaveRoomIsServed,
            PublishQueuedIsServed, SendQueuedIsServed DEF Command, Handler
<1>3. ASSUME NEW h \in Handles, LoseLink(h) \/ Departure(h) \/ NotifyPending(h) PROVE Served
 <2>1. CASE LoseLink(h) \/ Vanish(h) \/ NotifyPending(h)
   BY <2>1, NothingIsServed DEF LoseLink, Vanish, NotifyPending, requests
 <2>2. CASE Disconnect(h)
  <3>1. h[1] \in Players
    BY Handle
  <3> QED BY <2>2, <3>1, CancelEntryIsServed DEF Disconnect
 <2> QED BY <1>3, <2>1, <2>2, GoOfflineIsServed DEF Departure
<1>4. ASSUME NEW p \in Players,
             RebindClient(p) \/ Reconnect(p) \/ Expire(p) \/ NotifyExpired(p)
      PROVE  Served
 <2>1. CASE RestoreSession(p) \/ RebindClient(p) \/ Reseat(p)
   BY <2>1, NothingIsServed DEF RestoreSession, RebindClient, Reseat, requests
 <2> QED BY <1>4, <2>1, ReplaceIsServed, SendMigratedIsServed, ExpireIsServed,
            NotifyExpiredIsServed DEF Reconnect
<1>5. ASSUME NEW a \in Attempts, \/ Worker(a) \/ Removal(a) \/ ExpireBots(a)
                                 \/ EndGame(a) \/ TimeOutRoom(a)
      PROVE  Served
 <2>1. AttInv(att[a])
   BY DEF EveryAttemptFits
 <2> QED BY <1>5, <2>1, WorkerIsServed, DispatchIsServed, CloseRoomIsServed, ExpireBotsIsServed,
            EndGameIsServed, TimeOutIsServed DEF Removal
<1>6. CASE ClaimBotFill \/ Resume
  BY <1>6, NothingIsServed DEF ClaimBotFill, Resume, requests
<1>7. CASE CommitBotFill
  BY <1>7, BotFillIsServed
<1>8. CASE Drain \/ Close
  BY <1>8, CancelAllIsServed DEF Drain, Close
<1> QED BY <1>1, <1>2, <1>3, <1>4, <1>5, <1>6, <1>7, <1>8 DEF Next

-----------------------------------------------------------------------------
(* Rooms, handles and the operator                                         *)

LEMMA LiveUntilDropped ==
  ASSUME NEW x, NEW y, AttInv(x), Evolves(x, y), x.room \in LiveStates
  PROVE  y.room \in LiveStates \cup {"dropped"}
BY DEF Evolves, Marked, Begins, TakesLease, Proceeds, Fails, Published, Withdrawn, RollsBack,
       Notifies, Plays, EndsWithout, Releases, LosesRoom, Unpublished, IsRemoved, Reopens,
       SameGoods, Dropped, Ends, AttInv, LiveStates

\* Whoever gets a seat gets one in a room that is there, or takes one over.
SeatsMove ==
  \A h \in Handles, a \in Attempts : room'[h] = a =>
    (\E g \in Handles : room[g] = a) \/ Live(a)'

LEMMA SeatsStayLive ==
  ASSUME SeatsLive, EveryAttemptFits, EveryAttemptEvolves, SeatsMove
  PROVE  SeatsLive'
<1>1. ASSUME NEW h \in Handles, NEW a \in Attempts, room'[h] = a PROVE Live(a)'
 <2>1. CASE \E g \in Handles : room[g] = a
  <3>1. att[a].room \in LiveStates
    BY <2>1 DEF SeatsLive, Live, LiveStates
  <3>2. AttInv(att[a]) /\ GoesOn(a, att'[a])
    BY DEF EveryAttemptFits, EveryAttemptEvolves
  <3>3. att'[a].room \in LiveStates \cup {"dropped"}
    BY <3>1, <3>2, LiveUntilDropped DEF GoesOn
  <3>4. att'[a].room # "dropped"
    BY <1>1, <3>1, <3>2 DEF GoesOn, Empties, LiveStates
  <3> QED BY <3>3, <3>4 DEF Live, LiveStates
 <2>2. CASE ~\E g \in Handles : room[g] = a
   BY <1>1, <2>2 DEF SeatsMove
 <2> QED BY <2>1, <2>2
<1>2. \A h \in Handles : room'[h] \in Attempts => att'[room'[h]].room \in {"waiting", "ready", "playing"}
  BY <1>1 DEF Live
<1> QED BY <1>2 DEF SeatsLive, Live

LEMMA RoomSame ==
  ASSUME HandlesTyped, UNCHANGED room PROVE SeatsMove
BY DEF SeatsMove

LEMMA RoomLost ==
  ASSUME \A h \in Handles : room'[h] = room[h] \/ room'[h] \notin Attempts PROVE SeatsMove
BY DEF SeatsMove

LEMMA DropMoves ==
  ASSUME NEW a \in Attempts, NEW x, NEW byWorker, Drop(a, x, byWorker) PROVE SeatsMove
BY AttemptsNat, RoomLost DEF Drop

LEMMA NotAttempts == Elsewhere \notin Attempts /\ Former \notin Attempts /\ 0 \notin Attempts
BY MatcherAssumption DEF Elsewhere, Former, Attempts

LEMMA StepMovesSeats ==
  ASSUME HandlesTyped, AttemptsTyped, [Next]_vars
  PROVE  SeatsMove
<1>1. CASE UNCHANGED vars
  BY <1>1, RoomSame DEF vars, connections
<1>2. ASSUME NEW h \in Handles, Command(h) \/ Handler(h) PROVE SeatsMove
 <2>1. CASE Enqueue(h) \/ PracticeMatch(h) \/ CancelMatch(h) \/ Handler(h)
   BY <2>1, RoomSame DEF Enqueue, PracticeMatch, CancelMatch, Handler, PublishQueued, SendQueued
 <2>2. CASE LeaveRoom(h)
  <3>1. PICK a \in Attempts : Drop(a, att[a], FALSE) \/ room' = [room EXCEPT ![h] = 0]
    BY <2>2 DEF LeaveRoom
  <3>2. CASE Drop(a, att[a], FALSE)
    BY <3>2, DropMoves
  <3>3. CASE room' = [room EXCEPT ![h] = 0]
    BY <3>3, NotAttempts, RoomLost DEF HandlesTyped
  <3> QED BY <3>1, <3>2, <3>3
 <2>3. CASE EnterOtherRoom(h)
   BY <2>3, NotAttempts, RoomLost DEF EnterOtherRoom, HandlesTyped
 <2>4. CASE LeaveOtherRoom(h)
   BY <2>4, NotAttempts, RoomLost DEF LeaveOtherRoom, HandlesTyped
 <2> QED BY <1>2, <2>1, <2>2, <2>3, <2>4 DEF Command
<1>3. ASSUME NEW h \in Handles, LoseLink(h) \/ Departure(h) \/ NotifyPending(h) PROVE SeatsMove
 <2>1. CASE LoseLink(h) \/ Vanish(h) \/ Disconnect(h) \/ NotifyPending(h)
   BY <2>1, RoomSame DEF LoseLink, Vanish, Disconnect, NotifyPending
 <2>2. CASE GoOffline(h)
  <3>1. UNCHANGED room \/ (room[h] \in Attempts /\ Drop(room[h], att[room[h]], FALSE))
    BY <2>2 DEF GoOffline
  <3> QED BY <3>1, RoomSame, DropMoves
 <2> QED BY <1>3, <2>1, <2>2 DEF Departure
<1>4. ASSUME NEW p \in Players,
             RebindClient(p) \/ Reconnect(p) \/ Expire(p) \/ NotifyExpired(p)
      PROVE  SeatsMove
 <2>1. CASE Reseat(p)
  <3>1. PICK a : a = rejoin[p].room
    OBVIOUS
  <3>2. PICK old : old = { g \in Handles : g[1] = p /\ a # 0 /\ room[g] = a }
    OBVIOUS
  <3>3. PICK h : h = << p, rejoin[p].gen >>
    OBVIOUS
  <3>4. CASE room' = [g \in Handles |-> IF g = h /\ old # {} THEN a
                                        ELSE IF g \in old THEN Former ELSE room[g]]
   <4>1. ASSUME NEW g \in Handles, room'[g] \in Attempts
         PROVE  \E f \in Handles : room[f] = room'[g]
    <5>1. CASE g = h /\ old # {}
     <6>1. PICK f \in Handles : room[f] = a
       BY <3>2, <5>1
     <6> QED BY <3>4, <5>1, <6>1
    <5>2. CASE ~(g = h /\ old # {}) /\ g \in old
      BY <3>4, <4>1, <5>2, NotAttempts
    <5>3. CASE ~(g = h /\ old # {}) /\ g \notin old
      BY <3>4, <5>3
    <5> QED BY <5>1, <5>2, <5>3
   <4> QED BY <4>1 DEF SeatsMove
  <3>5. CASE UNCHANGED room
    BY <3>5, RoomSame
  <3> QED BY <2>1, <3>1, <3>2, <3>3, <3>4, <3>5 DEF Reseat
 <2>2. CASE ~Reseat(p)
   BY <1>4, <2>2, RoomSame DEF RestoreSession, RebindClient, Reconnect, ReplaceClient,
      SendMigrated, Expire, NotifyExpired, connections
 <2> QED BY <2>1, <2>2
<1>5. ASSUME NEW a \in Attempts, Worker(a) PROVE SeatsMove
 <2>1. CASE Commit(a)
  <3>1. CASE UNCHANGED room
    BY <3>1, RoomSame
  <3>2. CASE /\ room' = [h \in Handles |-> IF h \in Humans(a) THEN a ELSE room[h]]
             /\ att' = [att EXCEPT ![a].stage = "ready", ![a].room = "waiting"]
   <4>1. att'[a].room = "waiting"
     BY <3>2 DEF AttemptsTyped, AttemptType, AttemptRecord
   <4>2. Live(a)'
     BY <4>1 DEF Live
   <4> QED BY <3>2, <4>2 DEF SeatsMove
  <3> QED BY <2>1, <3>1, <3>2 DEF Commit
 <2>2. CASE PublishJoined(a) \/ RegisterSession(a) \/ RollbackRoom(a)
  <3>1. UNCHANGED room \/ (\E x : Drop(a, x, TRUE))
    BY <2>2 DEF PublishJoined, RegisterSession, RollbackRoom, Withdraw
  <3> QED BY <3>1, RoomSame, DropMoves
 <2>3. CASE ~Commit(a) /\ ~PublishJoined(a) /\ ~RegisterSession(a) /\ ~RollbackRoom(a)
   BY <1>5, <2>3, RoomSame DEF Worker, TakeLease, Assemble, ReadyAllAndStart, CommitAttempt,
      StartSession, ReleaseWithdrawn, NotifyRolledBack, Release, connections
 <2> QED BY <2>1, <2>2, <2>3
<1>6. ASSUME NEW a \in Attempts, Removal(a) \/ ExpireBots(a) \/ EndGame(a) \/ TimeOutRoom(a)
      PROVE  SeatsMove
 <2>1. CASE CloseRoom(a) \/ TimeOutRoom(a)
  <3>1. UNCHANGED room \/ (\E x : Drop(a, x, FALSE))
    BY <2>1 DEF CloseRoom, TimeOutRoom
  <3> QED BY <3>1, RoomSame, DropMoves
 <2>2. CASE DispatchRemoval(a) \/ ExpireBots(a) \/ EndGame(a)
   BY <2>2, RoomSame DEF DispatchRemoval, ExpireBots, EndGame, connections
 <2> QED BY <1>6, <2>1, <2>2 DEF Removal
<1>7. CASE ClaimBotFill \/ CommitBotFill \/ Drain \/ Resume \/ Close
  BY <1>7, RoomSame DEF ClaimBotFill, CommitBotFill, Drain, Resume, Close, connections
<1> QED BY <1>1, <1>2, <1>3, <1>4, <1>5, <1>6, <1>7 DEF Next

\* The parts of the handles' type that a step may change.
RoomsTyped == room \in [Handles -> 0..Former]
ToldTyped == told \in [Handles -> {"nothing", "queued", "stale"}]
LinkTyped == link \in [Handles -> {"unborn", "open", "closed", "leaving", "offline", "gone"}]
DoingTyped == doing \in [Handles -> {"idle", "publish", "sending"}]
FillTyped == fill \in {"off", "armed", "claimed"}
ConnTyped == conn \in [Players -> Nat] /\ \A p \in Players : conn[p] \in 0..Links[p]
RejoinTyped ==
  /\ rejoin \in [Players -> RejoinRecord]
  /\ \A p \in Players : rejoin[p].step # "none" =>
       rejoin[p].gen \in 1..Links[p] /\ rejoin[p].previous \in 0..Links[p]
SessionsTyped ==
  /\ session \in [Players -> 0..Elsewhere] /\ restored \in [Players -> Unread..Elsewhere]
  /\ late \in SUBSET Players
OperatorTyped ==
  mode \in {"normal", "draining"} /\ closed \in BOOLEAN /\ notices \in SUBSET Handles

LEMMA TypedParts ==
  HandlesTyped <=> /\ OperatorTyped /\ ConnTyped /\ LinkTyped /\ DoingTyped /\ RoomsTyped
                   /\ ToldTyped /\ RejoinTyped /\ FillTyped
BY DEF HandlesTyped, OperatorTyped, ConnTyped, LinkTyped, DoingTyped, RoomsTyped, ToldTyped,
       RejoinTyped, FillTyped

LEMMA HearsTyped ==
  ASSUME ToldTyped, NEW h, NEW what \in {"nothing", "queued", "stale"}, Hears(h, what)
  PROVE  ToldTyped'
BY DEF ToldTyped, Hears

LEMMA ScheduledTyped ==
  ASSUME FillTyped, NEW q, NEW f \in {"off", "armed", "claimed"}
  PROVE  Scheduled(q, f) \in {"off", "armed", "claimed"} /\ AfterRemoval(q) \in {"off", "armed", "claimed"}
BY DEF FillTyped, Scheduled, AfterRemoval

LEMMA DropTyped ==
  ASSUME RoomsTyped, NEW a \in Attempts, NEW x, NEW byWorker, Drop(a, x, byWorker)
  PROVE  RoomsTyped'
<1>1. Former \in Nat
  BY MatcherAssumption DEF Former
<1> QED BY <1>1 DEF RoomsTyped, Drop

LEMMA ClosePreviousTyped ==
  ASSUME LinkTyped, RejoinTyped, NEW p \in Players, ClosePrevious(p)
  PROVE  LinkTyped' /\ RejoinTyped'
<1>1. NoRejoin \in RejoinRecord /\ NoRejoin.step = "none"
  BY MatcherAssumption DEF NoRejoin, RejoinRecord, Elsewhere
<1> QED BY <1>1 DEF LinkTyped, RejoinTyped, ClosePrevious

LEMMA CancelEntryTyped ==
  ASSUME FillTyped, NEW h, NEW by, CancelEntry(h, by)
  PROVE  FillTyped'
<1>1. CASE Owns(h)
 <2>1. PICK c : c = Cancelled(h[1], by) /\ fill' = c.fill
   BY <1>1 DEF CancelEntry
 <2>2. c.fill \in {"off", "armed", "claimed"}
   BY <2>1, ScheduledTyped DEF Cancelled, FillTyped
 <2> QED BY <2>1, <2>2 DEF FillTyped
<1>2. CASE ~Owns(h)
  BY <1>2 DEF CancelEntry, FillTyped, requests
<1> QED BY <1>1, <1>2

LEMMA FreezeTyped ==
  ASSUME NEW q, NEW e, NEW bots, NEW launched, Freeze(q, e, bots, launched)
  PROVE  FillTyped'
BY DEF Freeze, FillTyped

Parts == OperatorTyped /\ ConnTyped /\ LinkTyped /\ DoingTyped /\ RoomsTyped /\ ToldTyped
           /\ RejoinTyped /\ FillTyped

LEMMA CommandTyped ==
  ASSUME Parts, NEW h \in Handles, Command(h)
  PROVE  Parts'
<1> USE DEF Parts, OperatorTyped, ConnTyped, LinkTyped, DoingTyped, RoomsTyped, ToldTyped,
            RejoinTyped, FillTyped
<1>1. CASE Enqueue(h)
 <2>1. FillTyped'
   BY <1>1, FreezeTyped, ScheduledTyped DEF Enqueue
 <2> QED BY <1>1, <2>1 DEF Enqueue, operator
<1>2. CASE PracticeMatch(h)
  BY <1>2, FreezeTyped DEF PracticeMatch, operator
<1>3. CASE CancelMatch(h)
  BY <1>3, CancelEntryTyped DEF CancelMatch, operator
<1>4. CASE LeaveRoom(h)
 <2>1. PICK a \in Attempts : Drop(a, att[a], FALSE) \/ room' = [room EXCEPT ![h] = 0]
   BY <1>4 DEF LeaveRoom
 <2>2. RoomsTyped'
  <3>1. CASE Drop(a, att[a], FALSE)
    BY <3>1, DropTyped
  <3>2. CASE room' = [room EXCEPT ![h] = 0]
   <4>1. 0 \in 0..Former
     BY MatcherAssumption DEF Former
   <4> QED BY <3>2, <4>1
  <3> QED BY <2>1, <3>1, <3>2
 <2>3. ToldTyped'
   BY <1>4 DEF LeaveRoom
 <2> QED BY <1>4, <2>2, <2>3 DEF LeaveRoom, operator, requests
<1>5. CASE EnterOtherRoom(h) \/ LeaveOtherRoom(h)
 <2>1. 0 \in 0..Former /\ Elsewhere \in 0..Former
   BY MatcherAssumption DEF Former, Elsewhere
 <2> QED BY <1>5, <2>1 DEF EnterOtherRoom, LeaveOtherRoom, operator, requests
<1> QED BY <1>1, <1>2, <1>3, <1>4, <1>5 DEF Command

LEMMA HandlerTyped ==
  ASSUME Parts, NEW h \in Handles, Handler(h)
  PROVE  Parts'
<1>1. CASE PublishQueued(h)
  BY <1>1 DEF Parts, OperatorTyped, ConnTyped, LinkTyped, DoingTyped, RoomsTyped, ToldTyped,
              RejoinTyped, FillTyped, PublishQueued, operator, requests
<1>2. CASE SendQueued(h)
 <2>1. FillTyped'
  <3>1. PICK c : /\ c \in {IF Owns(h) /\ ~Reaches(h) THEN Cancelled(h[1], Nobody)
                           ELSE [entry |-> entry, queue |-> queue, fill |-> fill, att |-> att]}
                 /\ fill' = c.fill
    BY <1>2 DEF SendQueued
  <3>2. c.fill \in {"off", "armed", "claimed"}
    BY <3>1, ScheduledTyped DEF Cancelled, FillTyped, Parts
  <3> QED BY <3>1, <3>2 DEF FillTyped
 <2>2. ToldTyped'
   BY <1>2, HearsTyped DEF SendQueued, Parts
 <2> QED BY <1>2, <2>1, <2>2 DEF Parts, OperatorTyped, ConnTyped, LinkTyped, DoingTyped,
            RoomsTyped, RejoinTyped, SendQueued, operator
<1> QED BY <1>1, <1>2 DEF Handler

LEMMA DepartureTyped ==
  ASSUME Parts, NEW h \in Handles, LoseLink(h) \/ Departure(h) \/ NotifyPending(h)
  PROVE  Parts'
<1>1. CASE LoseLink(h) \/ Vanish(h)
  BY <1>1 DEF Parts, OperatorTyped, ConnTyped, LinkTyped, DoingTyped, RoomsTyped, ToldTyped,
              RejoinTyped, FillTyped, LoseLink, Vanish, operator, requests
<1>2. CASE Disconnect(h)
 <2>1. FillTyped'
   BY <1>2, CancelEntryTyped DEF Disconnect, Parts
 <2>2. h[1] \in Players /\ 0 \in 0..Links[h[1]]
   BY Handle, LinksNat
 <2>3. ConnTyped'
   BY <1>2, <2>2 DEF Parts, ConnTyped, Disconnect
 <2> QED BY <1>2, <2>1, <2>3 DEF Parts, OperatorTyped, LinkTyped, DoingTyped, RoomsTyped,
            ToldTyped, RejoinTyped, Disconnect, operator
<1>3. CASE GoOffline(h)
 <2>1. RoomsTyped'
  <3>1. UNCHANGED room \/ (room[h] \in Attempts /\ Drop(room[h], att[room[h]], FALSE))
    BY <1>3 DEF GoOffline
  <3> QED BY <3>1, DropTyped DEF Parts, RoomsTyped
 <2>2. LinkTyped'
   BY <1>3 DEF Parts, LinkTyped, GoOffline
 <2> QED BY <1>3, <2>1, <2>2 DEF Parts, OperatorTyped, ConnTyped, DoingTyped,
            ToldTyped, RejoinTyped, FillTyped, GoOffline, operator, requests
<1>4. CASE NotifyPending(h)
 <2>1. ToldTyped'
   BY <1>4, HearsTyped DEF NotifyPending, Parts
 <2> QED BY <1>4, <2>1 DEF Parts, OperatorTyped, ConnTyped, LinkTyped, DoingTyped, RoomsTyped,
            RejoinTyped, FillTyped, NotifyPending, requests
<1> QED BY <1>1, <1>2, <1>3, <1>4 DEF Departure

LEMMA ReconnectTyped ==
  ASSUME Parts, SessionsTyped, NEW p \in Players, RebindClient(p) \/ Reconnect(p)
  PROVE  Parts'
<1>0. CASE RestoreSession(p)
  BY <1>0 DEF Parts, OperatorTyped, ConnTyped, LinkTyped, DoingTyped, RoomsTyped, ToldTyped,
              RejoinTyped, FillTyped, RestoreSession, operator, requests
<1>1. CASE RebindClient(p)
 <2>1. PICK g \in 1..Links[p] :
         /\ conn' = [conn EXCEPT ![p] = g] /\ link' = [link EXCEPT ![<< p, g >>] = "open"]
         /\ \E r \in 0..Elsewhere : rejoin' = [rejoin EXCEPT ![p] =
              [step |-> "rebound", gen |-> g, previous |-> conn[p], room |-> r]]
  <3>1. PICK g : g = NextLink(p)
    OBVIOUS
  <3>2. restored[p] \in 0..Elsewhere
    BY <1>1, MatcherAssumption DEF RebindClient, SessionsTyped, Unread, Elsewhere
  <3>3. /\ g \in 1..Links[p] /\ conn' = [conn EXCEPT ![p] = g]
        /\ link' = [link EXCEPT ![<< p, g >>] = "open"]
        /\ rejoin' = [rejoin EXCEPT ![p] =
             [step |-> "rebound", gen |-> g, previous |-> conn[p], room |-> restored[p]]]
    BY <1>1, <3>1 DEF RebindClient
  <3> QED BY <3>2, <3>3
 <2>2. PICK r \in 0..Elsewhere : rejoin' = [rejoin EXCEPT ![p] =
              [step |-> "rebound", gen |-> g, previous |-> conn[p], room |-> r]]
   BY <2>1
 <2>3. g \in Nat /\ g \in 0..Links[p] /\ << p, g >> \in Handles
   BY <2>1, LinksNat, HandleIs
 <2>4. ConnTyped'
   BY <2>1, <2>3 DEF Parts, ConnTyped
 <2>5. LinkTyped'
   BY <2>1, <2>3 DEF Parts, LinkTyped
 <2>6. PICK x : x = [step |-> "rebound", gen |-> g, previous |-> conn[p], room |-> r]
   OBVIOUS
 <2>7. /\ x \in RejoinRecord /\ x.gen = g /\ x.previous \in 0..Links[p]
   BY <2>2, <2>3, <2>6 DEF Parts, ConnTyped, RejoinRecord
 <2>8. RejoinTyped'
   BY <2>1, <2>2, <2>6, <2>7 DEF Parts, RejoinTyped
 <2> QED BY <1>1, <2>4, <2>5, <2>8 DEF Parts, OperatorTyped, DoingTyped, RoomsTyped, ToldTyped,
            FillTyped, RebindClient, operator, requests
<1>2. CASE Reseat(p)
 <2>1. rejoin[p].gen \in 1..Links[p] /\ rejoin[p].previous \in 0..Links[p] /\ rejoin[p] \in RejoinRecord
   BY <1>2 DEF Reseat, Parts, RejoinTyped
 <2>2. << p, rejoin[p].gen >> \in Handles
   BY <2>1, HandleIs
 <2>3. CASE link[<< p, rejoin[p].gen >>] = "open"
  <3>1. PICK x : x = [rejoin[p] EXCEPT !.step = "seated"]
    OBVIOUS
  <3>2. x \in RejoinRecord /\ x.gen = rejoin[p].gen /\ x.previous = rejoin[p].previous
    BY <2>1, <3>1 DEF RejoinRecord
  <3>3. rejoin' = [rejoin EXCEPT ![p] = x]
    BY <1>2, <2>3, <3>1 DEF Reseat, Parts, RejoinTyped
  <3>4. RejoinTyped'
    BY <2>1, <3>2, <3>3 DEF Parts, RejoinTyped
  <3>5. RoomsTyped'
   <4>1. PICK a \in 0..Former : a = rejoin[p].room
     BY <2>1, MatcherAssumption DEF RejoinRecord, Elsewhere, Former
   <4>2. Former \in 0..Former
     BY MatcherAssumption DEF Former
   <4>3. PICK old : old = { g \in Handles : g[1] = p /\ a # 0 /\ room[g] = a }
     OBVIOUS
   <4>4. room' = [g \in Handles |->
           IF g = << p, rejoin[p].gen >> /\ old # {} THEN a
           ELSE IF g \in old THEN Former ELSE room[g]]
     BY <1>2, <2>3, <4>1, <4>3 DEF Reseat
   <4> QED BY <4>2, <4>4 DEF Parts, RoomsTyped
  <3> QED BY <1>2, <2>3, <3>4, <3>5 DEF Parts, OperatorTyped, ConnTyped, LinkTyped, DoingTyped,
             ToldTyped, FillTyped, Reseat, operator, requests
 <2>4. CASE link[<< p, rejoin[p].gen >>] # "open"
  <3>1. NoRejoin \in RejoinRecord /\ NoRejoin.step = "none"
    BY MatcherAssumption DEF NoRejoin, RejoinRecord, Elsewhere
  <3>2. RejoinTyped'
    BY <1>2, <2>4, <3>1 DEF Reseat, Parts, RejoinTyped
  <3>3. ConnTyped'
    BY <1>2, <2>1, <2>4, LinksNat DEF Reseat, Parts, ConnTyped
  <3>4. LinkTyped'
    BY <1>2, <2>2, <2>4 DEF Reseat, Parts, LinkTyped
  <3> QED BY <1>2, <2>4, <3>2, <3>3, <3>4 DEF Parts, OperatorTyped, DoingTyped, RoomsTyped,
             ToldTyped, FillTyped, Reseat, operator, requests
 <2> QED BY <2>3, <2>4
<1>3. CASE ReplaceClient(p)
 <2>1. RejoinTyped' /\ LinkTyped'
  <3>1. CASE ClosePrevious(p)
    BY <3>1, ClosePreviousTyped DEF Parts
  <3>2. CASE rejoin' = [rejoin EXCEPT ![p].step = "migrated"] /\ UNCHANGED link
   <4>1. rejoin[p].gen \in 1..Links[p] /\ rejoin[p].previous \in 0..Links[p] /\ rejoin[p] \in RejoinRecord
     BY <1>3 DEF ReplaceClient, Parts, RejoinTyped
   <4>2. PICK x : x = [rejoin[p] EXCEPT !.step = "migrated"]
     OBVIOUS
   <4>3. x \in RejoinRecord /\ x.gen = rejoin[p].gen /\ x.previous = rejoin[p].previous
     BY <4>1, <4>2 DEF RejoinRecord
   <4>4. rejoin' = [rejoin EXCEPT ![p] = x]
     BY <3>2, <4>2 DEF Parts, RejoinTyped
   <4> QED BY <3>2, <4>1, <4>3, <4>4 DEF Parts, RejoinTyped, LinkTyped
  <3> QED BY <1>3, <3>1, <3>2 DEF ReplaceClient
 <2> QED BY <1>3, <2>1 DEF Parts, OperatorTyped, ConnTyped, DoingTyped, RoomsTyped,
            ToldTyped, FillTyped, ReplaceClient, operator
<1>4. CASE SendMigrated(p)
 <2>1. RejoinTyped' /\ LinkTyped'
   BY <1>4, ClosePreviousTyped DEF Parts, SendMigrated
 <2>2. rejoin[p].gen \in 1..Links[p]
   BY <1>4 DEF SendMigrated, Parts, RejoinTyped
 <2>3. PICK h \in Handles : h = << p, rejoin[p].gen >>
   BY <2>2, HandleIs
 <2>4. ToldTyped'
   BY <1>4, <2>3, HearsTyped DEF SendMigrated, Parts
 <2>5. FillTyped'
   BY <1>4, CancelEntryTyped DEF SendMigrated, requests, Parts, FillTyped
 <2> QED BY <1>4, <2>1, <2>4, <2>5 DEF Parts, OperatorTyped, ConnTyped, DoingTyped, RoomsTyped,
            SendMigrated, operator
<1> QED BY <1>0, <1>1, <1>2, <1>3, <1>4 DEF Reconnect

LEMMA DeadlineTyped ==
  ASSUME Parts, NEW p \in Players, RequestsTyped, EntryFits(entry[p]), Expire(p) \/ NotifyExpired(p)
  PROVE  Parts'
<1>1. CASE Expire(p)
 <2>1. FillTyped'
   BY <1>1, CancelEntryTyped, ScheduledTyped DEF Expire, FillTyped, Parts
 <2> QED BY <1>1, <2>1 DEF Parts, OperatorTyped, ConnTyped, LinkTyped, DoingTyped, RoomsTyped,
            ToldTyped, RejoinTyped, Expire, operator, connections
<1>2. CASE NotifyExpired(p)
 <2>1. entry[p].client \in 1..Links[p]
   BY <1>2, LinksNat DEF NotifyExpired, EntryFits, RequestsTyped
 <2>2. PICK h \in Handles : h = << p, entry[p].client >>
   BY <2>1, HandleIs
 <2>3. ToldTyped'
  <3>1. Hears(h, "nothing") \/ UNCHANGED told
    BY <1>2, <2>2 DEF NotifyExpired
  <3> QED BY <3>1, HearsTyped DEF Parts, ToldTyped
 <2>4. FillTyped'
  <3>1. fill' = Scheduled(queue, fill)
    BY <1>2 DEF NotifyExpired
  <3>2. Scheduled(queue, fill) \in {"off", "armed", "claimed"}
    BY ScheduledTyped DEF Parts, FillTyped
  <3> QED BY <3>1, <3>2 DEF FillTyped
 <2> QED BY <1>2, <2>3, <2>4 DEF Parts, OperatorTyped, ConnTyped, LinkTyped, DoingTyped,
            RoomsTyped, RejoinTyped, NotifyExpired, operator
<1> QED BY <1>1, <1>2

\* A worker's step changes the rooms of handles, what one is told and the timer.
LEMMA WorkerTyped ==
  ASSUME Parts, NEW a \in Attempts, Worker(a)
  PROVE  Parts'
<1>1. Former \in Nat /\ a \in 0..Former
  BY MatcherAssumption DEF Former, Attempts
<1>2. RoomsTyped'
 <2>1. CASE Commit(a)
   BY <1>1, <2>1 DEF Commit, Parts, RoomsTyped
 <2>2. CASE PublishJoined(a) \/ RegisterSession(a) \/ RollbackRoom(a)
  <3>1. UNCHANGED room \/ (\E x : Drop(a, x, TRUE))
    BY <2>2 DEF PublishJoined, RegisterSession, RollbackRoom, Withdraw
  <3> QED BY <3>1, DropTyped DEF Parts, RoomsTyped
 <2>3. CASE ~Commit(a) /\ ~PublishJoined(a) /\ ~RegisterSession(a) /\ ~RollbackRoom(a)
   BY <2>3 DEF Worker, TakeLease, Assemble, ReadyAllAndStart, CommitAttempt,
      StartSession, ReleaseWithdrawn, NotifyRolledBack, Release, connections, Parts, RoomsTyped
 <2> QED BY <2>1, <2>2, <2>3
<1>3. ToldTyped'
 <2>1. CASE PublishJoined(a) \/ NotifyRolledBack(a)
  <3>2. PICK h : h = att[a].humans[att[a].step]
    OBVIOUS
  <3>3. UNCHANGED told \/ Hears(h, "nothing") \/ told' = [told EXCEPT ![h] = "nothing"]
    BY <2>1, <3>2 DEF PublishJoined, NotifyRolledBack
  <3> QED BY <3>3, HearsTyped DEF Parts, ToldTyped
 <2>2. CASE ~PublishJoined(a) /\ ~NotifyRolledBack(a)
   BY <2>2 DEF Worker, TakeLease, Assemble, Commit, ReadyAllAndStart, CommitAttempt,
      RegisterSession, StartSession, ReleaseWithdrawn, RollbackRoom, Release, connections,
      Parts, ToldTyped
 <2> QED BY <2>1, <2>2
<1>4. FillTyped'
 <2>1. UNCHANGED fill \/ fill' = Scheduled(queue, fill)
   BY DEF Worker, TakeLease, Assemble, Commit, ReadyAllAndStart, CommitAttempt, PublishJoined,
      RegisterSession, StartSession, ReleaseWithdrawn, RollbackRoom, NotifyRolledBack, Release,
      requests
 <2>2. Scheduled(queue, fill) \in {"off", "armed", "claimed"}
   BY ScheduledTyped DEF Parts, FillTyped
 <2> QED BY <2>1, <2>2 DEF Parts, FillTyped
<1>5. UNCHANGED << operator, conn, link, doing, rejoin >>
  BY DEF Worker, TakeLease, Assemble, Commit, ReadyAllAndStart, CommitAttempt, PublishJoined,
     RegisterSession, StartSession, ReleaseWithdrawn, RollbackRoom, NotifyRolledBack, Release,
     connections
<1> QED BY <1>2, <1>3, <1>4, <1>5 DEF Parts, OperatorTyped, ConnTyped, LinkTyped, DoingTyped,
           RejoinTyped, operator

LEMMA RoomTyped ==
  ASSUME Parts, NEW a \in Attempts, Removal(a) \/ ExpireBots(a) \/ EndGame(a) \/ TimeOutRoom(a)
  PROVE  Parts'
<1>1. RoomsTyped'
 <2>1. UNCHANGED room \/ (\E x : Drop(a, x, FALSE))
   BY DEF Removal, DispatchRemoval, CloseRoom, ExpireBots, EndGame, TimeOutRoom, connections
 <2> QED BY <2>1, DropTyped DEF Parts, RoomsTyped
<1>2. ToldTyped'
  BY DEF Removal, DispatchRemoval, CloseRoom, ExpireBots, EndGame, TimeOutRoom, connections,
     Parts, ToldTyped
<1>3. UNCHANGED << operator, conn, link, doing, rejoin, fill >>
  BY DEF Removal, DispatchRemoval, CloseRoom, ExpireBots, EndGame, TimeOutRoom, connections,
     requests
<1> QED BY <1>1, <1>2, <1>3 DEF Parts, OperatorTyped, ConnTyped, LinkTyped, DoingTyped,
           RejoinTyped, FillTyped, operator

LEMMA OperatorStepTyped ==
  ASSUME Parts, RequestsFit, ClaimBotFill \/ CommitBotFill \/ Drain \/ Resume \/ Close
  PROVE  Parts'
<1>1. OperatorTyped'
 <2>1. CASE CancelAll /\ (mode' = "draining" \/ mode' = mode) /\ (closed' = closed \/ closed' = TRUE)
  <3>1. notices' \subseteq Handles
   <4>1. ASSUME NEW i \in DOMAIN queue
         PROVE  << queue[i], entry[queue[i]].client >> \in Handles
    <5>1. PICK p \in Players : p = queue[i]
      BY DEF RequestsFit, RequestsTyped
    <5>2. i \in 1..Len(queue)
      BY DEF RequestsFit, RequestsTyped
    <5>3. entry[p].state = "queued"
      BY <5>1, <5>2 DEF RequestsFit, EntriesFit, IsIn
    <5>4. entry[p].client \in 1..Links[p]
      BY <5>3, LinksNat DEF RequestsFit, EntriesFit, EntryFits, RequestsTyped
    <5> QED BY <5>1, <5>4, HandleIs
   <4> QED BY <2>1, <4>1 DEF CancelAll
  <3> QED BY <2>1, <3>1 DEF Parts, OperatorTyped
 <2>2. CASE UNCHANGED << closed, notices >> /\ (mode' = mode \/ mode' = "normal")
   BY <2>2 DEF Parts, OperatorTyped
 <2> QED BY <2>1, <2>2 DEF ClaimBotFill, CommitBotFill, Drain, Resume, Close, operator
<1>2. FillTyped'
  BY FreezeTyped DEF ClaimBotFill, CommitBotFill, Drain, Resume, Close, CancelAll, requests,
     Parts, FillTyped
<1>3. UNCHANGED connections
  BY DEF ClaimBotFill, CommitBotFill, Drain, Resume, Close
<1> QED BY <1>1, <1>2, <1>3 DEF Parts, ConnTyped, LinkTyped, DoingTyped, RoomsTyped, ToldTyped,
           RejoinTyped, connections

LEMMA StepTyped ==
  ASSUME HandlesTyped, SessionsTyped, RequestsFit, [Next]_vars
  PROVE  HandlesTyped'
<1>1. HandlesTyped <=> Parts
  BY TypedParts DEF Parts
<1>2. (HandlesTyped <=> Parts)'
  BY DEF HandlesTyped, Parts, OperatorTyped, ConnTyped, LinkTyped, DoingTyped, RoomsTyped,
     ToldTyped, RejoinTyped, FillTyped
<1>3. Parts'
 <2>1. CASE UNCHANGED vars
   BY <1>1, <2>1 DEF vars, operator, connections, requests, Parts, OperatorTyped, ConnTyped,
      LinkTyped, DoingTyped, RoomsTyped, ToldTyped, RejoinTyped, FillTyped
 <2>2. CASE Next
  <3>1. RequestsTyped /\ \A p \in Players : EntryFits(entry[p])
    BY DEF RequestsFit, EntriesFit
  <3> QED BY <1>1, <2>2, <3>1, CommandTyped, HandlerTyped, DepartureTyped, ReconnectTyped,
             DeadlineTyped, WorkerTyped, RoomTyped, OperatorStepTyped DEF Next
 <2> QED BY <2>1, <2>2
<1> QED BY <1>1, <1>2, <1>3

\* The rooms that sessions name.
LEMMA SessionRooms ==
  /\ 0 \in 0..Elsewhere /\ Elsewhere \in 0..Elsewhere /\ Unread \in Unread..Elsewhere
  /\ 0..Elsewhere \subseteq Unread..Elsewhere /\ Attempts \subseteq 0..Elsewhere
BY MatcherAssumption DEF Elsewhere, Unread, Attempts

LEMMA DropSessions ==
  ASSUME SessionsTyped, NEW a \in Attempts, NEW x, NEW byWorker, Drop(a, x, byWorker),
         UNCHANGED << restored, late >>
  PROVE  SessionsTyped'
BY SessionRooms DEF Drop, SessionsTyped

LEMMA SessionsStayTyped ==
  ASSUME HandlesTyped, SessionsTyped, [Next]_vars
  PROVE  SessionsTyped'
<1>1. CASE UNCHANGED sessions
  BY <1>1 DEF SessionsTyped, sessions
<1>2. CASE UNCHANGED << session, restored, late >>
  BY <1>2 DEF SessionsTyped
<1>3. ASSUME NEW h \in Handles, Command(h) \/ Handler(h) PROVE SessionsTyped'
 <2>1. CASE LeaveRoom(h)
  <3>1. UNCHANGED << restored, late >>
    BY <2>1 DEF LeaveRoom
  <3>2. PICK a \in Attempts : \/ Drop(a, att[a], FALSE)
                             \/ session' = [session EXCEPT ![h[1]] = 0]
    BY <2>1 DEF LeaveRoom
  <3> QED BY <3>1, <3>2, SessionRooms, DropSessions DEF SessionsTyped
 <2>2. CASE EnterOtherRoom(h) \/ LeaveOtherRoom(h)
   BY <2>2, SessionRooms DEF EnterOtherRoom, LeaveOtherRoom, SessionsTyped
 <2>3. CASE ~(LeaveRoom(h) \/ EnterOtherRoom(h) \/ LeaveOtherRoom(h))
   BY <1>1, <1>3, <2>3 DEF Command, Handler, Enqueue, PracticeMatch, CancelMatch, PublishQueued,
      SendQueued
 <2> QED BY <2>1, <2>2, <2>3
<1>4. ASSUME NEW h \in Handles, LoseLink(h) \/ Departure(h) \/ NotifyPending(h)
      PROVE  SessionsTyped'
 <2>1. CASE GoOffline(h)
  <3>1. UNCHANGED << restored, late >>
    BY <2>1 DEF GoOffline
  <3>2. UNCHANGED session \/ (room[h] \in Attempts /\ Drop(room[h], att[room[h]], FALSE))
    BY <2>1 DEF GoOffline
  <3> QED BY <1>2, <3>1, <3>2, DropSessions
 <2>2. CASE ~GoOffline(h)
   BY <1>1, <1>4, <2>2 DEF LoseLink, Departure, Vanish, Disconnect, NotifyPending
 <2> QED BY <2>1, <2>2
<1>5. ASSUME NEW p \in Players,
             RebindClient(p) \/ Reconnect(p) \/ Expire(p) \/ NotifyExpired(p)
      PROVE  SessionsTyped'
 <2>1. CASE RestoreSession(p) \/ RebindClient(p)
   BY <2>1, SessionRooms DEF RestoreSession, RebindClient, SessionsTyped
 <2>2. CASE Reseat(p)
  <3>1. rejoin[p].room \in 0..Elsewhere
    BY DEF HandlesTyped, RejoinRecord
  <3>2. PICK r \in 0..Elsewhere : session' = [session EXCEPT ![p] = r]
    BY <2>2, <3>1, SessionRooms DEF Reseat
  <3>3. UNCHANGED << restored, late >>
    BY <2>2 DEF Reseat
  <3> QED BY <3>2, <3>3 DEF SessionsTyped
 <2>3. CASE ~(RestoreSession(p) \/ RebindClient(p) \/ Reseat(p))
   BY <1>1, <1>5, <2>3 DEF Reconnect, ReplaceClient, SendMigrated, Expire, NotifyExpired,
      connections
 <2> QED BY <2>1, <2>2, <2>3
<1>6. ASSUME NEW a \in Attempts, Worker(a) PROVE SessionsTyped'
 <2>1. CASE Commit(a)
  <3>1. CASE UNCHANGED << session, late >>
    BY <1>2, <2>1, <3>1 DEF Commit
  <3>2. CASE /\ session' = [p \in Players |-> IF \E h \in Humans(a) : h[1] = p THEN a
                                              ELSE session[p]]
             /\ late' = { p \in late : HasSeat(p) } \cup
                        { p \in Returning : \E h \in Humans(a) : h[1] = p }
   <4>1. late' \subseteq Players
     BY <3>2 DEF SessionsTyped, Returning
   <4>2. session' \in [Players -> 0..Elsewhere]
     BY <3>2, SessionRooms DEF SessionsTyped
   <4> QED BY <2>1, <4>1, <4>2 DEF Commit, SessionsTyped
  <3> QED BY <2>1, <3>1, <3>2 DEF Commit
 <2>2. CASE PublishJoined(a) \/ RegisterSession(a) \/ RollbackRoom(a)
  <3>1. UNCHANGED << restored, late >>
    BY <2>2 DEF PublishJoined, RegisterSession, RollbackRoom
  <3>2. UNCHANGED session \/ (\E x : Drop(a, x, TRUE))
    BY <2>2 DEF PublishJoined, RegisterSession, RollbackRoom, Withdraw
  <3> QED BY <1>2, <3>1, <3>2, DropSessions
 <2>3. CASE ~Commit(a) /\ ~PublishJoined(a) /\ ~RegisterSession(a) /\ ~RollbackRoom(a)
   BY <1>1, <1>6, <2>3 DEF Worker, TakeLease, Assemble, ReadyAllAndStart, CommitAttempt,
      StartSession, ReleaseWithdrawn, NotifyRolledBack, Release, connections
 <2> QED BY <2>1, <2>2, <2>3
<1>7. ASSUME NEW a \in Attempts, Removal(a) \/ ExpireBots(a) \/ EndGame(a) \/ TimeOutRoom(a)
      PROVE  SessionsTyped'
 <2>1. CASE CloseRoom(a) \/ TimeOutRoom(a)
  <3>1. UNCHANGED << restored, late >>
    BY <2>1 DEF CloseRoom, TimeOutRoom
  <3>2. UNCHANGED session \/ (\E x : Drop(a, x, FALSE))
    BY <2>1 DEF CloseRoom, TimeOutRoom
  <3> QED BY <1>2, <3>1, <3>2, DropSessions
 <2>2. CASE DispatchRemoval(a) \/ ExpireBots(a) \/ EndGame(a)
   BY <1>1, <2>2 DEF DispatchRemoval, ExpireBots, EndGame, connections
 <2> QED BY <1>7, <2>1, <2>2 DEF Removal
<1>8. CASE UNCHANGED vars \/ ClaimBotFill \/ CommitBotFill \/ Drain \/ Resume \/ Close
  BY <1>1, <1>8 DEF vars, ClaimBotFill, CommitBotFill, Drain, Resume, Close, connections
<1> QED BY <1>3, <1>4, <1>5, <1>6, <1>7, <1>8 DEF Next

-----------------------------------------------------------------------------
(* While the operator lets nobody in                                       *)

\* A step of the operator's, or one that leaves his state alone.
OperatorSame == UNCHANGED << mode, closed >> /\ notices' \subseteq notices

LEMMA OperatorActs ==
  ASSUME [Next]_vars
  PROVE  Drain \/ Resume \/ Close \/ OperatorSame
<1>1. CASE UNCHANGED vars
  BY <1>1 DEF vars, operator, OperatorSame
<1>2. ASSUME NEW h \in Handles, \/ Command(h) \/ Handler(h) \/ LoseLink(h) \/ Departure(h)
                                \/ NotifyPending(h)
      PROVE  OperatorSame
  BY <1>2 DEF Command, Handler, Departure, Enqueue, PracticeMatch, CancelMatch, LeaveRoom,
     EnterOtherRoom, LeaveOtherRoom, PublishQueued, SendQueued, LoseLink, Vanish, Disconnect,
     GoOffline, NotifyPending, operator, OperatorSame
<1>3. ASSUME NEW p \in Players,
             RebindClient(p) \/ Reconnect(p) \/ Expire(p) \/ NotifyExpired(p)
      PROVE  OperatorSame
  BY <1>3 DEF RestoreSession, RebindClient, Reconnect, Reseat, ReplaceClient, SendMigrated,
     Expire, NotifyExpired, operator, OperatorSame
<1>4. ASSUME NEW a \in Attempts, \/ Worker(a) \/ Removal(a) \/ ExpireBots(a)
                                 \/ EndGame(a) \/ TimeOutRoom(a)
      PROVE  OperatorSame
  BY <1>4 DEF Worker, TakeLease, Assemble, Commit, ReadyAllAndStart, CommitAttempt, PublishJoined,
     RegisterSession, StartSession, ReleaseWithdrawn, RollbackRoom, NotifyRolledBack, Release,
     Removal, DispatchRemoval, CloseRoom, ExpireBots, EndGame, TimeOutRoom, operator, OperatorSame
<1>5. CASE ClaimBotFill \/ CommitBotFill
  BY <1>5 DEF ClaimBotFill, CommitBotFill, operator, OperatorSame
<1> QED BY <1>1, <1>2, <1>3, <1>4, <1>5 DEF Next

LEMMA OperatorStaysFit ==
  ASSUME OperatorFits, HandlesTyped, Reserved, Served, HandlesTyped', [Next]_vars
  PROVE  OperatorFits'
<1>1. CASE Drain \/ Close
 <2>1. CancelAll /\ (mode' = "draining" \/ closed')
   BY <1>1 DEF Drain, Close
 <2>2. queue' = << >>
   BY <2>1 DEF CancelAll
 <2>3. ASSUME NEW h \in notices' PROVE entry'[h[1]] = NoEntry
  <3>1. PICK i \in DOMAIN queue : h = << queue[i], entry[queue[i]].client >>
    BY <2>1, <2>3 DEF CancelAll
  <3>2. PICK p \in Players : p = queue[i]
    BY DEF Reserved, RequestsFit, RequestsTyped
  <3>3. i \in 1..Len(queue)
    BY DEF Reserved, RequestsFit, RequestsTyped
  <3>4. entry[p].state = "queued"
    BY <3>2, <3>3 DEF Reserved, RequestsFit, EntriesFit, IsIn
  <3>5. entry'[p] = NoEntry
    BY <2>1, <3>4 DEF CancelAll
  <3> QED BY <3>1, <3>2, <3>5
 <2> QED BY <2>1, <2>2, <2>3 DEF OperatorFits, HandlesTyped
<1>2. CASE Resume
 <2>1. notices' = {} /\ mode' = "normal" /\ closed' = closed /\ queue' = queue
   BY <1>2 DEF Resume, requests
 <2> QED BY <2>1 DEF OperatorFits
<1>3. CASE OperatorSame
 <2>1. mode = "draining" \/ closed => LetsNobodyIn
   BY DEF Served
 <2>2. ASSUME NEW h \in notices' PROVE entry'[h[1]] = NoEntry /\ (mode = "draining" \/ closed)
  <3>1. h \in notices
    BY <1>3, <2>2 DEF OperatorSame
  <3>2. h[1] \in Players /\ entry[h[1]] = NoEntry /\ (mode = "draining" \/ closed)
    BY <3>1, Handle DEF OperatorFits
  <3> QED BY <2>1, <3>2 DEF LetsNobodyIn
 <2>3. mode = "draining" \/ closed => queue' = << >>
   BY <2>1 DEF OperatorFits, LetsNobodyIn
 <2> QED BY <1>3, <2>2, <2>3 DEF OperatorFits, OperatorSame, HandlesTyped
<1> QED BY <1>1, <1>2, <1>3, OperatorActs

LEMMA ScheduledFits ==
  ASSUME NEW q \in Seq(Players), NEW f, f # "off" => q # << >>, Scheduled(q, f) # "off"
  PROVE  q # << >>
BY DEF Scheduled

LEMMA RemovalFits ==
  ASSUME NEW q \in Seq(Players), AfterRemoval(q) # "off"
  PROVE  q # << >>
<1>1. PICK f : f = IF q = << >> THEN "off" ELSE fill
  OBVIOUS
<1>2. Scheduled(q, f) # "off"
  BY <1>1 DEF AfterRemoval
<1> QED BY <1>1, <1>2, ScheduledFits

LEMMA CancelledFillFits ==
  ASSUME FillFits, RequestsFit, NEW p \in Players, NEW by, NEW c, c = Cancelled(p, by),
         c.fill # "off"
  PROVE  c.queue # << >>
<1>1. CASE entry[p].state = "queued"
 <2>1. IsIn(p, queue) /\ Distinct(queue) /\ RequestsTyped
   BY <1>1 DEF RequestsFit, EntriesFit
 <2>2. WithoutPlayer(p) \in Seq(Players)
   BY <2>1, WithoutTakesOut
 <2>3. c.queue = WithoutPlayer(p) /\ c.fill = AfterRemoval(WithoutPlayer(p))
   BY <1>1 DEF Cancelled
 <2> QED BY <2>2, <2>3, RemovalFits
<1>2. CASE entry[p].state # "queued"
  BY <1>2 DEF Cancelled, FillFits
<1> QED BY <1>1, <1>2

LEMMA CancelEntryFillFits ==
  ASSUME FillFits, RequestsFit, NEW h \in Handles, NEW by, CancelEntry(h, by)
  PROVE  FillFits'
<1>1. h[1] \in Players
  BY Handle
<1>2. CASE Owns(h)
 <2>1. PICK c : c = Cancelled(h[1], by) /\ queue' = c.queue /\ fill' = c.fill
   BY <1>2 DEF CancelEntry
 <2> QED BY <1>1, <2>1, CancelledFillFits DEF FillFits
<1>3. CASE ~Owns(h)
  BY <1>3 DEF CancelEntry, FillFits, requests
<1> QED BY <1>2, <1>3

LEMMA FreezeFillFits ==
  ASSUME NEW q, NEW e, NEW bots, NEW launched, Freeze(q, e, bots, launched)
  PROVE  FillFits'
BY DEF Freeze, FillFits

LEMMA FillStaysFit ==
  ASSUME FillFits, RequestsFit, HandlesTyped, [Next]_vars
  PROVE  FillFits'
<1>1. queue \in Seq(Players) /\ RequestsTyped
  BY DEF RequestsFit, RequestsTyped
<1>2. CASE UNCHANGED << queue, fill >>
  BY <1>2 DEF FillFits
<1>3. CASE queue' = queue /\ fill' = Scheduled(queue, fill)
  BY <1>1, <1>3, ScheduledFits DEF FillFits
<1>4. ASSUME NEW h \in Handles, Command(h) \/ Handler(h) PROVE FillFits'
 <2>1. CASE Enqueue(h)
  <3>1. h[1] \in Players
    BY Handle
  <3>2. CASE queue' = Append(queue, h[1])
    BY <1>1, <3>1, <3>2 DEF FillFits
  <3> QED BY <2>1, <3>2, FreezeFillFits DEF Enqueue
 <2>2. CASE PracticeMatch(h)
   BY <2>2, FreezeFillFits DEF PracticeMatch
 <2>3. CASE CancelMatch(h)
   BY <2>3, CancelEntryFillFits DEF CancelMatch
 <2>4. CASE SendQueued(h)
  <3>1. h[1] \in Players
    BY Handle
  <3>2. CASE Owns(h) /\ ~Reaches(h)
   <4>1. PICK c : c = Cancelled(h[1], Nobody) /\ queue' = c.queue /\ fill' = c.fill
     BY <2>4, <3>2 DEF SendQueued
   <4> QED BY <3>1, <4>1, CancelledFillFits DEF FillFits
  <3>3. CASE ~(Owns(h) /\ ~Reaches(h))
   <4>1. UNCHANGED << queue, fill >>
     BY <2>4, <3>3 DEF SendQueued
   <4> QED BY <1>2, <4>1
  <3> QED BY <3>2, <3>3
 <2>5. CASE LeaveRoom(h) \/ EnterOtherRoom(h) \/ LeaveOtherRoom(h) \/ PublishQueued(h)
   BY <1>2, <2>5 DEF LeaveRoom, EnterOtherRoom, LeaveOtherRoom, PublishQueued, requests
 <2> QED BY <1>4, <2>1, <2>2, <2>3, <2>4, <2>5 DEF Command, Handler
<1>5. ASSUME NEW h \in Handles, LoseLink(h) \/ Departure(h) \/ NotifyPending(h) PROVE FillFits'
 <2>1. CASE Disconnect(h)
   BY <2>1, CancelEntryFillFits DEF Disconnect
 <2>2. CASE ~Disconnect(h)
   BY <1>2, <1>5, <2>2 DEF Departure, LoseLink, Vanish, GoOffline, NotifyPending, requests
 <2> QED BY <2>1, <2>2
<1>6. ASSUME NEW p \in Players,
             RebindClient(p) \/ Reconnect(p) \/ Expire(p) \/ NotifyExpired(p)
      PROVE  FillFits'
 <2>1. CASE RestoreSession(p) \/ RebindClient(p) \/ Reseat(p) \/ ReplaceClient(p)
   BY <1>2, <2>1 DEF RestoreSession, RebindClient, Reseat, ReplaceClient, requests
 <2>2. CASE SendMigrated(p)
  <3>1. rejoin[p].gen \in 1..Links[p]
    BY <2>2 DEF SendMigrated, HandlesTyped
  <3>2. PICK h \in Handles : h = << p, rejoin[p].gen >>
    BY <3>1, HandleIs
  <3>3. UNCHANGED requests \/ CancelEntry(h, Nobody)
    BY <2>2, <3>2 DEF SendMigrated
  <3> QED BY <1>2, <3>3, CancelEntryFillFits DEF requests
 <2>3. CASE Expire(p)
  <3>1. CASE entry[p].state = "queued"
   <4>1. WithoutPlayer(p) \in Seq(Players)
     BY <3>1, WithoutTakesOut DEF RequestsFit, EntriesFit
   <4>2. queue' = WithoutPlayer(p) /\ fill' = AfterRemoval(queue')
     BY <2>3, <3>1 DEF Expire
   <4> QED BY <4>1, <4>2, RemovalFits DEF FillFits
  <3>2. CASE entry[p].state = "inflight"
   <4>1. entry[p].client \in 1..Links[p]
     BY <3>2, LinksNat DEF RequestsFit, EntriesFit, EntryFits, RequestsTyped
   <4>2. PICK h \in Handles : h = << p, entry[p].client >>
     BY <4>1, HandleIs
   <4>3. CancelEntry(h, Nobody)
     BY <2>3, <3>2, <4>2 DEF Expire
   <4> QED BY <4>3, CancelEntryFillFits
  <3> QED BY <2>3, <3>1, <3>2 DEF Expire
 <2>4. CASE NotifyExpired(p)
   BY <1>3, <2>4 DEF NotifyExpired
 <2> QED BY <1>6, <2>1, <2>2, <2>3, <2>4 DEF Reconnect
<1>7. ASSUME NEW a \in Attempts, \/ Worker(a) \/ Removal(a) \/ ExpireBots(a)
                                 \/ EndGame(a) \/ TimeOutRoom(a)
      PROVE  FillFits'
 <2>1. UNCHANGED << queue, fill >> \/ (queue' = queue /\ fill' = Scheduled(queue, fill))
   BY <1>7 DEF Worker, TakeLease, Assemble, Commit, ReadyAllAndStart, CommitAttempt, PublishJoined,
      RegisterSession, StartSession, ReleaseWithdrawn, RollbackRoom, NotifyRolledBack, Release,
      Removal, DispatchRemoval, CloseRoom, ExpireBots, EndGame, TimeOutRoom, requests
 <2> QED BY <1>2, <1>3, <2>1
<1>8. CASE ClaimBotFill \/ CommitBotFill \/ Drain \/ Resume \/ Close
 <2>1. CASE ClaimBotFill
   BY <2>1 DEF ClaimBotFill, FillFits
 <2>2. CASE CommitBotFill
   BY <2>2, FreezeFillFits DEF CommitBotFill
 <2>3. CASE Drain \/ Close
   BY <2>3 DEF Drain, Close, CancelAll, FillFits
 <2>4. CASE Resume
   BY <1>2, <2>4 DEF Resume, requests
 <2> QED BY <1>8, <2>1, <2>2, <2>3, <2>4
<1>9. CASE UNCHANGED vars
  BY <1>2, <1>9 DEF vars, requests
<1> QED BY <1>4, <1>5, <1>6, <1>7, <1>8, <1>9 DEF Next

-----------------------------------------------------------------------------
(* The invariant                                                           *)

MatcherInv ==
  /\ HandlesTyped /\ SessionsTyped /\ Reserved /\ EveryAttemptFits /\ SeatsLive
  /\ OperatorFits /\ FillFits

LEMMA UnusedFits == Unused \in AttemptType /\ AttInv(Unused)
BY DEF Unused, AttemptType, AttemptRecord, AttInv, ListedStages

LEMMA InitFits == Init => MatcherInv
<1> SUFFICES ASSUME Init PROVE MatcherInv
  OBVIOUS
<1>1. HandlesTyped
 <2>1. \A p \in Players : Links[p] \in Nat /\ 1 \in 0..Links[p]
   BY MatcherAssumption
 <2>2. 0 \in 0..Former /\ NoRejoin \in RejoinRecord /\ NoRejoin.step = "none"
   BY MatcherAssumption DEF Former, Elsewhere, NoRejoin, RejoinRecord
 <2> QED BY <2>1, <2>2 DEF Init, HandlesTyped
<1>2. AttemptsTyped /\ EveryAttemptFits
  BY UnusedFits DEF Init, AttemptsTyped, EveryAttemptFits
<1>3. RequestsFit
 <2>1. \A p \in Players : Links[p] \in Nat
   BY MatcherAssumption
 <2>2. NoEntry \in EntryRecord /\ EntryFits(NoEntry) /\ NoEntry.client = 0
       /\ NoEntry.state = "none"
   BY MatcherAssumption DEF NoEntry, EntryRecord, EntryFits
 <2>3. queue = << >> /\ Len(queue) = 0
   BY DEF Init
 <2> QED BY <2>1, <2>2, <2>3 DEF Init, RequestsFit, RequestsTyped, EntriesFit, IsIn, Distinct
<1>4. AttemptsServe
  BY AttemptsNat DEF Init, AttemptsServe, Serves, Unused, NoEntry, ListedStages
<1>5. SeatsLive
  BY NotAttempts DEF Init, SeatsLive
<1>6. OperatorFits /\ FillFits
  BY DEF Init, OperatorFits, FillFits
<1>7. SessionsTyped
  BY SessionRooms DEF Init, SessionsTyped
<1> QED BY <1>1, <1>2, <1>3, <1>4, <1>5, <1>6, <1>7 DEF MatcherInv, Reserved

LEMMA StepFits == MatcherInv /\ [Next]_vars => MatcherInv' /\ Served
<1> SUFFICES ASSUME MatcherInv, [Next]_vars PROVE MatcherInv' /\ Served
  OBVIOUS
<1>1. /\ HandlesTyped /\ SessionsTyped /\ Reserved /\ EveryAttemptFits /\ SeatsLive
      /\ OperatorFits /\ FillFits
  BY DEF MatcherInv
<1>2. Served
  BY <1>1, StepIsServed
<1>3. HandlesTyped' /\ SessionsTyped'
  BY <1>1, StepTyped, SessionsStayTyped DEF Reserved
<1>4. Reserved'
  BY <1>2 DEF Served, EveryAttemptEvolves, Reserved
<1>5. EveryAttemptFits'
 <2>1. ASSUME NEW a \in Attempts PROVE AttInv(att'[a])
  <3>1. att[a] \in AttemptType /\ AttInv(att[a])
    BY <1>1 DEF Reserved, AttemptsTyped, EveryAttemptFits
  <3>2. att'[a] \in AttemptType /\ Evolves(att[a], att'[a])
    BY <1>2 DEF Served, EveryAttemptEvolves, AttemptsTyped, GoesOn
  <3> QED BY <3>1, <3>2, EvolvesKeeps
 <2>2. \A a \in Attempts : AttInv(att'[a])
   BY <2>1
 <2> QED BY <2>2 DEF EveryAttemptFits, AttInv
<1>6. SeatsLive'
  BY <1>1, <1>2, StepMovesSeats, SeatsStayLive DEF Reserved, Served
<1>7. OperatorFits'
  BY <1>1, <1>2, <1>3, OperatorStaysFit
<1>8. FillFits'
  BY <1>1, FillStaysFit DEF Reserved, RequestsFit
<1> QED BY <1>2, <1>3, <1>4, <1>5, <1>6, <1>7, <1>8 DEF MatcherInv

LEMMA MatcherFits == Spec => []MatcherInv
BY InitFits, StepFits, PTL DEF Spec

-----------------------------------------------------------------------------
(* What follows from it                                                    *)

\* Every variable of the matcher keeps its type, and a worker's loop over the
\* humans of its attempt stays within them (matcher.go:585-900).
THEOREM MatcherKeepsTypes == Spec => []TypeOK
<1>1. MatcherInv => TypeOK
 <2> SUFFICES ASSUME MatcherInv PROVE TypeOK
   OBVIOUS
 <2>1. \A p \in Players : /\ entry[p].client \in 0..Links[p]
                          /\ entry[p].state \in {"none", "queued", "inflight", "rolledback"}
                          /\ entry[p].attempt \in 0..MaxAttempts
   BY DEF MatcherInv, Reserved, RequestsFit, RequestsTyped, EntryRecord
 <2>2. \A a \in Attempts : /\ att[a].lease \in {"none", "held", "session"}
                           /\ att[a].step \in 1..Len(att[a].humans) \/ att[a].humans = << >>
                           /\ att[a].room \in {"none", "waiting", "ready", "playing",
                                               "dropped", "gone"}
   BY DEF MatcherInv, Reserved, AttemptsTyped, AttemptType, AttemptRecord, LiveStates
 <2>3. queue \in Seq(Players)
   BY DEF MatcherInv, Reserved, RequestsFit, RequestsTyped
 <2>4. \A p \in Players : session[p] \in 0..Elsewhere /\ restored[p] \in Unread..Elsewhere
   BY DEF MatcherInv, SessionsTyped
 <2>5. late \subseteq Players
   BY DEF MatcherInv, SessionsTyped
 <2> QED BY <2>1, <2>2, <2>3, <2>4, <2>5 DEF MatcherInv, HandlesTyped, TypeOK
<1> QED BY <1>1, MatcherFits, PTL

\* A player has at most one place in the queue, and has it if and only if his
\* entry says so; the attempt that an entry names still has him, on this very
\* connection; and an attempt that was cancelled has no entry that counts as
\* inflight (newAttemptLocked, cancelAttemptLocked, releaseRolledBackEntries).
LEMMA ReservedFits == MatcherInv => ReservedIsOwned
<1> SUFFICES ASSUME MatcherInv, NEW p \in Players
    PROVE  /\ (\E i \in DOMAIN queue : queue[i] = p) <=> entry[p].state = "queued"
           /\ Cardinality({ i \in DOMAIN queue : queue[i] = p }) <= 1
           /\ entry[p].attempt # 0 =>
                /\ Listed(entry[p].attempt)
                /\ << p, entry[p].client >> \in Humans(entry[p].attempt)
           /\ entry[p].state = "inflight" => ~att[entry[p].attempt].stopped
  BY DEF ReservedIsOwned
<1>1. DOMAIN queue = 1..Len(queue)
  BY DEF MatcherInv, Reserved, RequestsFit, RequestsTyped
<1>2. (\E i \in DOMAIN queue : queue[i] = p) <=> entry[p].state = "queued"
  BY <1>1 DEF MatcherInv, Reserved, RequestsFit, EntriesFit, IsIn
<1>3. PICK places : places = { i \in DOMAIN queue : queue[i] = p }
  OBVIOUS
<1>4. Cardinality(places) <= 1
 <2>1. CASE places = {}
  <3>1. Cardinality(places) = 0
    BY <2>1, FS_EmptySet
  <3> QED BY <3>1
 <2>2. CASE places # {}
  <3>1. PICK i : i \in places
    BY <2>2
  <3>2. \A j \in places : j = i
    BY <1>1, <1>3, <3>1 DEF MatcherInv, Reserved, RequestsFit, EntriesFit, Distinct
  <3>3. places = {i}
    BY <3>1, <3>2
  <3>4. Cardinality(places) = 1
    BY <3>3, FS_Singleton
  <3> QED BY <3>4
 <2> QED BY <2>1, <2>2
<1>5. entry[p].attempt \in 0..MaxAttempts
  BY DEF MatcherInv, Reserved, RequestsFit, RequestsTyped, EntryRecord
<1>6. ASSUME entry[p].attempt # 0
      PROVE  /\ Listed(entry[p].attempt)
             /\ << p, entry[p].client >> \in Humans(entry[p].attempt)
             /\ entry[p].state = "inflight" => ~att[entry[p].attempt].stopped
 <2>1. PICK a \in Attempts : a = entry[p].attempt
   BY <1>5, <1>6, MatcherAssumption DEF Attempts
 <2>2. Serves(p, a)
   BY DEF MatcherInv, Reserved, AttemptsServe
 <2> QED BY <2>1, <2>2 DEF Serves, Listed, ListedStages
<1>7. entry[p].state = "inflight" => entry[p].attempt # 0
  BY DEF MatcherInv, Reserved, RequestsFit, EntriesFit, EntryFits
<1> QED BY <1>2, <1>3, <1>4, <1>6, <1>7

LEMMA OwnersFit == MatcherInv => BotsAreOwned /\ LeaseIsAccounted
<1> SUFFICES ASSUME MatcherInv, NEW a \in Attempts
    PROVE  /\ att[a].bots = "open" => Listed(a) \/ Live(a) \/ att[a].room = "dropped"
           /\ Live(a) => att[a].bots # "closed"
           /\ att[a].room = "playing" => att[a].lease = "session"
           /\ att[a].stage = "done" /\ att[a].lease # "none" =>
                att[a].room = "playing" \/ att[a].room = "dropped"
  BY DEF BotsAreOwned, LeaseIsAccounted
<1>1. AttInv(att[a]) /\ att[a] \in AttemptRecord
  BY DEF MatcherInv, EveryAttemptFits, Reserved, AttemptsTyped, AttemptType
<1> QED BY <1>1 DEF AttInv, AttemptRecord, Listed, Live, ListedStages, LiveStates

LEMMA StoppedStaysUnpublished ==
  ASSUME NEW x \in AttemptType, NEW y \in AttemptType, AttInv(x), Evolves(x, y),
         x.stage \in ListedStages, x.stopped
  PROVE  ~y.published
BY DEF Evolves, Marked, Begins, TakesLease, Proceeds, Fails, Published, Withdrawn, RollsBack,
       Notifies, Plays, EndsWithout, Releases, LosesRoom, Unpublished, IsRemoved, Reopens,
       SameGoods, Dropped, Ends, AttInv, ListedStages

\* A match whose attempt was cancelled before commitAttempt, by a cancel, a
\* disconnect, a replaced connection, a deadline, a drain or the removal of its
\* room, is never published, however far its worker has come (matcher.go:585-900).
THEOREM CancelledMatchesNeverPlay == Spec => CancelledNeverPlays
<1>1. MatcherInv /\ [Next]_vars =>
        \A a \in Attempts : Listed(a) /\ att[a].stopped => ~att'[a].published
 <2> SUFFICES ASSUME MatcherInv, [Next]_vars, NEW a \in Attempts, Listed(a), att[a].stopped
     PROVE  ~att'[a].published
   OBVIOUS
 <2>1. att[a] \in AttemptType /\ AttInv(att[a]) /\ att[a].stage \in ListedStages
   BY DEF MatcherInv, Reserved, AttemptsTyped, EveryAttemptFits, Listed, ListedStages
 <2>2. att'[a] \in AttemptType /\ Evolves(att[a], att'[a])
   BY StepFits DEF Served, EveryAttemptEvolves, AttemptsTyped, GoesOn
 <2> QED BY <2>1, <2>2, StoppedStaysUnpublished
<1> QED BY <1>1, MatcherFits, PTL DEF Spec, CancelledNeverPlays

LEMMA NoLeaseWhileDrained ==
  ASSUME NEW x \in AttemptType, NEW y \in AttemptType, AttInv(x), Evolves(x, y),
         mode # "normal", x.lease = "none"
  PROVE  y.lease = "none"
BY DEF Evolves, Marked, Begins, TakesLease, Proceeds, Fails, Published, Withdrawn, RollsBack,
       Notifies, Plays, EndsWithout, Releases, LosesRoom, Unpublished, IsRemoved, Reopens,
       SameGoods, Dropped, Ends, AttInv, ListedStages

\* Once a drained matcher has no lease and no notice outstanding, which is when
\* the operator is told that it is quiet, no lease is taken, no notice comes up
\* and no match begins until he resumes (SetOperationalState, AcquireStart).
THEOREM DrainedMatcherStaysQuiet == Spec => DrainedStaysQuiet
<1>1. MatcherInv /\ [Next]_vars =>
        (Quiet /\ mode' = mode => Quiet' /\ \A a \in Attempts : att'[a].room # "playing")
 <2> SUFFICES ASSUME MatcherInv, [Next]_vars, Quiet, mode' = mode
     PROVE  Quiet' /\ \A a \in Attempts : att'[a].room # "playing"
   OBVIOUS
 <2>1. mode = "draining" /\ queue = << >>
   BY DEF MatcherInv, HandlesTyped, OperatorFits, Quiet
 <2>2. notices' = {}
  <3>1. CASE Drain \/ Resume
    BY <2>1, <3>1 DEF Drain, Resume
  <3>2. CASE Close
    BY <2>1, <3>2 DEF Close, CancelAll
  <3>3. CASE OperatorSame
    BY <3>3 DEF OperatorSame, Quiet
  <3> QED BY <3>1, <3>2, <3>3, OperatorActs
 <2>3. ASSUME NEW a \in Attempts PROVE att'[a].lease = "none" /\ att'[a].room # "playing"
  <3>1. att[a] \in AttemptType /\ AttInv(att[a]) /\ att[a].lease = "none"
    BY DEF MatcherInv, Reserved, AttemptsTyped, EveryAttemptFits, Quiet
  <3>2. att'[a] \in AttemptType /\ Evolves(att[a], att'[a])
    BY StepFits DEF Served, EveryAttemptEvolves, AttemptsTyped, GoesOn
  <3>3. att'[a].lease = "none"
    BY <2>1, <3>1, <3>2, NoLeaseWhileDrained
  <3>4. AttInv(att'[a])
    BY <3>1, <3>2, EvolvesKeeps
  <3> QED BY <3>3, <3>4 DEF AttInv
 <2> QED BY <2>1, <2>2, <2>3 DEF Quiet
<1> QED BY <1>1, MatcherFits, PTL DEF Spec, DrainedStaysQuiet

\* A notice to h that is not about the request its player now has there.
NotAbout(h) ==
  told[h] = "queued" /\ told'[h] = "nothing" /\ link'[h] = "open" /\ room[h] = 0 /\ room'[h] = 0 =>
    ~(entry'[h[1]].client = h[2] /\ entry'[h[1]].state \in {"queued", "inflight"})

LEMMA HearsOne ==
  ASSUME ToldTyped, NEW h \in Handles, NEW g, NEW what, Hears(g, what), told'[h] # told[h]
  PROVE  h = g /\ what = told'[h]
BY DEF ToldTyped, Hears

LEMMA CancelledIsNoMore ==
  ASSUME RequestsFit, NEW h \in Handles, NEW by, CancelEntry(h, by), Wanted(h)
  PROVE  entry'[h[1]].state \notin {"queued", "inflight"}
<1>1. PICK p \in Players : p = h[1]
  BY Handle
<1>2. PICK c : c = Cancelled(p, by) /\ entry' = c.entry
  BY <1>1 DEF CancelEntry, Wanted
<1>3. entry \in [Players -> EntryRecord]
  BY DEF RequestsFit, RequestsTyped
<1>4. CASE entry[p].state = "queued"
 <2>1. entry' = [entry EXCEPT ![p] = NoEntry]
   BY <1>2, <1>4 DEF Cancelled
 <2> QED BY <1>1, <1>3, <2>1 DEF NoEntry
<1>5. CASE entry[p].state = "inflight"
 <2>1. entry' = RolledBack({entry[p].attempt})
   BY <1>2, <1>5 DEF Cancelled
 <2>2. entry'[p] = [entry[p] EXCEPT !.state = "rolledback"]
   BY <1>5, <2>1 DEF RolledBack
 <2>3. entry'[p].state = "rolledback"
   BY <1>3, <2>2 DEF EntryRecord
 <2> QED BY <1>1, <2>3
<1> QED BY <1>1, <1>4, <1>5 DEF Wanted

\* The steps that tell somebody that his request is over.
TellsOver(h) ==
  \/ CancelMatch(h) \/ (\E p \in Players : NotifyExpired(p))
  \/ (\E a \in Attempts : NotifyRolledBack(a) \/ DispatchRemoval(a))
  \/ NotifyPending(h)

LEMMA OnlyTellsOver ==
  ASSUME HandlesTyped, [Next]_vars, NEW h \in Handles, told[h] = "queued", told'[h] = "nothing",
         link'[h] = "open", room[h] = 0, room'[h] = 0
  PROVE  TellsOver(h)
<1>1. ToldTyped
  BY TypedParts
<1>2. told'[h] # told[h] /\ told' # told
  OBVIOUS
<1>3. ~UNCHANGED vars
  BY <1>2 DEF vars, connections
<1>4. ASSUME NEW g \in Handles, Command(g) \/ Handler(g) PROVE TellsOver(h)
 <2>1. CASE CancelMatch(g)
  <3>1. g = h
    BY <1>1, <1>2, <2>1 DEF CancelMatch, ToldTyped
  <3> QED BY <2>1, <3>1 DEF TellsOver
 <2>2. CASE SendQueued(g)
  <3>1. PICK what \in {"queued", "stale"} : Hears(g, what)
    BY <2>2 DEF SendQueued
  <3> QED BY <1>1, <1>2, <3>1, HearsOne
 <2>3. CASE LeaveRoom(g)
  <3>1. g = h
    BY <1>1, <1>2, <2>3 DEF LeaveRoom, ToldTyped
  <3> QED BY <2>3, <3>1, NotAttempts DEF LeaveRoom
 <2>4. CASE EnterOtherRoom(g)
  <3>1. g = h
    BY <1>1, <1>2, <2>4 DEF EnterOtherRoom, ToldTyped
  <3>2. room' = [room EXCEPT ![h] = Elsewhere] /\ Elsewhere # 0
    BY <2>4, <3>1, MatcherAssumption DEF EnterOtherRoom, Elsewhere
  <3> QED BY <3>2 DEF HandlesTyped
 <2>5. CASE Enqueue(g) \/ PracticeMatch(g) \/ LeaveOtherRoom(g) \/ PublishQueued(g)
   BY <1>2, <2>5 DEF Enqueue, PracticeMatch, LeaveOtherRoom, PublishQueued
 <2> QED BY <1>4, <2>1, <2>2, <2>3, <2>4, <2>5 DEF Command, Handler
<1>5. ASSUME NEW g \in Handles, LoseLink(g) \/ Departure(g) \/ NotifyPending(g)
      PROVE  TellsOver(h)
 <2>1. CASE LoseLink(g)
  <3>1. g = h
    BY <1>1, <1>2, <2>1 DEF LoseLink, ToldTyped
  <3> QED BY <2>1, <3>1 DEF LoseLink, HandlesTyped
 <2>2. CASE Departure(g)
   BY <1>2, <2>2 DEF Departure, Vanish, Disconnect, GoOffline
 <2>3. CASE NotifyPending(g)
  <3>1. g = h
    BY <1>1, <1>2, <2>3, HearsOne DEF NotifyPending
  <3> QED BY <2>3, <3>1 DEF TellsOver
 <2> QED BY <1>5, <2>1, <2>2, <2>3
<1>6. ASSUME NEW p \in Players,
             RebindClient(p) \/ Reconnect(p) \/ Expire(p) \/ NotifyExpired(p)
      PROVE  TellsOver(h)
 <2>1. CASE SendMigrated(p)
  <3>1. PICK g : g = << p, rejoin[p].gen >>
    OBVIOUS
  <3>2. PICK what \in {"queued", "stale"} : Hears(g, what)
    BY <2>1, <3>1 DEF SendMigrated
  <3> QED BY <1>1, <1>2, <3>2, HearsOne
 <2>2. CASE NotifyExpired(p)
   BY <2>2 DEF TellsOver
 <2>3. CASE RestoreSession(p) \/ RebindClient(p) \/ Reseat(p) \/ ReplaceClient(p) \/ Expire(p)
   BY <1>2, <2>3 DEF RestoreSession, RebindClient, Reseat, ReplaceClient, Expire, connections
 <2> QED BY <1>6, <2>1, <2>2, <2>3 DEF Reconnect
<1>7. ASSUME NEW a \in Attempts, \/ Worker(a) \/ Removal(a) \/ ExpireBots(a)
                                 \/ EndGame(a) \/ TimeOutRoom(a)
      PROVE  TellsOver(h)
 <2>1. CASE NotifyRolledBack(a) \/ DispatchRemoval(a)
   BY <2>1 DEF TellsOver
 <2>2. CASE PublishJoined(a)
  <3>1. PICK g : /\ g = att[a].humans[att[a].step]
                 /\ room[g] = a \/ UNCHANGED told
                 /\ told' = [told EXCEPT ![g] = "nothing"] \/ UNCHANGED told
    BY <2>2 DEF PublishJoined
  <3>2. g = h
    BY <1>1, <1>2, <3>1 DEF ToldTyped
  <3> QED BY <1>2, <3>1, <3>2, NotAttempts
 <2>3. CASE ~NotifyRolledBack(a) /\ ~DispatchRemoval(a) /\ ~PublishJoined(a)
   BY <1>2, <1>7, <2>3 DEF Worker, TakeLease, Assemble, Commit, ReadyAllAndStart, CommitAttempt,
      RegisterSession, StartSession, ReleaseWithdrawn, RollbackRoom, Release,
      Removal, CloseRoom, ExpireBots, EndGame, TimeOutRoom, connections
 <2> QED BY <2>1, <2>2, <2>3
<1>8. ~(ClaimBotFill \/ CommitBotFill \/ Drain \/ Resume \/ Close)
  BY <1>2 DEF ClaimBotFill, CommitBotFill, Drain, Resume, Close, connections
<1> QED BY <1>3, <1>4, <1>5, <1>6, <1>7, <1>8 DEF Next

LEMMA NotifiedIsOver ==
  ASSUME MatcherInv, NEW a \in Attempts, NotifyRolledBack(a), NEW h \in Handles,
         told[h] = "queued", told'[h] = "nothing"
  PROVE  entry'[h[1]].state \notin {"queued", "inflight"}
<1>1. att[a] \in AttemptType /\ att[a].stage = "notify" /\ AttInv(att[a])
  BY DEF MatcherInv, Reserved, AttemptsTyped, EveryAttemptFits, NotifyRolledBack
<1>2. att[a].humans \in Seq(Handles) /\ att[a].humans # << >> /\ att[a].stopped
  BY <1>1 DEF AttemptType, AttemptRecord, AttInv, ListedStages
<1>3. att[a].step \in 1..Len(att[a].humans)
  BY <1>1, <1>2 DEF AttemptType
<1>4. PICK g \in Handles : g = att[a].humans[att[a].step]
  BY <1>2, <1>3
<1>5. g \in Humans(a)
  BY <1>2, <1>3, <1>4 DEF Humans
<1>6. UNCHANGED told \/ Hears(g, "nothing")
  BY <1>4 DEF NotifyRolledBack
<1>7. ToldTyped
  BY TypedParts DEF MatcherInv
<1>8. g = h
  BY <1>6, <1>7, HearsOne
<1>9. PICK p \in Players, n \in Nat : p = h[1] /\ h = << p, n >>
  BY Handle
<1>10. Serves(p, a)
  BY DEF MatcherInv, Reserved, AttemptsServe
<1>11. entry[p].attempt = a /\ entry[p].state # "inflight"
  BY <1>1, <1>2, <1>5, <1>8, <1>9, <1>10 DEF Serves, ListedStages
<1>12. entry[p].state # "queued"
  BY <1>11, AttemptsNat DEF MatcherInv, Reserved, RequestsFit, EntriesFit, EntryFits
<1>13. entry' = entry
  BY DEF NotifyRolledBack, requests
<1> QED BY <1>9, <1>11, <1>12, <1>13

LEMMA DispatchedIsOver ==
  ASSUME MatcherInv, NEW a \in Attempts, DispatchRemoval(a), NEW h \in Handles,
         told[h] = "queued", told'[h] = "nothing"
  PROVE  ~(entry'[h[1]].client = h[2] /\ entry'[h[1]].state \in {"queued", "inflight"})
<1>1. PICK p \in Players : p = h[1]
  BY Handle
<1>2. ~Wanted(h)
  BY DEF DispatchRemoval
<1>3. entry' = RolledBack({a})
  BY DEF DispatchRemoval
<1>4. entry[p] \in EntryRecord
  BY DEF MatcherInv, Reserved, RequestsFit, RequestsTyped
<1>5. entry'[p] = entry[p] \/ entry'[p] = [entry[p] EXCEPT !.state = "rolledback"]
  BY <1>3 DEF RolledBack
<1>6. entry'[p] = entry[p] \/ entry'[p].state = "rolledback"
  BY <1>4, <1>5 DEF EntryRecord
<1> QED BY <1>1, <1>2, <1>6 DEF Wanted, Owns

LEMMA ExpiredIsOver ==
  ASSUME MatcherInv, NEW p \in Players, NotifyExpired(p), NEW h \in Handles,
         told[h] = "queued", told'[h] = "nothing"
  PROVE  entry'[h[1]].state \notin {"queued", "inflight"}
<1>1. PICK g : g = << p, entry[p].client >>
  OBVIOUS
<1>2. UNCHANGED told \/ Hears(g, "nothing")
  BY <1>1 DEF NotifyExpired
<1>3. ToldTyped
  BY TypedParts DEF MatcherInv
<1>4. h[1] = p
  BY <1>1, <1>2, <1>3, HearsOne
<1>5. entry' = [entry EXCEPT ![p] = NoEntry]
  BY DEF NotifyExpired
<1>6. entry \in [Players -> EntryRecord]
  BY DEF MatcherInv, Reserved, RequestsFit, RequestsTyped
<1>7. entry'[p] = NoEntry
  BY <1>5, <1>6
<1> QED BY <1>4, <1>7 DEF NoEntry

LEMMA PendingIsOver ==
  ASSUME MatcherInv, NEW h \in Handles, NotifyPending(h)
  PROVE  entry'[h[1]].state \notin {"queued", "inflight"}
<1>1. entry[h[1]] = NoEntry
  BY DEF MatcherInv, OperatorFits, NotifyPending
<1>2. entry' = entry
  BY DEF NotifyPending, requests
<1> QED BY <1>1, <1>2 DEF NoEntry

\* Entries stay reserved until their notice is on its way: a cancellation that
\* reaches a client that was told it is queued is about the request it has, not
\* about an older one (deliveryMu; notifyRolledBackEntries before
\* releaseRolledBackEntries), whoever sends it.
LEMMA NoticesAreInOrder == Spec => NoticesInOrder
<1>1. MatcherInv /\ [Next]_vars => \A h \in Handles : NotAbout(h)
 <2> SUFFICES ASSUME MatcherInv, [Next]_vars, NEW h \in Handles,
                     told[h] = "queued", told'[h] = "nothing", link'[h] = "open",
                     room[h] = 0, room'[h] = 0
     PROVE  ~(entry'[h[1]].client = h[2] /\ entry'[h[1]].state \in {"queued", "inflight"})
   BY DEF NotAbout
 <2>1. TellsOver(h)
   BY OnlyTellsOver DEF MatcherInv
 <2>2. CASE CancelMatch(h)
   BY <2>2, CancelledIsNoMore DEF CancelMatch, MatcherInv, Reserved
 <2>3. CASE NotifyPending(h)
   BY <2>3, PendingIsOver
 <2> QED BY <2>1, <2>2, <2>3, NotifiedIsOver, DispatchedIsOver, ExpiredIsOver DEF TellsOver
<1>2. MatcherInv /\ [Next]_vars =>
        \A h \in Handles :
          told[h] = "queued" /\ told'[h] = "nothing" /\ link'[h] = "open" /\ room[h] = 0 /\ room'[h] = 0 =>
            ~(entry'[h[1]].client = h[2] /\ entry'[h[1]].state \in {"queued", "inflight"})
  BY <1>1 DEF NotAbout
<1> QED BY <1>2, MatcherFits, PTL DEF Spec, NoticesInOrder

\* A cancellation counts for the request it was made for: no match is played over
\* it, and what a client hears of it is not about a later request, because the
\* entry stays reserved until the notice is enqueued (releaseRolledBackEntries).
THEOREM CancellationsHold == Spec => CancellationHolds
BY NoticesAreInOrder, CancelledMatchesNeverPlay, PTL DEF CancellationHolds

-----------------------------------------------------------------------------
(* One seat for a player                                                   *)

\* Connections come one after the other, and one that is still to come has
\* neither a room nor a request.
LinksInOrder ==
  \A p \in Players : \E k \in 1..Links[p] :
    \A n \in 1..Links[p] : link[<< p, n >>] = "unborn" <=> n > k
BornInOrder ==
  /\ LinksInOrder
  /\ \A p \in Players : \A n \in 1..Links[p] :
       link[<< p, n >>] = "unborn" => room[<< p, n >>] = 0 /\ entry[p].client # n

\* A reconnect under way owns its player, and until it is seated has nothing else.
HandoversFit ==
  \A p \in Players : rejoin[p].step # "none" =>
    /\ conn[p] = rejoin[p].gen /\ link[<< p, rejoin[p].gen >>] # "unborn"
    /\ rejoin[p].step = "rebound" =>
         room[<< p, rejoin[p].gen >>] = 0 /\ entry[p].client # rejoin[p].gen

\* A seat is with the connection that is registered, or that was before the
\* player went, or is on its way to the one that takes over, or belongs to a
\* match that is not going to be committed without it.
SeatIsHeld(p, n) ==
  \/ conn[p] \in {0, n}
  \/ /\ rejoin[p].step = "rebound" /\ rejoin[p].room = room[<< p, n >>]
     /\ rejoin[p].previous \in {0, n}
  \/ entry[p].attempt = room[<< p, n >>] /\ att[entry[p].attempt].stage \in {"ready", "rollback"}
SeatsAreHeld(p) ==
  \A n \in 1..Links[p] : room[<< p, n >>] \in Attempts => SeatIsHeld(p, n)

\* Who is about to be bound to a room has no other seat.
CommitFits(p) ==
  entry[p].attempt # 0 /\ att[entry[p].attempt].stage = "commit" =>
    \A n \in 1..Links[p] : room[<< p, n >>] \in Attempts =>
      n = entry[p].client \/ room[<< p, entry[p].client >>] = Former

\* A player has at most one seat, and his session, a reconnect that has read it
\* and one that has taken the player over name its room.
OneSeat(p) ==
  \A m, n \in 1..Links[p] :
    room[<< p, m >>] \in Attempts /\ room[<< p, n >>] \in Attempts => m = n
SessionKnows(p) ==
  \A n \in 1..Links[p] : room[<< p, n >>] \in Attempts =>
    /\ session[p] = room[<< p, n >>]
    /\ restored[p] # Unread => restored[p] = room[<< p, n >>]
    /\ rejoin[p].step = "rebound" => rejoin[p].room = room[<< p, n >>]
SeatsFit(p) == SeatsAreHeld(p) /\ CommitFits(p) /\ OneSeat(p) /\ SessionKnows(p)

NoOtherRooms == \A h \in Handles : room[h] # Elsewhere
SeatsInv ==
  BornInOrder /\ HandoversFit /\ NoOtherRooms /\ \A p \in Players \ late : SeatsFit(p)

-----------------------------------------------------------------------------
(* Whose request it is                                                     *)

SameClient(p) == entry'[p].client \in {entry[p].client, 0}
ClientMoves(p) ==
  \/ SameClient(p)
  \/ \E n \in 1..Links[p] : entry'[p].client = n /\ CanAct(<< p, n >>)
  \/ /\ ReplaceClient(p) /\ rejoin[p].step = "seated" /\ entry'[p].client = rejoin[p].gen
     /\ rejoin'[p].step = "migrated"

LEMMA RolledBackClients ==
  ASSUME RequestsTyped, NEW A
  PROVE  \A p \in Players : RolledBack(A)[p].client = entry[p].client
BY DEF RequestsTyped, EntryRecord, RolledBack

LEMMA CancelledClients ==
  ASSUME RequestsTyped, NEW p \in Players, NEW by, NEW c, c = Cancelled(p, by)
  PROVE  \A d \in Players : c.entry[d].client \in {entry[d].client, 0}
BY RolledBackClients DEF Cancelled, RequestsTyped, NoEntry

LEMMA CancelEntryClients ==
  ASSUME RequestsTyped, NEW h \in Handles, NEW by, CancelEntry(h, by)
  PROVE  \A p \in Players : SameClient(p)
<1>1. h[1] \in Players
  BY Handle
<1>2. CASE Owns(h)
 <2>1. PICK c : c = Cancelled(h[1], by) /\ entry' = c.entry
   BY <1>2 DEF CancelEntry
 <2> QED BY <1>1, <2>1, CancelledClients DEF SameClient
<1>3. CASE ~Owns(h)
  BY <1>3 DEF CancelEntry, SameClient, requests
<1> QED BY <1>2, <1>3

LEMMA FreezeClients ==
  ASSUME NEW q, NEW e, NEW bots, NEW launched, Freeze(q, e, bots, launched)
  PROVE  \A p \in Players : entry'[p].client = e[p].client
BY DEF Freeze

LEMMA StepMovesClients ==
  ASSUME RequestsFit, HandlesTyped, [Next]_vars, NEW p \in Players
  PROVE  ClientMoves(p)
<1>1. RequestsTyped /\ entry \in [Players -> EntryRecord]
  BY DEF RequestsFit, RequestsTyped
<1>2. CASE UNCHANGED entry
  BY <1>2 DEF ClientMoves, SameClient
<1>3. CASE SameClient(p)
  BY <1>3 DEF ClientMoves
<1>4. ASSUME NEW h \in Handles, Command(h) \/ Handler(h) PROVE ClientMoves(p)
 <2>0. PICK g \in Players : g = h[1]
   BY Handle
 <2>1. PICK n \in 1..Links[g] : g = h[1] /\ n = h[2] /\ h = << g, n >>
   BY <2>0, Handle
 <2>2. CASE Enqueue(h)
  <3>1. PICK e : e = [entry EXCEPT ![g] = [client |-> n, state |-> "queued", attempt |-> 0]]
    OBVIOUS
  <3>2. CanAct(h)
    BY <2>2 DEF Enqueue, MayRequest
  <3>3. entry' = e \/ Freeze(Append(queue, g), e, 0, FALSE)
    BY <2>1, <2>2, <3>1 DEF Enqueue
  <3>4. entry'[p].client = e[p].client
    BY <3>3, FreezeClients
  <3>5. CASE p = g
    BY <1>1, <2>1, <3>1, <3>2, <3>4, <3>5 DEF ClientMoves
  <3>6. CASE p # g
    BY <1>1, <3>1, <3>4, <3>6 DEF ClientMoves, SameClient
  <3> QED BY <3>5, <3>6
 <2>3. CASE PracticeMatch(h)
  <3>1. PICK e : e = [entry EXCEPT ![g].client = n]
    OBVIOUS
  <3>2. CanAct(h)
    BY <2>3 DEF PracticeMatch, MayRequest
  <3>3. Freeze(<< g >>, e, 2, FALSE)
    BY <2>1, <2>3, <3>1 DEF PracticeMatch
  <3>4. entry'[p].client = e[p].client
    BY <3>3, FreezeClients
  <3>5. CASE p = g
   <4>1. e[p].client = n
     BY <1>1, <3>1, <3>5 DEF EntryRecord
   <4> QED BY <2>1, <3>2, <3>4, <3>5, <4>1 DEF ClientMoves
  <3>6. CASE p # g
    BY <1>1, <3>1, <3>4, <3>6 DEF ClientMoves, SameClient
  <3> QED BY <3>5, <3>6
 <2>4. CASE CancelMatch(h)
   BY <1>1, <1>3, <2>4, CancelEntryClients DEF CancelMatch
 <2>5. CASE SendQueued(h)
  <3>1. CASE Owns(h) /\ ~Reaches(h)
   <4>1. PICK c : c = Cancelled(h[1], Nobody) /\ entry' = c.entry
     BY <2>5, <3>1 DEF SendQueued
   <4> QED BY <1>1, <1>3, <2>1, <4>1, CancelledClients DEF SameClient
  <3>2. CASE ~(Owns(h) /\ ~Reaches(h))
   <4>1. UNCHANGED entry
     BY <2>5, <3>2 DEF SendQueued
   <4> QED BY <1>2, <4>1
  <3> QED BY <3>1, <3>2
 <2>6. CASE LeaveRoom(h) \/ EnterOtherRoom(h) \/ LeaveOtherRoom(h) \/ PublishQueued(h)
   BY <1>2, <2>6 DEF LeaveRoom, EnterOtherRoom, LeaveOtherRoom, PublishQueued, requests
 <2> QED BY <1>4, <2>2, <2>3, <2>4, <2>5, <2>6 DEF Command, Handler
<1>5. ASSUME NEW h \in Handles, LoseLink(h) \/ Departure(h) \/ NotifyPending(h)
      PROVE  ClientMoves(p)
 <2>1. CASE Disconnect(h)
   BY <1>1, <1>3, <2>1, CancelEntryClients DEF Disconnect
 <2>2. CASE ~Disconnect(h)
   BY <1>2, <1>5, <2>2 DEF Departure, LoseLink, Vanish, GoOffline, NotifyPending, requests
 <2> QED BY <2>1, <2>2
<1>6. ASSUME NEW c \in Players,
             RebindClient(c) \/ Reconnect(c) \/ Expire(c) \/ NotifyExpired(c)
      PROVE  ClientMoves(p)
 <2>1. CASE RestoreSession(c) \/ RebindClient(c) \/ Reseat(c)
   BY <1>2, <2>1 DEF RestoreSession, RebindClient, Reseat, requests
 <2>2. CASE ReplaceClient(c)
  <3>1. CASE /\ entry' = [entry EXCEPT ![c].client = rejoin[c].gen]
             /\ rejoin' = [rejoin EXCEPT ![c].step = "migrated"]
   <4>1. PICK n : n = rejoin[c].gen
     OBVIOUS
   <4>2. entry' = [entry EXCEPT ![c].client = n]
     BY <3>1, <4>1
   <4>3. rejoin[c].step = "seated" /\ rejoin'[c].step = "migrated"
     BY <2>2, <3>1 DEF ReplaceClient, HandlesTyped, RejoinRecord
   <4>4. CASE p = c
     BY <1>1, <2>2, <4>1, <4>2, <4>3, <4>4 DEF ClientMoves, EntryRecord
   <4>5. CASE p # c
     BY <1>1, <4>2, <4>5 DEF ClientMoves, SameClient
   <4> QED BY <4>4, <4>5
  <3>2. CASE entry' = RolledBack({entry[c].attempt})
    BY <1>1, <1>3, <3>2, RolledBackClients DEF SameClient
  <3> QED BY <1>2, <2>2, <3>1, <3>2 DEF ReplaceClient
 <2>3. CASE SendMigrated(c)
  <3>1. rejoin[c].gen \in 1..Links[c]
    BY <2>3 DEF SendMigrated, HandlesTyped
  <3>2. PICK h \in Handles : h = << c, rejoin[c].gen >>
    BY <3>1, HandleIs
  <3>3. UNCHANGED requests \/ CancelEntry(h, Nobody)
    BY <2>3, <3>2 DEF SendMigrated
  <3> QED BY <1>1, <1>2, <1>3, <3>3, CancelEntryClients DEF requests
 <2>4. CASE Expire(c)
  <3>1. CASE entry' = [entry EXCEPT ![c].state = "rolledback"]
    BY <1>1, <1>3, <3>1 DEF SameClient, EntryRecord
  <3>2. CASE entry[c].state = "inflight" /\ CancelEntry(<< c, entry[c].client >>, Nobody)
   <4>1. entry[c].client \in 1..Links[c]
     BY <3>2, LinksNat DEF RequestsFit, EntriesFit, EntryFits, RequestsTyped
   <4>2. PICK h \in Handles : h = << c, entry[c].client >>
     BY <4>1, HandleIs
   <4> QED BY <1>1, <1>3, <3>2, <4>2, CancelEntryClients
  <3> QED BY <2>4, <3>1, <3>2 DEF Expire
 <2>5. CASE NotifyExpired(c)
   BY <1>1, <1>3, <2>5 DEF NotifyExpired, SameClient, NoEntry
 <2> QED BY <1>6, <2>1, <2>2, <2>3, <2>4, <2>5 DEF Reconnect
<1>7. ASSUME NEW a \in Attempts, \/ Worker(a) \/ Removal(a) \/ ExpireBots(a)
                                 \/ EndGame(a) \/ TimeOutRoom(a)
      PROVE  ClientMoves(p)
 <2>1. \/ UNCHANGED entry \/ entry' = RolledBack({a})
       \/ entry' = [d \in Players |-> IF entry[d].attempt = a THEN NoEntry ELSE entry[d]]
   BY <1>7 DEF Worker, TakeLease, Assemble, Commit, ReadyAllAndStart, CommitAttempt, PublishJoined,
      RegisterSession, StartSession, ReleaseWithdrawn, RollbackRoom, NotifyRolledBack, Release,
      Removal, DispatchRemoval, CloseRoom, ExpireBots, EndGame, TimeOutRoom, requests, Fail
 <2>2. CASE entry' = RolledBack({a})
   BY <1>1, <1>3, <2>2, RolledBackClients DEF SameClient
 <2>3. CASE entry' = [d \in Players |-> IF entry[d].attempt = a THEN NoEntry ELSE entry[d]]
   BY <1>3, <2>3 DEF SameClient, NoEntry
 <2> QED BY <1>2, <2>1, <2>2, <2>3
<1>8. CASE ClaimBotFill \/ CommitBotFill \/ Drain \/ Resume \/ Close
 <2>1. CASE CommitBotFill
  <3>1. PICK e : e = entry
    OBVIOUS
  <3>2. PICK bots : Freeze(queue, e, bots, TRUE)
    BY <2>1, <3>1 DEF CommitBotFill
  <3> QED BY <1>3, <3>1, <3>2, FreezeClients DEF SameClient
 <2>2. CASE Drain \/ Close
  <3>1. entry' = [d \in Players |-> IF entry[d].state = "queued" THEN NoEntry
                                    ELSE RolledBack(Attempts)[d]]
    BY <2>2 DEF Drain, Close, CancelAll
  <3> QED BY <1>1, <1>3, <3>1, RolledBackClients DEF SameClient, NoEntry
 <2>3. CASE ClaimBotFill \/ Resume
   BY <1>2, <2>3 DEF ClaimBotFill, Resume, requests
 <2> QED BY <1>8, <2>1, <2>2, <2>3
<1>9. CASE UNCHANGED vars
  BY <1>2, <1>9 DEF vars, requests
<1> QED BY <1>4, <1>5, <1>6, <1>7, <1>8, <1>9 DEF Next

-----------------------------------------------------------------------------
(* How seats, connections and reconnects move                              *)

RoomsShrink == \A h \in Handles : room'[h] = room[h] \/ (room[h] \in Attempts /\ room'[h] = 0)
LinksGoOn == \A h \in Handles : link'[h] = "unborn" <=> link[h] = "unborn"
RejoinsGoOn ==
  \A p \in Players :
    \/ rejoin'[p] = rejoin[p]
    \/ /\ rejoin[p].step \in {"seated", "migrated"}
       /\ \/ rejoin'[p].step = "none"
          \/ rejoin'[p].step = "migrated" /\ rejoin'[p].gen = rejoin[p].gen
\* A session forgets its room with the seat, and is read as it stands.
LosesSeatIn(p) == \E n \in 1..Links[p] : room[<< p, n >>] \in Attempts /\ room'[<< p, n >>] = 0
SessionsGoOn ==
  /\ UNCHANGED late
  /\ \A p \in Players : /\ restored'[p] \in {restored[p], session[p]}
                        /\ session'[p] = session[p] \/ LosesSeatIn(p)
\* A step that takes no seat and no connection.
SeatsShrink == RoomsShrink /\ LinksGoOn /\ RejoinsGoOn /\ SessionsGoOn /\ UNCHANGED conn

\* MatchRoomTransaction.Commit of the attempt a.
Binds(a) ==
  /\ att[a].stage = "commit" /\ Unbound(a)
  /\ room' = [h \in Handles |-> IF h \in Humans(a) THEN a ELSE room[h]]
  /\ session' = [p \in Players |-> IF \E h \in Humans(a) : h[1] = p THEN a ELSE session[p]]
  /\ late' = { p \in late : HasSeat(p) } \cup
             { p \in Returning : \E h \in Humans(a) : h[1] = p }
  /\ att' = [att EXCEPT ![a].stage = "ready", ![a].room = "waiting"]
  /\ UNCHANGED << entry, conn, link, restored, rejoin >>

LEMMA DropShrinks ==
  ASSUME HandlesTyped, NEW a \in Attempts, NEW x, NEW byWorker, Drop(a, x, byWorker),
         UNCHANGED << restored, late >>
  PROVE  RoomsShrink /\ SessionsGoOn
<1>1. RoomsShrink
  BY DEF Drop, RoomsShrink
<1>2. ASSUME NEW p \in Players PROVE session'[p] = session[p] \/ LosesSeatIn(p)
 <2>1. CASE \E h \in Members(a) : h[1] = p
  <3>1. PICK h \in Handles : h[1] = p /\ room[h] = a
    BY <2>1 DEF Members
  <3>2. PICK n \in 1..Links[p] : h = << p, n >>
    BY <3>1, Handle
  <3>3. room'[h] = 0
    BY <3>1 DEF Drop
  <3> QED BY <3>1, <3>2, <3>3 DEF LosesSeatIn
 <2>2. CASE ~\E h \in Members(a) : h[1] = p
   BY <2>2 DEF Drop
 <2> QED BY <2>1, <2>2
<1> QED BY <1>1, <1>2 DEF SessionsGoOn

LEMMA SameSessions ==
  ASSUME UNCHANGED << session, restored, late >>
  PROVE  SessionsGoOn
BY DEF SessionsGoOn

LEMMA ClosePreviousGoesOn ==
  ASSUME HandlesTyped, NEW p \in Players, rejoin[p].step \in {"seated", "migrated"},
         ClosePrevious(p)
  PROVE  LinksGoOn /\ RejoinsGoOn
<1>1. LinksGoOn
  BY DEF ClosePrevious, LinksGoOn, HandlesTyped
<1>2. RejoinsGoOn
  BY DEF ClosePrevious, RejoinsGoOn, HandlesTyped, NoRejoin
<1> QED BY <1>1, <1>2

LEMMA WorkerMovesSeats ==
  ASSUME HandlesTyped, NEW a \in Attempts, Worker(a)
  PROVE  Binds(a) \/ SeatsShrink
<1>1. CASE Commit(a)
 <2>1. CASE UNCHANGED << room, session, late >>
  <3>1. SessionsGoOn
    BY <1>1, <2>1, SameSessions DEF Commit
  <3> QED BY <1>1, <2>1, <3>1 DEF Commit, SeatsShrink, RoomsShrink, LinksGoOn, RejoinsGoOn
 <2>2. CASE ~UNCHANGED << room, session, late >>
   BY <1>1, <2>2 DEF Commit, Binds
 <2> QED BY <2>1, <2>2
<1>2. CASE PublishJoined(a) \/ RegisterSession(a) \/ RollbackRoom(a)
 <2>1. UNCHANGED << room, session >> \/ (\E x : Drop(a, x, TRUE))
   BY <1>2 DEF PublishJoined, RegisterSession, RollbackRoom, Withdraw
 <2>2. UNCHANGED << restored, late >>
   BY <1>2 DEF PublishJoined, RegisterSession, RollbackRoom
 <2>3. RoomsShrink /\ SessionsGoOn
   BY <2>1, <2>2, DropShrinks, SameSessions DEF RoomsShrink
 <2> QED BY <1>2, <2>3 DEF PublishJoined, RegisterSession, RollbackRoom, SeatsShrink, LinksGoOn,
            RejoinsGoOn
<1>3. CASE ~Commit(a) /\ ~PublishJoined(a) /\ ~RegisterSession(a) /\ ~RollbackRoom(a)
 <2>1. UNCHANGED << room, conn, link, rejoin, sessions >>
   BY <1>3 DEF Worker, TakeLease, Assemble, ReadyAllAndStart, CommitAttempt,
      StartSession, ReleaseWithdrawn, NotifyRolledBack, Release, connections
 <2>2. SessionsGoOn
   BY <2>1, SameSessions DEF sessions
 <2> QED BY <2>1, <2>2 DEF SeatsShrink, RoomsShrink, LinksGoOn, RejoinsGoOn
<1> QED BY <1>1, <1>2, <1>3

LEMMA HandleMovesSeats ==
  ASSUME HandlesTyped, SessionsTyped, NoOtherRooms, OtherRooms = FALSE, NEW h \in Handles,
         Command(h) \/ Handler(h) \/ LoseLink(h) \/ Departure(h) \/ NotifyPending(h)
  PROVE  Disconnect(h) \/ SeatsShrink
<1>1. CASE LeaveRoom(h)
 <2>1. PICK a \in Attempts :
         /\ room[h] = a
         /\ \/ Drop(a, att[a], FALSE)
            \/ room' = [room EXCEPT ![h] = 0] /\ session' = [session EXCEPT ![h[1]] = 0]
   BY <1>1 DEF LeaveRoom
 <2>2. UNCHANGED << restored, late >>
   BY <1>1 DEF LeaveRoom
 <2>3. RoomsShrink /\ SessionsGoOn
  <3>1. CASE Drop(a, att[a], FALSE)
    BY <2>2, <3>1, DropShrinks
  <3>2. CASE room' = [room EXCEPT ![h] = 0] /\ session' = [session EXCEPT ![h[1]] = 0]
   <4>1. RoomsShrink
     BY <2>1, <3>2 DEF HandlesTyped, RoomsShrink
   <4>2. PICK p \in Players : h[1] = p
     BY Handle
   <4>3. PICK n \in 1..Links[p] : h = << p, n >>
     BY <4>2, Handle
   <4>4. room[<< p, n >>] \in Attempts /\ room'[<< p, n >>] = 0
     BY <2>1, <3>2, <4>3 DEF HandlesTyped
   <4>5. LosesSeatIn(p)
     BY <4>4 DEF LosesSeatIn
   <4>6. \A q \in Players : q # p => session'[q] = session[q]
     BY <3>2, <4>2 DEF SessionsTyped
   <4> QED BY <2>2, <4>1, <4>5, <4>6 DEF SessionsGoOn
  <3> QED BY <2>1, <3>1, <3>2
 <2> QED BY <1>1, <2>3 DEF LeaveRoom, SeatsShrink, LinksGoOn, RejoinsGoOn
<1>2. CASE GoOffline(h)
 <2>1. \/ UNCHANGED << room, session >>
       \/ room[h] \in Attempts /\ Drop(room[h], att[room[h]], FALSE)
   BY <1>2 DEF GoOffline
 <2>2. UNCHANGED << restored, late >>
   BY <1>2 DEF GoOffline
 <2>3. RoomsShrink /\ SessionsGoOn
   BY <2>1, <2>2, DropShrinks, SameSessions DEF RoomsShrink
 <2>4. LinksGoOn
   BY <1>2 DEF GoOffline, LinksGoOn, HandlesTyped
 <2> QED BY <1>2, <2>3, <2>4 DEF GoOffline, SeatsShrink, RejoinsGoOn
<1>3. ~EnterOtherRoom(h) /\ ~LeaveOtherRoom(h)
  BY DEF EnterOtherRoom, LeaveOtherRoom, NoOtherRooms
<1>4. CASE LoseLink(h) \/ Vanish(h)
 <2>1. LinksGoOn
   BY <1>4 DEF LoseLink, Vanish, LinksGoOn, HandlesTyped
 <2>2. SessionsGoOn
   BY <1>4, SameSessions DEF LoseLink, Vanish, sessions
 <2> QED BY <1>4, <2>1, <2>2 DEF LoseLink, Vanish, SeatsShrink, RoomsShrink, RejoinsGoOn
<1>5. CASE \/ Enqueue(h) \/ PracticeMatch(h) \/ CancelMatch(h) \/ PublishQueued(h)
           \/ SendQueued(h) \/ NotifyPending(h)
 <2>1. UNCHANGED << room, conn, link, rejoin, sessions >>
   BY <1>5 DEF Enqueue, PracticeMatch, CancelMatch, PublishQueued, SendQueued, NotifyPending
 <2>2. SessionsGoOn
   BY <2>1, SameSessions DEF sessions
 <2> QED BY <2>1, <2>2 DEF SeatsShrink, RoomsShrink, LinksGoOn, RejoinsGoOn
<1> QED BY <1>1, <1>2, <1>3, <1>4, <1>5 DEF Command, Handler, Departure

LEMMA PlayerMovesSeats ==
  ASSUME HandlesTyped, SessionsTyped, NEW p \in Players,
         RebindClient(p) \/ Reconnect(p) \/ Expire(p) \/ NotifyExpired(p)
  PROVE  RebindClient(p) \/ Reseat(p) \/ SeatsShrink
<1>1. CASE ReplaceClient(p)
 <2>0. SessionsGoOn
   BY <1>1, SameSessions DEF ReplaceClient, sessions
 <2>1. CASE ClosePrevious(p)
  <3>1. LinksGoOn /\ RejoinsGoOn
    BY <1>1, <2>1, ClosePreviousGoesOn DEF ReplaceClient
  <3> QED BY <1>1, <2>0, <3>1 DEF ReplaceClient, SeatsShrink, RoomsShrink
 <2>2. CASE rejoin' = [rejoin EXCEPT ![p].step = "migrated"] /\ UNCHANGED link
  <3>1. RejoinsGoOn
    BY <1>1, <2>2 DEF ReplaceClient, RejoinsGoOn, HandlesTyped, RejoinRecord
  <3> QED BY <1>1, <2>0, <2>2, <3>1 DEF ReplaceClient, SeatsShrink, RoomsShrink, LinksGoOn
 <2> QED BY <1>1, <2>1, <2>2 DEF ReplaceClient
<1>2. CASE SendMigrated(p)
 <2>1. LinksGoOn /\ RejoinsGoOn
   BY <1>2, ClosePreviousGoesOn DEF SendMigrated
 <2>2. SessionsGoOn
   BY <1>2, SameSessions DEF SendMigrated, sessions
 <2> QED BY <1>2, <2>1, <2>2 DEF SendMigrated, SeatsShrink, RoomsShrink
<1>3. CASE Expire(p) \/ NotifyExpired(p)
 <2>1. UNCHANGED << room, conn, link, rejoin, sessions >>
   BY <1>3 DEF Expire, NotifyExpired, connections
 <2>2. SessionsGoOn
   BY <2>1, SameSessions DEF sessions
 <2> QED BY <2>1, <2>2 DEF SeatsShrink, RoomsShrink, LinksGoOn, RejoinsGoOn
<1>4. CASE RestoreSession(p)
 <2>1. SessionsGoOn
   BY <1>4 DEF RestoreSession, SessionsGoOn, SessionsTyped
 <2> QED BY <1>4, <2>1 DEF RestoreSession, SeatsShrink, RoomsShrink, LinksGoOn, RejoinsGoOn
<1> QED BY <1>1, <1>2, <1>3, <1>4 DEF Reconnect

LEMMA StepKinds ==
  ASSUME HandlesTyped, SessionsTyped, NoOtherRooms, OtherRooms = FALSE, [Next]_vars
  PROVE  \/ SeatsShrink \/ (\E p \in Players : RebindClient(p) \/ Reseat(p))
         \/ (\E h \in Handles : Disconnect(h)) \/ (\E a \in Attempts : Binds(a))
<1>1. ASSUME NEW a \in Attempts, Removal(a) \/ ExpireBots(a) \/ EndGame(a) \/ TimeOutRoom(a)
      PROVE  SeatsShrink
 <2>1. UNCHANGED << room, session >> \/ (\E x : Drop(a, x, FALSE))
   BY <1>1 DEF Removal, DispatchRemoval, CloseRoom, ExpireBots, EndGame, TimeOutRoom, connections,
      sessions
 <2>2. UNCHANGED << restored, late, conn, link, rejoin >>
   BY <1>1 DEF Removal, DispatchRemoval, CloseRoom, ExpireBots, EndGame, TimeOutRoom, connections,
      sessions
 <2>3. RoomsShrink /\ SessionsGoOn
   BY <2>1, <2>2, DropShrinks, SameSessions DEF RoomsShrink
 <2> QED BY <2>2, <2>3 DEF SeatsShrink, LinksGoOn, RejoinsGoOn
<1>2. CASE UNCHANGED vars \/ ClaimBotFill \/ CommitBotFill \/ Drain \/ Resume \/ Close
 <2>1. UNCHANGED << room, conn, link, rejoin, sessions >>
   BY <1>2 DEF vars, ClaimBotFill, CommitBotFill, Drain, Resume, Close, connections
 <2>2. SessionsGoOn
   BY <2>1, SameSessions DEF sessions
 <2> QED BY <2>1, <2>2 DEF SeatsShrink, RoomsShrink, LinksGoOn, RejoinsGoOn
<1> QED BY <1>1, <1>2, WorkerMovesSeats, HandleMovesSeats, PlayerMovesSeats DEF Next

-----------------------------------------------------------------------------
(* What a step leaves of a seat                                            *)

LEMMA ReadyGoesOn ==
  ASSUME NEW x, NEW y, AttInv(x), Evolves(x, y), x.stage \in {"ready", "rollback"}
  PROVE  /\ y.humans = x.humans
         /\ \/ y.stage \in {"ready", "rollback"}
            \/ x.stage = "ready" /\ y.stage = "settle" /\ Validated(x)
            \/ y.stage = "notify" /\ y.room \notin LiveStates
BY DEF Evolves, Marked, Begins, TakesLease, Proceeds, Fails, Published, Withdrawn, RollsBack,
       Notifies, Plays, EndsWithout, Releases, LosesRoom, Unpublished, IsRemoved, Reopens,
       SameGoods, Dropped, Ends, AttInv, ListedStages, LiveStates

LEMMA CommitComesFrom ==
  ASSUME NEW x, NEW y, AttInv(x), Evolves(x, y), y.stage = "commit"
  PROVE  /\ y.humans = x.humans /\ x.stage \in {"assemble", "commit"}
         /\ x.stage = "assemble" => Validated(x)
BY DEF Evolves, Marked, Begins, TakesLease, Proceeds, Fails, Published, Withdrawn, RollsBack,
       Notifies, Plays, EndsWithout, Releases, LosesRoom, Unpublished, IsRemoved, Reopens,
       SameGoods, Dropped, Ends, AttInv, ListedStages, LiveStates

\* An entry that an attempt serves is named by it.
LEMMA EntryIsHuman ==
  ASSUME MatcherInv, NEW p \in Players, NEW a \in Attempts, entry[p].attempt = a
  PROVE  /\ << p, entry[p].client >> \in Humans(a) /\ att[a].stage \in ListedStages
         /\ entry[p].client \in 1..Links[p]
<1>1. Serves(p, a)
  BY DEF MatcherInv, Reserved, AttemptsServe
<1>2. entry[p].client \in 0..Links[p] /\ EntryFits(entry[p])
  BY DEF MatcherInv, Reserved, RequestsFit, RequestsTyped, EntriesFit
<1>3. entry[p].client # 0
  BY <1>2, AttemptsNat DEF EntryFits, NoEntry
<1> QED BY <1>1, <1>2, <1>3, LinksNat DEF Serves

LEMMA HumanIsEntry ==
  ASSUME MatcherInv, NEW p \in Players, NEW n \in 1..Links[p], NEW a \in Attempts,
         att[a].stage \in ListedStages, << p, n >> \in Humans(a)
  PROVE  entry[p].attempt = a /\ entry[p].client = n
<1>1. Serves(p, a) /\ n \in Nat
  BY LinksNat DEF MatcherInv, Reserved, AttemptsServe
<1> QED BY <1>1 DEF Serves

LEMMA HumanIsLink ==
  ASSUME MatcherInv, NEW a \in Attempts, att[a].stage \in ListedStages, NEW h \in Humans(a)
  PROVE  h \in Handles
BY DEF MatcherInv, Reserved, AttemptsTyped, AttemptType, AttemptRecord, Humans

LEMMA SameAttempt ==
  ASSUME MatcherInv, NEW p \in Players, NEW a \in Attempts, NEW b \in Attempts,
         entry[p].attempt = a, att[a] = att[b]
  PROVE  a = b
<1>1. << p, entry[p].client >> \in Humans(b) /\ att[b].stage \in ListedStages
      /\ entry[p].client \in 1..Links[p]
  BY EntryIsHuman DEF Humans
<1> QED BY <1>1, HumanIsEntry

\* A seat in a match that is being made stays so, or its connection is looked at.
LEMMA HeldOn ==
  ASSUME MatcherInv, Served, NEW p \in Players, NEW n \in 1..Links[p], NEW a \in Attempts,
         room[<< p, n >>] = a, room'[<< p, n >>] = a,
         entry[p].attempt = a, att[a].stage \in {"ready", "rollback"}
  PROVE  \/ entry'[p].attempt = a /\ att'[a].stage \in {"ready", "rollback"}
         \/ conn'[p] = n
<1>1. AttInv(att[a]) /\ GoesOn(a, att'[a])
  BY DEF MatcherInv, EveryAttemptFits, Served, EveryAttemptEvolves
<1>2. /\ att'[a].humans = att[a].humans
      /\ \/ att'[a].stage \in {"ready", "rollback"}
         \/ att[a].stage = "ready" /\ att'[a].stage = "settle" /\ Validated(att[a])
         \/ att'[a].stage = "notify" /\ att'[a].room \notin LiveStates
  BY <1>1, ReadyGoesOn DEF GoesOn
<1>3. /\ << p, entry[p].client >> \in Humans(a) /\ entry[p].client \in Nat
      /\ << p, n >> \in Handles
  BY EntryIsHuman, HandleIs, LinksNat
<1>4. CASE att'[a].stage \in {"ready", "rollback"}
 <2>1. PICK c \in Nat : c = entry[p].client
   BY <1>3
 <2>2. << p, c >> \in { att'[a].humans[i] : i \in DOMAIN att'[a].humans }
   BY <1>2, <1>3, <2>1 DEF Humans
 <2>3. Serves(p, a)'
   BY DEF Served, AttemptsServe
 <2>4. entry'[p].attempt = a
   BY <1>4, <2>2, <2>3 DEF Serves, Humans, ListedStages
 <2> QED BY <1>4, <2>4
<1>5. CASE att[a].stage = "ready" /\ Validated(att[a])
 <2>1. PICK b \in Attempts :
         /\ att[a] = att[b] /\ Valid(b) /\ Members(b) = Humans(b) /\ UNCHANGED connections
   BY <1>5 DEF Validated
 <2>2. a = b
   BY <2>1, SameAttempt
 <2>3. << p, n >> \in Humans(a)
   BY <1>3, <2>1, <2>2 DEF Members
 <2>4. conn[p] = n
   BY <2>1, <2>2, <2>3 DEF Valid
 <2> QED BY <2>1, <2>4 DEF connections
<1>6. CASE att'[a].stage = "notify" /\ att'[a].room \notin LiveStates
 <2>1. Live(a)
   BY <1>3 DEF MatcherInv, SeatsLive
 <2>2. att'[a].room = "dropped"
   BY <1>1, <1>6, <2>1, LiveUntilDropped DEF GoesOn, Live, LiveStates
 <2>3. Empties(a)
   BY <1>1, <2>1, <2>2 DEF GoesOn, Live
 <2> QED BY <1>3, <2>3 DEF Empties
<1> QED BY <1>2, <1>4, <1>5, <1>6

\* Which attempts are at their commit after a step, and whose request it is.
LEMMA CommitStays ==
  ASSUME MatcherInv, Served, NEW p \in Players, NEW a \in Attempts,
         entry'[p].attempt = a, att'[a].stage = "commit"
  PROVE  /\ entry[p].attempt = a /\ entry'[p].client = entry[p].client
         /\ entry[p].client \in 1..Links[p]
         /\ att[a].stage = "commit" \/ (att[a].stage = "assemble" /\ Validated(att[a]))
<1>1. AttInv(att[a]) /\ GoesOn(a, att'[a])
  BY DEF MatcherInv, EveryAttemptFits, Served, EveryAttemptEvolves
<1>2. /\ att'[a].humans = att[a].humans /\ att[a].stage \in {"assemble", "commit"}
      /\ att[a].stage = "assemble" => Validated(att[a])
  BY <1>1, CommitComesFrom DEF GoesOn
<1>3. PICK c : c = entry'[p].client
  OBVIOUS
<1>4. Serves(p, a)' /\ RequestsFit'
  BY DEF Served, AttemptsServe
<1>5. << p, c >> \in Humans(a)
  BY <1>2, <1>3, <1>4 DEF Serves, Humans
<1>6. c \in Nat
  BY <1>3, <1>4 DEF RequestsFit, RequestsTyped, EntryRecord
<1>7. Serves(p, a)
  BY DEF MatcherInv, Reserved, AttemptsServe
<1>8. entry[p].attempt = a /\ entry[p].client = c
  BY <1>2, <1>5, <1>6, <1>7 DEF Serves, ListedStages
<1> QED BY <1>2, <1>3, <1>8, EntryIsHuman

-----------------------------------------------------------------------------
(* Each part of the invariant, step by step                                *)

\* A handle of a player, by its number.
LEMMA HandleOf == \A p \in Players : \A n \in 1..Links[p] : << p, n >> \in Handles
BY HandleIs

\* The connection that RebindClient makes is the first that is still to come.
LEMMA RebindIsNext ==
  ASSUME HandlesTyped, LinksInOrder, NEW p \in Players, RebindClient(p)
  PROVE  \E g \in 1..Links[p] :
           /\ \A n \in 1..Links[p] : link[<< p, n >>] = "unborn" <=> n >= g
           /\ conn' = [conn EXCEPT ![p] = g] /\ link' = [link EXCEPT ![<< p, g >>] = "open"]
           /\ rejoin'[p].step = "rebound" /\ rejoin'[p].gen = g
           /\ rejoin'[p].previous = conn[p] /\ rejoin'[p].room = restored[p]
<1>1. PICK k \in 1..Links[p] : \A n \in 1..Links[p] : link[<< p, n >>] = "unborn" <=> n > k
  BY DEF LinksInOrder
<1>2. Links[p] \in Nat /\ k \in Nat /\ k >= 1
  BY LinksNat
<1>0. PICK born : born = { n \in 1..Links[p] : link[<< p, n >>] # "unborn" }
  OBVIOUS
<1>3. born = 1..k
  BY <1>0, <1>1, <1>2
<1>4. Cardinality(born) = k
  BY <1>2, <1>3, FS_Interval
<1>5. PICK g : g = NextLink(p)
  OBVIOUS
<1>6. g = k + 1
 <2>1. g = 1 + Cardinality(born)
   BY <1>0, <1>5 DEF NextLink
 <2> QED BY <1>2, <1>4, <2>1
<1>7. rejoin' = [rejoin EXCEPT ![p] =
         [step |-> "rebound", gen |-> g, previous |-> conn[p], room |-> restored[p]]]
  BY <1>5 DEF RebindClient
<1>8. rejoin'[p] = [step |-> "rebound", gen |-> g, previous |-> conn[p], room |-> restored[p]]
  BY <1>7 DEF HandlesTyped
<1>9. /\ g \in 1..Links[p] /\ conn' = [conn EXCEPT ![p] = g]
      /\ link' = [link EXCEPT ![<< p, g >>] = "open"]
  BY <1>5 DEF RebindClient
<1>10. \A n \in 1..Links[p] : link[<< p, n >>] = "unborn" <=> n >= g
  BY <1>1, <1>2, <1>6
<1>11. /\ rejoin'[p].step = "rebound" /\ rejoin'[p].gen = g /\ rejoin'[p].previous = conn[p]
       /\ rejoin'[p].room = restored[p]
  BY <1>8
<1> QED BY <1>9, <1>10, <1>11, Zenon

\* Reseat, by what it does.
SeatsWith(p, h, a, old) ==
  /\ h = << p, rejoin[p].gen >> /\ a = rejoin[p].room
  /\ old = { g \in Handles : g[1] = p /\ a # 0 /\ room[g] = a }
  /\ rejoin[p].step = "rebound" /\ UNCHANGED << entry, restored, late >>
  /\ \/ /\ rejoin' = [rejoin EXCEPT ![p].step = "seated"]
        /\ session' = [session EXCEPT ![p] = IF old # {} THEN a ELSE 0]
        /\ room' = [g \in Handles |-> IF g = h /\ old # {} THEN a
                                      ELSE IF g \in old THEN Former ELSE room[g]]
        /\ UNCHANGED << conn, link >>
     \/ /\ rejoin' = [rejoin EXCEPT ![p] = NoRejoin]
        /\ conn' = [conn EXCEPT ![p] = rejoin[p].previous]
        /\ link' = [link EXCEPT ![h] = "gone"] /\ UNCHANGED room
        /\ session' = [session EXCEPT ![p] = a]

LEMMA ReseatSeats ==
  ASSUME NEW p \in Players, Reseat(p)
  PROVE  \E h, a, old : SeatsWith(p, h, a, old)
<1>1. PICK h : h = << p, rejoin[p].gen >>
  OBVIOUS
<1>2. PICK a : a = rejoin[p].room
  OBVIOUS
<1>3. PICK old : old = { g \in Handles : g[1] = p /\ a # 0 /\ room[g] = a }
  OBVIOUS
<1>4. SeatsWith(p, h, a, old)
  BY <1>1, <1>2, <1>3 DEF Reseat, SeatsWith, requests
<1> QED BY <1>4

\* What makes a connection: only RebindClient.
LEMMA LinksMove ==
  ASSUME HandlesTyped, HandoversFit,
         \/ SeatsShrink \/ (\E p \in Players : Reseat(p))
         \/ (\E h \in Handles : Disconnect(h)) \/ (\E a \in Attempts : Binds(a))
  PROVE  LinksGoOn
<1>1. CASE SeatsShrink
  BY <1>1 DEF SeatsShrink
<1>2. ASSUME NEW p \in Players, Reseat(p) PROVE LinksGoOn
 <2>1. PICK h, a, old : SeatsWith(p, h, a, old)
   BY <1>2, ReseatSeats
 <2>2. link[h] # "unborn"
   BY <2>1 DEF SeatsWith, HandoversFit
 <2>3. UNCHANGED link \/ link' = [link EXCEPT ![h] = "gone"]
   BY <2>1 DEF SeatsWith
 <2> QED BY <2>2, <2>3 DEF LinksGoOn, HandlesTyped
<1>3. ASSUME NEW h \in Handles, Disconnect(h) PROVE LinksGoOn
  BY <1>3 DEF Disconnect, LinksGoOn, HandlesTyped
<1>4. ASSUME NEW a \in Attempts, Binds(a) PROVE LinksGoOn
  BY <1>4 DEF Binds, LinksGoOn
<1> QED BY <1>1, <1>2, <1>3, <1>4

Kinds ==
  \/ SeatsShrink \/ (\E p \in Players : RebindClient(p) \/ Reseat(p))
  \/ (\E h \in Handles : Disconnect(h)) \/ (\E a \in Attempts : Binds(a))

LEMMA BornStays ==
  ASSUME MatcherInv, SeatsInv, Kinds, \A p \in Players : ClientMoves(p)
  PROVE  BornInOrder'
<1>0. HandlesTyped /\ BornInOrder /\ LinksInOrder /\ HandoversFit
  BY DEF MatcherInv, SeatsInv, BornInOrder
<1>1. \A h \in Handles : link'[h] = "unborn" => link[h] = "unborn"
 <2>1. CASE \E p \in Players : RebindClient(p)
  <3>1. PICK p \in Players : RebindClient(p)
    BY <2>1
  <3>2. PICK g \in 1..Links[p] : link' = [link EXCEPT ![<< p, g >>] = "open"]
    BY <1>0, <3>1, RebindIsNext
  <3> QED BY <3>2 DEF MatcherInv, HandlesTyped
 <2>2. CASE ~\E p \in Players : RebindClient(p)
   BY <1>0, <2>2, LinksMove DEF Kinds, LinksGoOn
 <2> QED BY <2>1, <2>2
<1>2. ASSUME NEW p \in Players
      PROVE  \E k \in 1..Links[p] : \A n \in 1..Links[p] : link'[<< p, n >>] = "unborn" <=> n > k
 <2>1. PICK k \in 1..Links[p] : \A n \in 1..Links[p] : link[<< p, n >>] = "unborn" <=> n > k
   BY <1>0 DEF BornInOrder, LinksInOrder
 <2>2. ASSUME NEW q \in Players, RebindClient(q)
       PROVE  \E m \in 1..Links[p] : \A n \in 1..Links[p] : link'[<< p, n >>] = "unborn" <=> n > m
  <3>1. PICK g \in 1..Links[q] :
          /\ \A n \in 1..Links[q] : link[<< q, n >>] = "unborn" <=> n >= g
          /\ link' = [link EXCEPT ![<< q, g >>] = "open"]
    BY <1>0, <2>2, RebindIsNext
  <3>2. CASE q = p
   <4>1. \A n \in 1..Links[p] : link'[<< p, n >>] = IF n = g THEN "open" ELSE link[<< p, n >>]
     BY <1>0, <3>1, <3>2, HandleOf DEF HandlesTyped
   <4>2. \A n \in 1..Links[p] : link'[<< p, n >>] = "unborn" <=> n > g
     BY <3>1, <3>2, <4>1, LinksNat
   <4> QED BY <3>1, <3>2, <4>2
  <3>3. CASE q # p
   <4>1. \A n \in 1..Links[p] : link'[<< p, n >>] = link[<< p, n >>]
     BY <1>0, <3>1, <3>3, HandleOf DEF HandlesTyped
   <4> QED BY <2>1, <4>1
  <3> QED BY <3>2, <3>3
 <2>3. CASE LinksGoOn
  <3>1. \A n \in 1..Links[p] : link'[<< p, n >>] = "unborn" <=> link[<< p, n >>] = "unborn"
    BY <2>3, HandleOf DEF LinksGoOn
  <3> QED BY <2>1, <3>1
 <2> QED BY <1>0, <2>2, <2>3, LinksMove DEF Kinds
<1>3. ASSUME NEW p \in Players, NEW n \in 1..Links[p], link'[<< p, n >>] = "unborn"
      PROVE  room'[<< p, n >>] = 0 /\ entry'[p].client # n
 <2>1. << p, n >> \in Handles /\ n # 0 /\ n \in Nat
   BY HandleOf, LinksNat
 <2>2. link[<< p, n >>] = "unborn" /\ room[<< p, n >>] = 0 /\ entry[p].client # n
   BY <1>0, <1>1, <1>3, <2>1 DEF BornInOrder, LinksInOrder
 <2>3. entry'[p].client # n
  <3>1. ~CanAct(<< p, n >>)
    BY <2>2 DEF CanAct
  <3>2. rejoin[p].step = "seated" => rejoin[p].gen # n
    BY <1>0, <2>2 DEF HandoversFit
  <3> QED BY <2>1, <2>2, <3>1, <3>2 DEF ClientMoves, SameClient
 <2>4. room'[<< p, n >>] = 0
  <3>1. CASE SeatsShrink
    BY <2>1, <2>2, <3>1 DEF SeatsShrink, RoomsShrink
  <3>2. CASE UNCHANGED room
    BY <2>2, <3>2
  <3>3. ASSUME NEW q \in Players, Reseat(q) PROVE room'[<< p, n >>] = 0
   <4>1. PICK h, a, old : SeatsWith(q, h, a, old)
     BY <3>3, ReseatSeats
   <4>2. CASE UNCHANGED room
     BY <2>2, <4>2
   <4>3. CASE room' = [g \in Handles |-> IF g = h /\ old # {} THEN a
                                         ELSE IF g \in old THEN Former ELSE room[g]]
    <5>1. << p, n >> # h
     <6>1. link[h] # "unborn"
       BY <1>0, <4>1 DEF SeatsWith, HandoversFit
     <6> QED BY <2>2, <6>1
    <5>2. << p, n >> \notin old
      BY <2>2, <4>1 DEF SeatsWith
    <5> QED BY <2>1, <2>2, <4>3, <5>1, <5>2
   <4> QED BY <4>1, <4>2, <4>3 DEF SeatsWith
  <3>4. ASSUME NEW a \in Attempts, Binds(a) PROVE room'[<< p, n >>] = 0
   <4>1. << p, n >> \notin Humans(a)
     BY <2>2, <3>4, HumanIsEntry DEF Binds, ListedStages
   <4> QED BY <2>1, <2>2, <3>4, <4>1 DEF Binds
  <3> QED BY <3>1, <3>2, <3>3, <3>4 DEF Kinds, RebindClient, Disconnect
 <2> QED BY <2>3, <2>4
<1> QED BY <1>2, <1>3 DEF BornInOrder, LinksInOrder

LEMMA HandoversStay ==
  ASSUME MatcherInv, SeatsInv, Kinds, \A p \in Players : ClientMoves(p)
  PROVE  HandoversFit'
<1>0. HandlesTyped /\ BornInOrder /\ LinksInOrder /\ HandoversFit
  BY DEF MatcherInv, SeatsInv, BornInOrder
<1> SUFFICES ASSUME NEW p \in Players, rejoin'[p].step # "none"
    PROVE  /\ conn'[p] = rejoin'[p].gen /\ link'[<< p, rejoin'[p].gen >>] # "unborn"
           /\ rejoin'[p].step = "rebound" =>
                room'[<< p, rejoin'[p].gen >>] = 0 /\ entry'[p].client # rejoin'[p].gen
  BY DEF HandoversFit
\* A reconnect that was under way keeps what it owns.
<1>1. ASSUME rejoin[p].step # "none", rejoin'[p].gen = rejoin[p].gen, conn'[p] = conn[p],
             LinksGoOn,
             rejoin'[p].step = "rebound" =>
               /\ rejoin[p].step = "rebound"
               /\ room[<< p, rejoin[p].gen >>] = 0 => room'[<< p, rejoin[p].gen >>] = 0
      PROVE  /\ conn'[p] = rejoin'[p].gen /\ link'[<< p, rejoin'[p].gen >>] # "unborn"
             /\ rejoin'[p].step = "rebound" =>
                  room'[<< p, rejoin'[p].gen >>] = 0 /\ entry'[p].client # rejoin'[p].gen
 <2>1. PICK g \in 1..Links[p] : g = rejoin[p].gen
   BY <1>0, <1>1 DEF HandlesTyped
 <2>2. << p, g >> \in Handles /\ g # 0
   BY HandleOf, LinksNat
 <2>3. conn[p] = g /\ link[<< p, g >>] # "unborn"
   BY <1>0, <1>1, <2>1 DEF HandoversFit
 <2>4. link'[<< p, g >>] # "unborn"
   BY <1>1, <2>2, <2>3 DEF LinksGoOn
 <2>5. ASSUME rejoin'[p].step = "rebound" PROVE room'[<< p, g >>] = 0 /\ entry'[p].client # g
  <3>1. room[<< p, g >>] = 0 /\ entry[p].client # g /\ rejoin[p].step = "rebound"
    BY <1>0, <1>1, <2>1, <2>5 DEF HandoversFit
  <3>2. ~CanAct(<< p, g >>)
    BY <2>1, <3>1 DEF CanAct, InHandler
  <3>3. entry'[p].client # g
    BY <2>2, <3>1, <3>2 DEF ClientMoves, SameClient
  <3> QED BY <1>1, <2>1, <2>5, <3>1, <3>3
 <2> QED BY <1>1, <2>1, <2>3, <2>4, <2>5
<1>2. CASE SeatsShrink
 <2>1. PICK g : g = rejoin[p].gen
   OBVIOUS
 <2>2. rejoin[p].step # "none" /\ rejoin'[p].gen = g
       /\ (rejoin'[p].step = "rebound" => rejoin[p].step = "rebound")
   BY <1>2, <2>1 DEF SeatsShrink, RejoinsGoOn
 <2>3. << p, g >> \in Handles
   BY <1>0, <2>1, <2>2, HandleOf DEF HandlesTyped
 <2>4. room[<< p, g >>] = 0 => room'[<< p, g >>] = 0
   BY <1>2, <2>3 DEF SeatsShrink, RoomsShrink
 <2> QED BY <1>1, <1>2, <2>1, <2>2, <2>4 DEF SeatsShrink
<1>3. ASSUME NEW q \in Players, RebindClient(q)
      PROVE  /\ conn'[p] = rejoin'[p].gen /\ link'[<< p, rejoin'[p].gen >>] # "unborn"
             /\ rejoin'[p].step = "rebound" =>
                  room'[<< p, rejoin'[p].gen >>] = 0 /\ entry'[p].client # rejoin'[p].gen
 <2>1. PICK g \in 1..Links[q] :
         /\ \A n \in 1..Links[q] : link[<< q, n >>] = "unborn" <=> n >= g
         /\ conn' = [conn EXCEPT ![q] = g] /\ link' = [link EXCEPT ![<< q, g >>] = "open"]
         /\ rejoin'[q].step = "rebound" /\ rejoin'[q].gen = g
   BY <1>0, <1>3, RebindIsNext
 <2>2. UNCHANGED << room, entry >>
   BY <1>3 DEF RebindClient, requests
 <2>3. CASE q = p
  <3>1. << p, g >> \in Handles /\ link[<< p, g >>] = "unborn"
    BY <2>1, <2>3, HandleOf, LinksNat
  <3>2. room[<< p, g >>] = 0 /\ entry[p].client # g
    BY <1>0, <2>1, <2>3, <3>1 DEF BornInOrder, LinksInOrder
  <3>3. conn'[p] = g /\ link'[<< p, g >>] = "open"
    BY <1>0, <2>1, <2>3, <3>1 DEF HandlesTyped
  <3> QED BY <2>1, <2>2, <2>3, <3>2, <3>3
 <2>4. CASE q # p
  <3>1. rejoin'[p] = rejoin[p]
    BY <1>0, <1>3, <2>4 DEF RebindClient, HandlesTyped
  <3>2. PICK h \in Handles : h = << p, rejoin[p].gen >>
    BY <1>0, <3>1, HandleOf DEF HandlesTyped
  <3>3. conn'[p] = conn[p] /\ link'[h] = link[h]
    BY <1>0, <2>1, <2>4, <3>2 DEF HandlesTyped
  <3> QED BY <1>0, <2>2, <3>1, <3>2, <3>3 DEF HandoversFit
 <2> QED BY <2>3, <2>4
<1>4. ASSUME NEW q \in Players, Reseat(q)
      PROVE  /\ conn'[p] = rejoin'[p].gen /\ link'[<< p, rejoin'[p].gen >>] # "unborn"
             /\ rejoin'[p].step = "rebound" =>
                  room'[<< p, rejoin'[p].gen >>] = 0 /\ entry'[p].client # rejoin'[p].gen
 <2>1. PICK h, a, old : SeatsWith(q, h, a, old)
   BY <1>4, ReseatSeats
 <2>2. LinksGoOn
   BY <1>0, <1>4, LinksMove
 <2>3. CASE q = p
  <3>1. rejoin' = [rejoin EXCEPT ![p].step = "seated"] /\ UNCHANGED conn
    BY <1>0, <2>1, <2>3 DEF SeatsWith, HandlesTyped, NoRejoin
  <3>2. rejoin'[p].step = "seated" /\ rejoin'[p].gen = rejoin[p].gen
    BY <1>0, <3>1 DEF HandlesTyped, RejoinRecord
  <3>3. rejoin[p].step # "none"
    BY <2>1, <2>3 DEF SeatsWith
  <3> QED BY <1>1, <2>2, <3>1, <3>2, <3>3
 <2>4. CASE q # p
  <3>1. rejoin'[p] = rejoin[p] /\ conn'[p] = conn[p]
    BY <1>0, <2>1, <2>4 DEF SeatsWith, HandlesTyped
  <3>2. PICK g \in Handles : g = << p, rejoin[p].gen >>
    BY <1>0, <3>1, HandleOf DEF HandlesTyped
  <3>3. g # h /\ g \notin old
    BY <2>1, <2>4, <3>2 DEF SeatsWith
  <3>4. room'[g] = room[g]
    BY <2>1, <3>3 DEF SeatsWith
  <3> QED BY <1>1, <2>2, <3>1, <3>2, <3>4
 <2> QED BY <2>3, <2>4
<1>5. ASSUME NEW h \in Handles, Disconnect(h)
      PROVE  /\ conn'[p] = rejoin'[p].gen /\ link'[<< p, rejoin'[p].gen >>] # "unborn"
             /\ rejoin'[p].step = "rebound" =>
                  room'[<< p, rejoin'[p].gen >>] = 0 /\ entry'[p].client # rejoin'[p].gen
 <2>1. PICK q \in Players : q = h[1]
   BY Handle
 <2>2. /\ rejoin' = rejoin /\ room' = room /\ conn' = [conn EXCEPT ![q] = 0]
       /\ conn[q] = h[2] /\ ~InHandler(h)
   BY <1>5, <2>1 DEF Disconnect
 <2>3. q # p
   BY <1>0, <2>1, <2>2 DEF HandoversFit, InHandler
 <2>4. LinksGoOn
   BY <1>0, <1>5, LinksMove
 <2> QED BY <1>0, <1>1, <2>2, <2>3, <2>4 DEF HandlesTyped
<1>6. ASSUME NEW a \in Attempts, Binds(a)
      PROVE  /\ conn'[p] = rejoin'[p].gen /\ link'[<< p, rejoin'[p].gen >>] # "unborn"
             /\ rejoin'[p].step = "rebound" =>
                  room'[<< p, rejoin'[p].gen >>] = 0 /\ entry'[p].client # rejoin'[p].gen
 <2>1. rejoin' = rejoin /\ UNCHANGED << conn, link, entry >>
   BY <1>6 DEF Binds
 <2>2. PICK g \in 1..Links[p] : g = rejoin[p].gen
   BY <1>0, <2>1 DEF HandlesTyped
 <2>3. ASSUME rejoin[p].step = "rebound", room[<< p, g >>] = 0 PROVE room'[<< p, g >>] = 0
  <3>1. entry[p].client # g
    BY <1>0, <2>2, <2>3 DEF HandoversFit
  <3>2. << p, g >> \notin Humans(a)
    BY <1>6, <3>1, HumanIsEntry DEF Binds, ListedStages
  <3> QED BY <1>6, <2>3, <3>2, HandleOf DEF Binds
 <2> QED BY <1>0, <2>1, <2>2, <2>3 DEF HandoversFit
<1> QED BY <1>2, <1>3, <1>4, <1>5, <1>6 DEF Kinds

LEMMA RoomNumbers ==
  /\ Former \notin Attempts /\ Elsewhere \notin Attempts /\ 0 \notin Attempts
  /\ Former # Elsewhere /\ Former # 0 /\ Elsewhere # 0
  /\ \A a \in 0..Former : a \in Attempts \/ a \in {0, Elsewhere, Former}
BY MatcherAssumption DEF Former, Elsewhere, Attempts

\* Where a handle is after Reseat.
LEMMA ReseatRooms ==
  ASSUME NEW p \in Players, NEW h, NEW a, NEW old, SeatsWith(p, h, a, old), NEW g \in Handles
  PROVE  \/ room'[g] = room[g]
         \/ g = h /\ old # {} /\ room'[g] = a
         \/ g \in old /\ room'[g] = Former
BY DEF SeatsWith

LEMMA OtherRoomsStayOut ==
  ASSUME NoOtherRooms, Kinds
  PROVE  NoOtherRooms'
<1>1. ASSUME NEW p \in Players, Reseat(p) PROVE NoOtherRooms'
 <2>1. PICK h, a, old : SeatsWith(p, h, a, old)
   BY <1>1, ReseatSeats
 <2>2. old # {} => a # Elsewhere
   BY <2>1 DEF SeatsWith, NoOtherRooms
 <2> QED BY <2>1, <2>2, ReseatRooms, RoomNumbers DEF NoOtherRooms
<1>2. ASSUME NEW a \in Attempts, Binds(a) PROVE NoOtherRooms'
  BY <1>2, RoomNumbers DEF Binds, NoOtherRooms
<1>3. CASE SeatsShrink
  BY <1>3, RoomNumbers DEF SeatsShrink, RoomsShrink, NoOtherRooms
<1>4. CASE UNCHANGED room
  BY <1>4 DEF NoOtherRooms
<1> QED BY <1>1, <1>2, <1>3, <1>4 DEF Kinds, RebindClient, Disconnect

\* A player without seats has none that is wrong, and only such a player stops
\* being late.
LEMMA SeatlessFits ==
  ASSUME NEW p \in Players, ~HasSeat(p)
  PROVE  SeatsFit(p)
<1>1. \A n \in 1..Links[p] : room[<< p, n >>] \notin Attempts
  BY HandleOf DEF HasSeat
<1> QED BY <1>1 DEF SeatsFit, SeatsAreHeld, CommitFits, OneSeat, SessionKnows

LEMMA FitsBefore ==
  ASSUME SeatsInv, Kinds, NEW p \in Players, p \notin late'
  PROVE  SeatsFit(p)
<1>1. CASE p \notin late
  BY <1>1 DEF SeatsInv
<1>2. CASE p \in late
 <2>1. PICK a \in Attempts : Binds(a)
  <3>1. late' # late
    BY <1>2
  <3>2. ~SeatsShrink /\ \A q \in Players : ~RebindClient(q) /\ ~Reseat(q)
    BY <3>1 DEF SeatsShrink, SessionsGoOn, RebindClient, Reseat
  <3>3. \A h \in Handles : ~Disconnect(h)
    BY <3>1 DEF Disconnect, sessions
  <3> QED BY <3>2, <3>3 DEF Kinds
 <2>2. ~HasSeat(p)
   BY <1>2, <2>1 DEF Binds
 <2> QED BY <2>2, SeatlessFits
<1> QED BY <1>1, <1>2

\* Whoever is bound by the commit of a match has no seat before.
LEMMA BindsTheFree ==
  ASSUME MatcherInv, SeatsInv, NEW a \in Attempts, Binds(a), NEW p \in Players, p \notin late',
         NEW n \in 1..Links[p], << p, n >> \in Humans(a), NEW m \in 1..Links[p]
  PROVE  room[<< p, m >>] \notin Attempts
<1>0. CommitFits(p)
  BY FitsBefore DEF Kinds, SeatsFit
<1>1. entry[p].attempt = a /\ entry[p].client = n
  BY HumanIsEntry DEF Binds, ListedStages
<1>2. room[<< p, n >>] = 0
  BY DEF Binds, Unbound
<1>3. ASSUME room[<< p, m >>] \in Attempts PROVE FALSE
 <2>1. m = n \/ room[<< p, n >>] = Former
   BY <1>0, <1>1, <1>3, AttemptsNat DEF CommitFits, Binds
 <2> QED BY <1>2, <1>3, <2>1, RoomNumbers
<1> QED BY <1>3

\* An attempt has one connection of a player.
LEMMA OneHuman ==
  ASSUME MatcherInv, NEW a \in Attempts, Binds(a), NEW p \in Players,
         NEW m \in 1..Links[p], NEW n \in 1..Links[p],
         << p, m >> \in Humans(a), << p, n >> \in Humans(a)
  PROVE  m = n
BY HumanIsEntry DEF Binds, ListedStages

LEMMA OneSeatStays ==
  ASSUME MatcherInv, SeatsInv, Kinds, NEW p \in Players, p \notin late',
         NEW m \in 1..Links[p], NEW n \in 1..Links[p],
         room'[<< p, m >>] \in Attempts, room'[<< p, n >>] \in Attempts
  PROVE  m = n
<1>0. OneSeat(p)
  BY FitsBefore DEF SeatsFit
<1>1. << p, m >> \in Handles /\ << p, n >> \in Handles
  BY HandleOf
<1>2. CASE SeatsShrink
 <2>1. room'[<< p, m >>] = room[<< p, m >>] /\ room'[<< p, n >>] = room[<< p, n >>]
   BY <1>1, <1>2, RoomNumbers DEF SeatsShrink, RoomsShrink
 <2> QED BY <1>0, <2>1 DEF OneSeat
<1>3. CASE UNCHANGED room
  BY <1>0, <1>3 DEF OneSeat
<1>4. ASSUME NEW q \in Players, Reseat(q), room' # room PROVE m = n
 <2>1. PICK h, a, old : SeatsWith(q, h, a, old)
   BY <1>4, ReseatSeats
 <2>2. room' = [g \in Handles |-> IF g = h /\ old # {} THEN a
                                 ELSE IF g \in old THEN Former ELSE room[g]]
   BY <1>4, <2>1 DEF SeatsWith
 <2>3. ASSUME NEW k \in 1..Links[p], room'[<< p, k >>] \in Attempts, << p, k >> # h
       PROVE  << p, k >> \notin old /\ room[<< p, k >>] = room'[<< p, k >>]
   BY <2>2, <2>3, HandleOf, RoomNumbers
 <2>4. ASSUME NEW k \in 1..Links[p], NEW l \in 1..Links[p], << p, k >> = h, << p, l >> # h,
              room'[<< p, k >>] \in Attempts, room'[<< p, l >>] \in Attempts
       PROVE  FALSE
  <3>1. << p, l >> \notin old /\ room[<< p, l >>] \in Attempts
    BY <2>3, <2>4
  <3>2. q = p /\ rejoin[p].step = "rebound" /\ rejoin[p].gen = k
    BY <2>1, <2>4 DEF SeatsWith
  <3>3. room[<< p, k >>] = 0
    BY <3>2 DEF SeatsInv, HandoversFit
  <3>4. old # {} /\ a \in Attempts
    BY <2>2, <2>4, <3>3, HandleOf, RoomNumbers
  <3>5. PICK g \in Handles : g[1] = p /\ room[g] = a /\ g \in old
    BY <2>1, <3>2, <3>4 DEF SeatsWith
  <3>6. PICK j \in 1..Links[p] : g = << p, j >>
    BY <3>5, Handle
  <3>7. j = l
    BY <1>0, <3>1, <3>4, <3>5, <3>6 DEF OneSeat
  <3> QED BY <3>1, <3>5, <3>6, <3>7
 <2>5. CASE << p, m >> # h /\ << p, n >> # h
   BY <1>0, <2>3, <2>5 DEF OneSeat
 <2> QED BY <2>4, <2>5
<1>5. ASSUME NEW a \in Attempts, Binds(a) PROVE m = n
 <2>1. /\ << p, m >> \in Humans(a) \/ room[<< p, m >>] \in Attempts
       /\ << p, n >> \in Humans(a) \/ room[<< p, n >>] \in Attempts
   BY <1>1, <1>5 DEF Binds
 <2>2. CASE << p, m >> \in Humans(a) \/ << p, n >> \in Humans(a)
   BY <1>5, <2>1, <2>2, BindsTheFree, OneHuman
 <2>3. CASE ~(<< p, m >> \in Humans(a) \/ << p, n >> \in Humans(a))
   BY <1>0, <2>1, <2>3 DEF OneSeat
 <2> QED BY <2>2, <2>3
<1> QED BY <1>2, <1>3, <1>4, <1>5 DEF Kinds, RebindClient, Disconnect

LEMMA OneMatchSeats == SeatsInv => OneMatchEach
<1> SUFFICES ASSUME SeatsInv, NEW p \in Players \ late, NEW a \in Attempts, NEW b \in Attempts,
                    NEW g \in Handles, NEW h \in Handles,
                    g[1] = p, h[1] = p, room[g] = a, room[h] = b
    PROVE  a = b
  BY DEF OneMatchEach
<1>1. OneSeat(p)
  BY DEF SeatsInv, SeatsFit
<1>2. PICK m \in 1..Links[p] : g = << p, m >>
  BY Handle
<1>3. PICK n \in 1..Links[p] : h = << p, n >>
  BY Handle
<1> QED BY <1>1, <1>2, <1>3 DEF OneSeat

\* What a session, a reconnect that has read it and one that has taken over know.
Knows(p, a) ==
  /\ session[p] = a /\ (restored[p] # Unread => restored[p] = a)
  /\ rejoin[p].step = "rebound" => rejoin[p].room = a

LEMMA SessionsStayKnowing ==
  ASSUME MatcherInv, SeatsInv, Kinds, NEW p \in Players, p \notin late',
         NEW n \in 1..Links[p], NEW a \in Attempts, room'[<< p, n >>] = a
  PROVE  Knows(p, a)'
<1>0. HandlesTyped /\ SessionsTyped /\ SeatsFit(p) /\ << p, n >> \in Handles
  BY FitsBefore, HandleOf DEF MatcherInv
<1>1. ASSUME room[<< p, n >>] = a PROVE Knows(p, a)
  BY <1>0, <1>1 DEF SeatsFit, SessionKnows, Knows
<1>2. CASE SeatsShrink
 <2>1. room[<< p, n >>] = a
   BY <1>0, <1>2, RoomNumbers DEF SeatsShrink, RoomsShrink
 <2>2. ~LosesSeatIn(p)
  <3>1. ASSUME NEW m \in 1..Links[p], room[<< p, m >>] \in Attempts, room'[<< p, m >>] = 0
        PROVE  FALSE
   <4>1. m = n
     BY <1>0, <2>1, <3>1 DEF SeatsFit, OneSeat
   <4> QED BY <3>1, <4>1, RoomNumbers
  <3> QED BY <3>1 DEF LosesSeatIn
 <2>3. session'[p] = session[p] /\ restored'[p] \in {restored[p], session[p]}
   BY <1>2, <2>2 DEF SeatsShrink, SessionsGoOn
 <2>4. rejoin'[p].step = "rebound" => rejoin'[p] = rejoin[p]
   BY <1>2 DEF SeatsShrink, RejoinsGoOn
 <2> QED BY <1>1, <2>1, <2>3, <2>4 DEF Knows
<1>3. ASSUME NEW q \in Players, RebindClient(q) PROVE Knows(p, a)'
 <2>1. room[<< p, n >>] = a /\ UNCHANGED session
   BY <1>3 DEF RebindClient
 <2>2. CASE q = p
  <3>1. restored[p] # Unread /\ restored'[p] = Unread
    BY <1>0, <1>3, <2>2 DEF RebindClient, SessionsTyped
  <3>2. rejoin'[p].room = restored[p]
    BY <1>0, <1>3, <2>2, RebindIsNext DEF SeatsInv, BornInOrder
  <3> QED BY <1>1, <2>1, <3>1, <3>2 DEF Knows
 <2>3. CASE q # p
  <3>1. restored'[p] = restored[p] /\ rejoin'[p] = rejoin[p]
    BY <1>0, <1>3, <2>3 DEF RebindClient, SessionsTyped, HandlesTyped
  <3> QED BY <1>1, <2>1, <3>1 DEF Knows
 <2> QED BY <2>2, <2>3
<1>4. ASSUME NEW q \in Players, Reseat(q) PROVE Knows(p, a)'
 <2>1. PICK h, b, old : SeatsWith(q, h, b, old)
   BY <1>4, ReseatSeats
 <2>2. CASE q # p
  <3>1. << p, n >> # h /\ << p, n >> \notin old
    BY <2>1, <2>2 DEF SeatsWith
  <3>2. room[<< p, n >>] = a
    BY <1>0, <2>1, <3>1, ReseatRooms
  <3>3. session'[p] = session[p] /\ restored' = restored /\ rejoin'[p] = rejoin[p]
    BY <1>0, <2>1, <2>2 DEF SeatsWith, SessionsTyped, HandlesTyped
  <3> QED BY <1>1, <3>2, <3>3 DEF Knows
 <2>3. CASE q = p
  <3>1. rejoin[p].step = "rebound" /\ b = rejoin[p].room /\ rejoin[p] # NoRejoin
    BY <2>1, <2>3 DEF SeatsWith, NoRejoin
  <3>2. rejoin'[p].step # "rebound" /\ restored' = restored
    BY <1>0, <2>1, <2>3 DEF SeatsWith, HandlesTyped, RejoinRecord, NoRejoin
  <3>3. room[<< p, n >>] = a \/ (old # {} /\ a = b)
    BY <1>0, <2>1, ReseatRooms, RoomNumbers
  <3>4. b = a
    BY <1>1, <3>1, <3>3 DEF Knows
  <3>5. restored[p] = Unread \/ restored[p] = a
   <4>1. CASE room[<< p, n >>] = a
     BY <1>1, <4>1 DEF Knows
   <4>2. CASE old # {}
    <5>1. PICK g \in Handles : g[1] = p /\ room[g] = a
      BY <2>1, <2>3, <3>4, <4>2 DEF SeatsWith
    <5>2. PICK m \in 1..Links[p] : g = << p, m >>
      BY <5>1, Handle
    <5> QED BY <1>0, <5>1, <5>2 DEF SeatsFit, SessionKnows
   <4> QED BY <3>3, <4>1, <4>2
  <3>6. session'[p] = a
   <4>1. old # {} \/ session' = [session EXCEPT ![p] = b]
    <5>1. CASE room[<< p, n >>] = a
     <6>1. << p, n >> \in old
       BY <1>0, <2>1, <2>3, <3>4, <5>1, RoomNumbers DEF SeatsWith
     <6> QED BY <6>1
    <5> QED BY <3>3, <5>1
   <4>2. session' = [session EXCEPT ![p] = b]
     BY <2>1, <2>3, <4>1 DEF SeatsWith
   <4> QED BY <1>0, <3>4, <4>2 DEF SessionsTyped
  <3> QED BY <3>2, <3>5, <3>6 DEF Knows
 <2> QED BY <2>2, <2>3
<1>5. ASSUME NEW h \in Handles, Disconnect(h) PROVE Knows(p, a)'
  BY <1>1, <1>5 DEF Disconnect, sessions, Knows
<1>6. ASSUME NEW b \in Attempts, Binds(b) PROVE Knows(p, a)'
 <2>1. CASE << p, n >> \in Humans(b)
  <3>1. a = b
    BY <1>0, <1>6, <2>1 DEF Binds
  <3>2. \E h \in Humans(b) : h[1] = p
    BY <2>1
  <3>3. session'[p] = a
    BY <1>6, <3>1, <3>2 DEF Binds
  <3>4. p \notin Returning
    BY <1>6, <3>2 DEF Binds
  <3>5. restored'[p] = Unread /\ rejoin'[p].step # "rebound"
    BY <1>6, <3>4 DEF Binds, Returning
  <3> QED BY <3>3, <3>5 DEF Knows
 <2>2. CASE << p, n >> \notin Humans(b)
  <3>1. room[<< p, n >>] = a
    BY <1>0, <1>6, <2>2 DEF Binds
  <3>2. ASSUME NEW m \in 1..Links[p], << p, m >> \in Humans(b) PROVE FALSE
    BY <1>6, <3>1, <3>2, BindsTheFree
  <3>3. \A h \in Humans(b) : h[1] # p
   <4>1. ASSUME NEW h \in Humans(b), h[1] = p PROVE FALSE
    <5>1. PICK m \in 1..Links[p] : h = << p, m >>
      BY <1>6, <4>1, HumanIsLink, Handle DEF Binds, ListedStages
    <5> QED BY <3>2, <4>1, <5>1
   <4> QED BY <4>1
  <3>4. session'[p] = session[p] /\ UNCHANGED << restored, rejoin >>
    BY <1>6, <3>3 DEF Binds
  <3> QED BY <1>1, <3>1, <3>4 DEF Knows
 <2> QED BY <2>1, <2>2
<1> QED BY <1>2, <1>3, <1>4, <1>5, <1>6 DEF Kinds

LEMMA CommitsStayFit ==
  ASSUME MatcherInv, SeatsInv, Kinds, Served
  PROVE  \A p \in Players \ late' : CommitFits(p)'
<1> SUFFICES ASSUME NEW p \in Players, p \notin late', entry'[p].attempt # 0,
                    att'[entry'[p].attempt].stage = "commit",
                    NEW n \in 1..Links[p], room'[<< p, n >>] \in Attempts
    PROVE  n = entry'[p].client \/ room'[<< p, entry'[p].client >>] = Former
  BY DEF CommitFits
<1>0. SeatsFit(p)
  BY FitsBefore
<1>1. PICK a \in Attempts : a = entry'[p].attempt
 <2>1. entry'[p].attempt \in 0..MaxAttempts
   BY DEF Served, RequestsFit, RequestsTyped, EntryRecord
 <2> QED BY <2>1, AttemptsNat
<1>2. /\ entry[p].attempt = a /\ entry'[p].client = entry[p].client
      /\ entry[p].client \in 1..Links[p]
      /\ att[a].stage = "commit" \/ (att[a].stage = "assemble" /\ Validated(att[a]))
  BY <1>1, CommitStays
<1>3. PICK c \in 1..Links[p] : c = entry[p].client
  BY <1>2
<1>4. << p, c >> \in Handles /\ << p, n >> \in Handles /\ c # 0 /\ n # 0
  BY HandleOf, LinksNat
<1>5. CASE att[a].stage = "commit"
 <2>1. \A m \in 1..Links[p] : room[<< p, m >>] \in Attempts => m = c \/ room[<< p, c >>] = Former
   BY <1>0, <1>2, <1>3, <1>5, AttemptsNat DEF SeatsFit, CommitFits
 <2>2. CASE SeatsShrink
  <3>1. room[<< p, n >>] \in Attempts
    BY <1>4, <2>2, RoomNumbers DEF SeatsShrink, RoomsShrink
  <3>2. room[<< p, c >>] = Former => room'[<< p, c >>] = Former
    BY <1>4, <2>2, RoomNumbers DEF SeatsShrink, RoomsShrink
  <3> QED BY <1>2, <1>3, <2>1, <3>1, <3>2
 <2>3. CASE UNCHANGED room
   BY <1>2, <1>3, <2>1, <2>3
 <2>4. ASSUME NEW q \in Players, Reseat(q) PROVE n = c \/ room'[<< p, c >>] = Former
  <3>1. PICK h, b, old : SeatsWith(q, h, b, old)
    BY <2>4, ReseatSeats
  <3>2. << p, c >> # h
    BY <1>3, <3>1 DEF SeatsWith, SeatsInv, HandoversFit
  <3>3. room'[<< p, c >>] = room[<< p, c >>] \/ room'[<< p, c >>] = Former
    BY <1>4, <3>1, <3>2, ReseatRooms
  <3>4. CASE room'[<< p, n >>] = room[<< p, n >>]
    BY <2>1, <3>3, <3>4
  <3>5. CASE << p, n >> = h /\ old # {} /\ room'[<< p, n >>] = b
   <4>1. PICK g \in Handles : g \in old
     BY <3>1, <3>5 DEF SeatsWith
   <4>2. g[1] = p /\ room[g] = b /\ b \in Attempts
     BY <3>1, <3>5, <4>1 DEF SeatsWith
   <4>3. PICK l \in 1..Links[p] : g = << p, l >>
     BY <4>2, Handle
   <4>4. l = c \/ room[<< p, c >>] = Former
     BY <2>1, <4>2, <4>3
   <4>5. CASE l = c
    <5>1. room'[<< p, c >>] = Former \/ UNCHANGED room
      BY <1>4, <3>1, <3>2, <4>1, <4>3, <4>5 DEF SeatsWith
    <5> QED BY <2>1, <5>1
   <4>6. CASE room[<< p, c >>] = Former
     BY <3>3, <4>6
   <4> QED BY <4>4, <4>5, <4>6
  <3> QED BY <1>4, <3>1, <3>4, <3>5, ReseatRooms, RoomNumbers
 <2>5. ASSUME NEW b \in Attempts, Binds(b) PROVE n = c \/ room'[<< p, c >>] = Former
  <3>1. b # a
    BY <1>1, <2>5 DEF Binds, MatcherInv, Reserved, AttemptsTyped, AttemptType, AttemptRecord
  <3>2. << p, c >> \notin Humans(b) /\ << p, n >> \notin Humans(b)
    BY <1>2, <2>5, <3>1, HumanIsEntry DEF Binds, ListedStages
  <3> QED BY <1>4, <2>1, <2>5, <3>2 DEF Binds
 <2> QED BY <1>2, <1>3, <2>2, <2>3, <2>4, <2>5 DEF Kinds, RebindClient, Disconnect
<1>6. CASE att[a].stage = "assemble" /\ Validated(att[a])
 <2>1. PICK b \in Attempts : att[a] = att[b] /\ Valid(b) /\ UNCHANGED connections
   BY <1>6 DEF Validated
 <2>2. << p, c >> \in Humans(b)
   BY <1>2, <1>3, <2>1, EntryIsHuman DEF Humans
 <2>3. conn[p] = c
   BY <2>1, <2>2 DEF Valid
 <2>4. room[<< p, n >>] \in Attempts
   BY <2>1 DEF connections
 <2>5. SeatIsHeld(p, n)
   BY <1>0, <2>4 DEF SeatsFit, SeatsAreHeld
 <2>6. rejoin[p].step # "rebound"
   BY <1>3, <2>3 DEF SeatsInv, HandoversFit
 <2> QED BY <1>2, <1>3, <1>4, <1>6, <2>3, <2>5, <2>6 DEF SeatIsHeld
<1> QED BY <1>2, <1>5, <1>6

LEMMA SeatsStayHeld ==
  ASSUME MatcherInv, SeatsInv, Kinds, Served
  PROVE  \A p \in Players \ late' : SeatsAreHeld(p)'
<1>0. HandlesTyped /\ BornInOrder /\ LinksInOrder /\ HandoversFit
  BY DEF MatcherInv, SeatsInv, BornInOrder
<1> SUFFICES ASSUME NEW p \in Players, p \notin late', NEW n \in 1..Links[p], NEW a \in Attempts,
                    room'[<< p, n >>] = a
    PROVE  \/ conn'[p] \in {0, n}
           \/ rejoin'[p].step = "rebound" /\ rejoin'[p].room = a /\ rejoin'[p].previous \in {0, n}
           \/ entry'[p].attempt = a /\ att'[a].stage \in {"ready", "rollback"}
  BY DEF SeatsAreHeld, SeatIsHeld
<1>1. << p, n >> \in Handles /\ n # 0
  BY HandleOf, LinksNat
<1>2. ASSUME room[<< p, n >>] = a
      PROVE  \/ conn[p] \in {0, n}
             \/ rejoin[p].step = "rebound" /\ rejoin[p].room = a /\ rejoin[p].previous \in {0, n}
             \/ /\ entry[p].attempt = a /\ att[a].stage \in {"ready", "rollback"}
                /\ \/ entry'[p].attempt = a /\ att'[a].stage \in {"ready", "rollback"}
                   \/ conn'[p] = n
 <2>1. SeatIsHeld(p, n)
   BY <1>2, FitsBefore DEF SeatsFit, SeatsAreHeld
 <2>2. CASE entry[p].attempt = a /\ att[a].stage \in {"ready", "rollback"}
   BY <1>2, <2>2, HeldOn
 <2> QED BY <1>2, <2>1, <2>2 DEF SeatIsHeld
<1>3. CASE SeatsShrink
 <2>1. room[<< p, n >>] = a
   BY <1>1, <1>3, RoomNumbers DEF SeatsShrink, RoomsShrink
 <2>2. conn'[p] = conn[p] /\ (rejoin[p].step = "rebound" => rejoin'[p] = rejoin[p])
   BY <1>3 DEF SeatsShrink, RejoinsGoOn
 <2> QED BY <1>2, <2>1, <2>2
<1>4. ASSUME NEW a1 \in Attempts, Binds(a1)
      PROVE  \/ conn'[p] \in {0, n}
             \/ rejoin'[p].step = "rebound" /\ rejoin'[p].room = a /\ rejoin'[p].previous \in {0, n}
             \/ entry'[p].attempt = a /\ att'[a].stage \in {"ready", "rollback"}
 <2>1. CASE << p, n >> \in Humans(a1)
  <3>1. a1 = a
    BY <1>1, <1>4, <2>1 DEF Binds
  <3>2. entry[p].attempt = a
    BY <1>4, <2>1, <3>1, HumanIsEntry DEF Binds, ListedStages
  <3>3. att'[a].stage = "ready"
    BY <1>4, <3>1 DEF Binds, MatcherInv, Reserved, AttemptsTyped, AttemptType, AttemptRecord
  <3> QED BY <1>4, <3>2, <3>3 DEF Binds
 <2>2. CASE << p, n >> \notin Humans(a1)
  <3>1. room[<< p, n >>] = a /\ UNCHANGED << conn, rejoin >>
    BY <1>1, <1>4, <2>2 DEF Binds
  <3> QED BY <1>2, <3>1
 <2> QED BY <2>1, <2>2
<1>5. ASSUME NEW h \in Handles, Disconnect(h)
      PROVE  \/ conn'[p] \in {0, n}
             \/ rejoin'[p].step = "rebound" /\ rejoin'[p].room = a /\ rejoin'[p].previous \in {0, n}
             \/ entry'[p].attempt = a /\ att'[a].stage \in {"ready", "rollback"}
 <2>1. /\ room[<< p, n >>] = a /\ rejoin' = rejoin
       /\ conn'[p] = conn[p] \/ conn'[p] = 0
   BY <1>0, <1>5 DEF Disconnect, HandlesTyped
 <2> QED BY <1>2, <2>1
<1>6. ASSUME NEW q \in Players, RebindClient(q)
      PROVE  \/ conn'[p] \in {0, n}
             \/ rejoin'[p].step = "rebound" /\ rejoin'[p].room = a /\ rejoin'[p].previous \in {0, n}
             \/ entry'[p].attempt = a /\ att'[a].stage \in {"ready", "rollback"}
 <2>1. room[<< p, n >>] = a
   BY <1>6 DEF RebindClient
 <2>2. CASE q = p
  <3>1. rejoin[p] = NoRejoin
    BY <1>6, <2>2 DEF RebindClient
  <3>2. rejoin[p].step # "rebound"
    BY <3>1 DEF NoRejoin
  <3>3. CASE conn[p] \in {0, n}
   <4>1. rejoin'[p].step = "rebound" /\ rejoin'[p].previous = conn[p]
     BY <1>0, <1>6, <2>2, RebindIsNext
   <4>2. restored[p] # Unread /\ rejoin'[p].room = restored[p]
     BY <1>0, <1>6, <2>2, RebindIsNext DEF RebindClient
   <4>3. SessionKnows(p)
     BY FitsBefore DEF SeatsFit
   <4>4. rejoin'[p].room = a
     BY <2>1, <4>2, <4>3 DEF SessionKnows
   <4> QED BY <3>3, <4>1, <4>4
  <3> QED BY <1>2, <2>1, <3>2, <3>3
 <2>3. CASE q # p
  <3>1. conn'[p] = conn[p] /\ rejoin'[p] = rejoin[p]
    BY <1>0, <1>6, <2>3 DEF RebindClient, HandlesTyped
  <3> QED BY <1>2, <2>1, <3>1
 <2> QED BY <2>2, <2>3
<1>7. ASSUME NEW q \in Players, Reseat(q)
      PROVE  \/ conn'[p] \in {0, n}
             \/ rejoin'[p].step = "rebound" /\ rejoin'[p].room = a /\ rejoin'[p].previous \in {0, n}
             \/ entry'[p].attempt = a /\ att'[a].stage \in {"ready", "rollback"}
 <2>1. PICK h, b, old : SeatsWith(q, h, b, old)
   BY <1>7, ReseatSeats
 <2>2. CASE q # p
  <3>1. << p, n >> # h /\ << p, n >> \notin old
    BY <2>1, <2>2 DEF SeatsWith
  <3>2. room[<< p, n >>] = a
    BY <1>1, <2>1, <3>1, ReseatRooms
  <3>3. conn'[p] = conn[p] /\ rejoin'[p] = rejoin[p]
    BY <1>0, <2>1, <2>2 DEF SeatsWith, HandlesTyped
  <3> QED BY <1>2, <3>2, <3>3
 <2>3. CASE q = p
  <3>1. /\ rejoin[p].step = "rebound" /\ conn[p] = rejoin[p].gen /\ rejoin[p].gen # 0
        /\ room[<< p, conn[p] >>] = 0
    BY <1>0, <2>1, <2>3, LinksNat DEF SeatsWith, HandoversFit, HandlesTyped
  <3>2. CASE room' # room
   <4>1. conn' = conn
     BY <2>1, <3>2 DEF SeatsWith
   <4>2. CASE << p, n >> = h
    <5>1. conn[p] = n
      BY <2>1, <2>3, <3>1, <4>2 DEF SeatsWith
    <5> QED BY <4>1, <5>1
   <4>3. CASE << p, n >> # h
    <5>1. room[<< p, n >>] = a /\ << p, n >> \notin old
     <6>1. room'[<< p, n >>] = IF << p, n >> \in old THEN Former ELSE room[<< p, n >>]
       BY <1>1, <2>1, <3>2, <4>3 DEF SeatsWith
     <6> QED BY <6>1, RoomNumbers
    <5>2. rejoin[p].room # a
      BY <1>1, <2>1, <2>3, <5>1, RoomNumbers DEF SeatsWith
    <5>3. conn[p] \notin {0, n}
      BY <3>1, <5>1, RoomNumbers
    <5> QED BY <1>2, <5>1, <5>2, <5>3
   <4> QED BY <4>2, <4>3
  <3>3. CASE room' = room
   <4>1. room[<< p, n >>] = a /\ conn[p] \notin {0, n}
     BY <3>1, <3>3, RoomNumbers
   <4>2. CASE conn' = [conn EXCEPT ![p] = rejoin[p].previous]
    <5>1. conn'[p] = rejoin[p].previous
      BY <1>0, <4>2 DEF HandlesTyped
    <5> QED BY <1>2, <4>1, <5>1
   <4>3. CASE conn' = conn /\ room' = [g \in Handles |-> IF g = h /\ old # {} THEN b
                                   ELSE IF g \in old THEN Former ELSE room[g]]
    <5>1. << p, n >> \notin old \/ << p, n >> = h
      BY <1>1, <3>3, <4>1, <4>3, RoomNumbers
    <5>2. << p, n >> # h
      BY <2>1, <2>3, <3>1, <4>1 DEF SeatsWith
    <5>3. rejoin[p].room # a
      BY <1>1, <2>1, <2>3, <4>1, <5>1, <5>2, RoomNumbers DEF SeatsWith
    <5> QED BY <1>2, <4>1, <5>3
   <4> QED BY <2>1, <2>3, <4>2, <4>3 DEF SeatsWith
  <3> QED BY <3>2, <3>3
 <2> QED BY <2>2, <2>3
<1> QED BY <1>3, <1>4, <1>5, <1>6, <1>7 DEF Kinds

-----------------------------------------------------------------------------
(* The seats, where players are in no other rooms                          *)

LEMMA InitSeats == Init => SeatsInv
<1> SUFFICES ASSUME Init PROVE SeatsInv
  OBVIOUS
<1>1. \A p \in Players : Links[p] \in Nat /\ 1 \in 1..Links[p] /\ 0 \notin 1..Links[p]
  BY MatcherAssumption
<1>2. ASSUME NEW p \in Players, NEW n \in 1..Links[p]
      PROVE  /\ n \in Nat /\ n # 0 /\ << p, n >> \in Handles
             /\ room[<< p, n >>] = 0 /\ entry[p].client = 0
             /\ link[<< p, n >>] = IF n = 1 THEN "open" ELSE "unborn"
  BY <1>1, HandleIs DEF Init, NoEntry
<1>3. BornInOrder
  BY <1>1, <1>2 DEF BornInOrder, LinksInOrder
<1>4. HandoversFit
  BY DEF Init, HandoversFit, NoRejoin
<1>5. NoOtherRooms
  BY RoomNumbers DEF Init, NoOtherRooms
<1>6. ASSUME NEW p \in Players PROVE SeatsFit(p)
  BY <1>2, RoomNumbers DEF SeatsFit, SeatsAreHeld, CommitFits, OneSeat, SessionKnows
<1> QED BY <1>3, <1>4, <1>5, <1>6 DEF SeatsInv

LEMMA StepSeats ==
  ASSUME OtherRooms = FALSE, MatcherInv, SeatsInv, [Next]_vars
  PROVE  SeatsInv'
<1>1. HandlesTyped /\ SessionsTyped /\ RequestsFit /\ NoOtherRooms
  BY DEF MatcherInv, Reserved, SeatsInv
<1>2. Kinds
  BY <1>1, StepKinds DEF Kinds
<1>3. \A p \in Players : ClientMoves(p)
  BY <1>1, StepMovesClients
<1>4. Served
  BY StepFits
<1>5. BornInOrder' /\ HandoversFit'
  BY <1>2, <1>3, BornStays, HandoversStay
<1>6. NoOtherRooms'
  BY <1>1, <1>2, OtherRoomsStayOut
<1>7. ASSUME NEW p \in Players \ late' PROVE SeatsFit(p)'
 <2>1. CommitFits(p)' /\ SeatsAreHeld(p)'
   BY <1>2, <1>4, CommitsStayFit, SeatsStayHeld
 <2>2. OneSeat(p)'
   BY <1>2, OneSeatStays DEF OneSeat
 <2>3. SessionKnows(p)'
   BY <1>2, SessionsStayKnowing DEF SessionKnows, Knows
 <2> QED BY <2>1, <2>2, <2>3 DEF SeatsFit
<1> QED BY <1>5, <1>6, <1>7 DEF SeatsInv

\* Whatever other rooms its players enter, the matcher keeps every variable's
\* type, a player has the one place in the queue and the one attempt that his
\* entry says, and no bots and no lease outlive the match they were made for,
\* however an attempt fails, in whichever of its steps (matcher.go:585-900).
THEOREM EverythingIsReserved ==
  Spec => [](TypeOK /\ ReservedIsOwned /\ BotsAreOwned /\ LeaseIsAccounted)
<1>1. MatcherInv => ReservedIsOwned /\ BotsAreOwned /\ LeaseIsAccounted
  BY ReservedFits, OwnersFit
<1> QED BY <1>1, MatcherFits, MatcherKeepsTypes, PTL

\* Where players are in no rooms but the ones the matcher makes, everything the
\* matcher holds has one owner: besides what EverythingIsReserved says, no player
\* has a seat in two matches, whichever of his connections took them, unless a
\* commit gave him one of them while a reconnect had read his session and was not
\* through (matcher.go:585-900, player.go:466-471, match_transaction.go:155-165).
THEOREM EverythingIsOwned ==
  ASSUME OtherRooms = FALSE
  PROVE  Spec => []EverythingHasAnOwner
<1>1. MatcherInv /\ SeatsInv /\ [Next]_vars => SeatsInv'
  BY StepSeats
<1>2. SeatsInv => OneMatchEach
  BY OneMatchSeats
<1>3. Spec => []OneMatchEach
  BY <1>1, <1>2, InitSeats, MatcherFits, PTL DEF Spec
<1> QED BY <1>3, EverythingIsReserved, PTL DEF EverythingHasAnOwner

-----------------------------------------------------------------------------
(* The last connection of a player                                         *)

LastBorn(p, n) == \A m \in 1..Links[p] : m > n => link[<< p, m >>] = "unborn"

\* The last connection is the registered one until it is torn down.
Registered ==
  \A p \in Players : \A n \in 1..Links[p] :
    link[<< p, n >>] \in {"open", "closed"} /\ LastBorn(p, n) => conn[p] = n
BornConns == \A p \in Players : conn[p] # 0 => link[<< p, conn[p] >>] # "unborn"
\* A reconnect under way is the last connection's and owns its player.
TakesOver(p) ==
  /\ conn[p] = rejoin[p].gen /\ rejoin[p].previous < rejoin[p].gen
  /\ LastBorn(p, rejoin[p].gen)
TakeoversFit == \A p \in Players : rejoin[p].step # "none" => TakesOver(p)
LinksInv == LinksInOrder /\ Registered /\ BornConns /\ TakeoversFit

\* A step that makes no connection and registers none.
LinkSettles(h) ==
  /\ link'[h] = "unborn" <=> link[h] = "unborn"
  /\ link'[h] \in {"open", "closed"} => link[h] \in {"open", "closed"}
  /\ link'[h] = "open" => link[h] = "open"
RejoinStays(p) ==
  rejoin'[p].step # "none" =>
    /\ rejoin[p].step # "none"
    /\ rejoin'[p].gen = rejoin[p].gen /\ rejoin'[p].previous = rejoin[p].previous
    /\ rejoin'[p].step \in {"rebound", "seated"} => rejoin[p].step \in {"rebound", "seated"}
LinksSettle ==
  (\A h \in Handles : LinkSettles(h)) /\ (\A p \in Players : RejoinStays(p)) /\ UNCHANGED conn
Undoes(p) ==
  /\ rejoin[p].step = "rebound" /\ rejoin' = [rejoin EXCEPT ![p] = NoRejoin]
  /\ conn' = [conn EXCEPT ![p] = rejoin[p].previous]
  /\ link' = [link EXCEPT ![<< p, rejoin[p].gen >>] = "gone"]
LinkKinds ==
  \/ LinksSettle \/ (\E h \in Handles : Disconnect(h))
  \/ (\E p \in Players : RebindClient(p) \/ Undoes(p))

LEMMA ClosePreviousSettles ==
  ASSUME HandlesTyped, NEW p \in Players, ClosePrevious(p), UNCHANGED conn
  PROVE  LinksSettle
<1>1. \A h \in Handles : LinkSettles(h)
  BY DEF ClosePrevious, LinkSettles, HandlesTyped
<1>2. \A q \in Players : RejoinStays(q)
  BY DEF ClosePrevious, RejoinStays, HandlesTyped, NoRejoin
<1> QED BY <1>1, <1>2 DEF LinksSettle

LEMMA SameSettles ==
  ASSUME UNCHANGED << conn, link, rejoin >>
  PROVE  LinksSettle
BY DEF LinksSettle, LinkSettles, RejoinStays

LEMMA StepsOfLinks ==
  ASSUME HandlesTyped, [Next]_vars
  PROVE  LinkKinds
<1>1. CASE UNCHANGED vars
  BY <1>1, SameSettles DEF vars, connections, LinkKinds
<1>2. ASSUME NEW h \in Handles, Command(h) \/ Handler(h) \/ NotifyPending(h) PROVE LinkKinds
  BY <1>2, SameSettles DEF Command, Handler, Enqueue, PracticeMatch, CancelMatch, LeaveRoom,
     EnterOtherRoom, LeaveOtherRoom, PublishQueued, SendQueued, NotifyPending, LinkKinds
<1>3. ASSUME NEW h \in Handles, LoseLink(h) \/ Departure(h) PROVE LinkKinds
 <2>1. CASE LoseLink(h) \/ Vanish(h) \/ GoOffline(h)
  <3>1. UNCHANGED << conn, rejoin >>
    BY <2>1 DEF LoseLink, Vanish, GoOffline
  <3>2. PICK l \in {"closed", "gone", "offline"} :
          link' = [link EXCEPT ![h] = l] /\ link[h] # "unborn"
          /\ (l = "closed" => link[h] = "open")
    BY <2>1 DEF LoseLink, Vanish, GoOffline
  <3>3. \A g \in Handles : LinkSettles(g)
    BY <3>2 DEF LinkSettles, HandlesTyped
  <3> QED BY <3>1, <3>3 DEF LinkKinds, LinksSettle, RejoinStays
 <2> QED BY <1>3, <2>1 DEF Departure, LinkKinds
<1>4. ASSUME NEW p \in Players,
             RebindClient(p) \/ Reconnect(p) \/ Expire(p) \/ NotifyExpired(p)
      PROVE  LinkKinds
 <2>1. CASE Reseat(p)
  <3>1. CASE rejoin' = [rejoin EXCEPT ![p].step = "seated"] /\ UNCHANGED << conn, link >>
   <4>1. rejoin[p].step = "rebound"
     BY <2>1 DEF Reseat
   <4>2. \A q \in Players : RejoinStays(q)
     BY <3>1, <4>1 DEF RejoinStays, HandlesTyped, RejoinRecord
   <4> QED BY <3>1, <4>2 DEF LinkKinds, LinksSettle, LinkSettles
  <3>2. CASE Undoes(p)
    BY <3>2 DEF LinkKinds
  <3> QED BY <2>1, <3>1, <3>2 DEF Reseat, Undoes
 <2>2. CASE ReplaceClient(p)
  <3>1. CASE ClosePrevious(p)
    BY <2>2, <3>1, ClosePreviousSettles DEF ReplaceClient, LinkKinds
  <3>2. CASE rejoin' = [rejoin EXCEPT ![p].step = "migrated"] /\ UNCHANGED link
   <4>1. rejoin[p].step = "seated" /\ UNCHANGED conn
     BY <2>2 DEF ReplaceClient
   <4>2. \A q \in Players : RejoinStays(q)
     BY <3>2, <4>1 DEF RejoinStays, HandlesTyped, RejoinRecord
   <4> QED BY <3>2, <4>1, <4>2 DEF LinkKinds, LinksSettle, LinkSettles
  <3> QED BY <2>2, <3>1, <3>2 DEF ReplaceClient
 <2>3. CASE SendMigrated(p)
   BY <2>3, ClosePreviousSettles DEF SendMigrated, LinkKinds
 <2>4. CASE RestoreSession(p) \/ Expire(p) \/ NotifyExpired(p)
   BY <2>4, SameSettles DEF RestoreSession, Expire, NotifyExpired, connections, LinkKinds
 <2> QED BY <1>4, <2>1, <2>2, <2>3, <2>4 DEF Reconnect, LinkKinds
<1>5. ASSUME NEW a \in Attempts, \/ Worker(a) \/ Removal(a) \/ ExpireBots(a)
                                 \/ EndGame(a) \/ TimeOutRoom(a)
      PROVE  LinkKinds
  BY <1>5, SameSettles DEF Worker, TakeLease, Assemble, Commit, ReadyAllAndStart, CommitAttempt,
     PublishJoined, RegisterSession, StartSession, ReleaseWithdrawn, RollbackRoom,
     NotifyRolledBack, Release, Removal, DispatchRemoval, CloseRoom, ExpireBots, EndGame,
     TimeOutRoom, connections, LinkKinds
<1>6. CASE ClaimBotFill \/ CommitBotFill \/ Drain \/ Resume \/ Close
  BY <1>6, SameSettles DEF ClaimBotFill, CommitBotFill, Drain, Resume, Close, connections,
     LinkKinds
<1> QED BY <1>1, <1>2, <1>3, <1>4, <1>5, <1>6 DEF Next

\* A connection that was made stays so.
LEMMA BornStaysBorn ==
  ASSUME HandlesTyped, LinksInOrder, LinkKinds, NEW h \in Handles, link[h] # "unborn"
  PROVE  link'[h] # "unborn"
<1>1. ASSUME NEW p \in Players, RebindClient(p) PROVE link'[h] # "unborn"
 <2>1. PICK g \in 1..Links[p] : link' = [link EXCEPT ![<< p, g >>] = "open"]
   BY <1>1, RebindIsNext
 <2> QED BY <2>1 DEF HandlesTyped
<1>2. ASSUME NEW p \in Players, Undoes(p) PROVE link'[h] # "unborn"
  BY <1>2 DEF Undoes, HandlesTyped
<1>3. ASSUME NEW g \in Handles, Disconnect(g) PROVE link'[h] # "unborn"
  BY <1>3 DEF Disconnect, HandlesTyped
<1> QED BY <1>1, <1>2, <1>3 DEF LinkKinds, LinksSettle, LinkSettles

LEMMA SettledLinks ==
  ASSUME HandlesTyped, LinksInv, LinksSettle
  PROVE  LinksInv'
<1>1. \A p \in Players : \A n \in 1..Links[p] : LinkSettles(<< p, n >>)
  BY HandleOf DEF LinksSettle
<1>2. \A p \in Players : \A n \in Nat : LastBorn(p, n)' <=> LastBorn(p, n)
  BY <1>1 DEF LastBorn, LinkSettles
<1>3. LinksInOrder'
  BY <1>1 DEF LinksInv, LinksInOrder, LinkSettles
<1>4. Registered'
  BY <1>1, <1>2, LinksNat DEF LinksInv, Registered, LinksSettle, LinkSettles
<1>5. ASSUME NEW p \in Players, conn'[p] # 0 PROVE link'[<< p, conn'[p] >>] # "unborn"
 <2>1. conn'[p] = conn[p] /\ conn[p] \in 1..Links[p]
   BY <1>5, LinksNat DEF LinksSettle, HandlesTyped
 <2>2. link[<< p, conn[p] >>] # "unborn"
   BY <2>1, <1>5 DEF LinksInv, BornConns
 <2> QED BY <1>1, <2>1, <2>2 DEF LinkSettles
<1>6. ASSUME NEW p \in Players, rejoin'[p].step # "none" PROVE TakesOver(p)'
 <2>1. /\ rejoin[p].step # "none" /\ conn'[p] = conn[p]
       /\ rejoin'[p].gen = rejoin[p].gen /\ rejoin'[p].previous = rejoin[p].previous
   BY <1>6 DEF LinksSettle, RejoinStays
 <2>2. TakesOver(p) /\ rejoin[p].gen \in Nat
   BY <2>1, LinksNat DEF LinksInv, TakeoversFit, HandlesTyped
 <2>3. LastBorn(p, rejoin[p].gen)'
   BY <1>1, <2>1, <2>2 DEF LastBorn, LinkSettles, TakesOver
 <2> QED BY <2>1, <2>2, <2>3 DEF TakesOver, LastBorn
<1> QED BY <1>3, <1>4, <1>5, <1>6 DEF LinksInv, BornConns, TakeoversFit

LEMMA DisconnectedLinks ==
  ASSUME HandlesTyped, LinksInv, NEW h \in Handles, Disconnect(h)
  PROVE  LinksInv'
<1>0. /\ h[1] \in Players /\ h[2] \in 1..Links[h[1]] /\ h = << h[1], h[2] >>
      /\ h[2] \in Nat /\ h[2] # 0
  BY Handle
<1>01. PICK q \in Players : q = h[1]
  BY <1>0
<1>1. PICK k \in 1..Links[q] : h = << q, k >> /\ q = h[1] /\ k = h[2]
  BY <1>0, <1>01
<1>2. /\ conn' = [conn EXCEPT ![q] = 0] /\ link' = [link EXCEPT ![<< q, k >>] = "leaving"]
      /\ link[<< q, k >>] = "closed" /\ conn[q] = k /\ rejoin' = rejoin
      /\ ~(rejoin[q].step # "none" /\ rejoin[q].gen = k)
  BY <1>1 DEF Disconnect, InHandler
<1>3. \A p \in Players : \A n \in 1..Links[p] :
        link'[<< p, n >>] = IF p = q /\ n = k THEN "leaving" ELSE link[<< p, n >>]
  BY <1>2, HandleOf DEF HandlesTyped
<1>4. \A p \in Players : conn'[p] = IF p = q THEN 0 ELSE conn[p]
  BY <1>2 DEF HandlesTyped
<1>5. ASSUME NEW p \in Players, NEW n \in 1..Links[p]
      PROVE  link'[<< p, n >>] = "unborn" <=> link[<< p, n >>] = "unborn"
 <2>1. CASE p = q /\ n = k
   BY <1>2, <1>3, <2>1
 <2>2. CASE ~(p = q /\ n = k)
   BY <1>3, <2>2
 <2> QED BY <2>1, <2>2
<1>6. \A p \in Players : \A n \in Nat : LastBorn(p, n)' <=> LastBorn(p, n)
  BY <1>5 DEF LastBorn
<1>7. LinksInOrder'
  BY <1>5 DEF LinksInv, LinksInOrder
<1>8. Registered'
  BY <1>2, <1>3, <1>4, <1>6, LinksNat DEF LinksInv, Registered
<1>9. ASSUME NEW p \in Players, conn'[p] # 0 PROVE link'[<< p, conn'[p] >>] # "unborn"
 <2>1. conn'[p] = conn[p] /\ conn[p] \in 1..Links[p]
   BY <1>4, <1>9, LinksNat DEF HandlesTyped
 <2>2. link[<< p, conn[p] >>] # "unborn"
   BY <2>1, <1>9 DEF LinksInv, BornConns
 <2> QED BY <1>5, <2>1, <2>2
<1>10. ASSUME NEW p \in Players, rejoin'[p].step # "none" PROVE TakesOver(p)'
 <2>1. TakesOver(p) /\ rejoin[p].gen \in Nat
   BY <1>2, <1>10, LinksNat DEF LinksInv, TakeoversFit, HandlesTyped
 <2>2. p # q
   BY <1>2, <1>10, <2>1 DEF TakesOver
 <2>3. LastBorn(p, rejoin[p].gen)'
   BY <1>2, <1>5, <2>1 DEF LastBorn, TakesOver
 <2> QED BY <1>2, <1>4, <2>1, <2>2, <2>3 DEF TakesOver, LastBorn
<1> QED BY <1>7, <1>8, <1>9, <1>10 DEF LinksInv, BornConns, TakeoversFit

LEMMA ReboundLinks ==
  ASSUME HandlesTyped, LinksInv, NEW q \in Players, RebindClient(q)
  PROVE  LinksInv'
<1>1. PICK g \in 1..Links[q] :
        /\ \A n \in 1..Links[q] : link[<< q, n >>] = "unborn" <=> n >= g
        /\ conn' = [conn EXCEPT ![q] = g] /\ link' = [link EXCEPT ![<< q, g >>] = "open"]
        /\ rejoin'[q].step = "rebound" /\ rejoin'[q].gen = g
        /\ rejoin'[q].previous = conn[q]
  BY RebindIsNext DEF LinksInv
<1>2. \A p \in Players : p # q => rejoin'[p] = rejoin[p]
  BY DEF RebindClient, HandlesTyped
<1>3. \A p \in Players : \A n \in 1..Links[p] :
        link'[<< p, n >>] = IF p = q /\ n = g THEN "open" ELSE link[<< p, n >>]
  BY <1>1, HandleOf DEF HandlesTyped
<1>4. \A p \in Players : conn'[p] = IF p = q THEN g ELSE conn[p]
  BY <1>1 DEF HandlesTyped
<1>5. g \in Nat /\ Links[q] \in Nat
  BY LinksNat
<1>6. \A n \in 1..Links[q] : link'[<< q, n >>] = "unborn" <=> n > g
  BY <1>1, <1>3, <1>5
<1>7. ASSUME NEW p \in Players, p # q
      PROVE  /\ \A n \in 1..Links[p] : link'[<< p, n >>] = link[<< p, n >>]
             /\ conn'[p] = conn[p] /\ rejoin'[p] = rejoin[p]
             /\ \A n \in Nat : LastBorn(p, n)' <=> LastBorn(p, n)
  BY <1>2, <1>3, <1>4, <1>7 DEF LastBorn
<1>8. LinksInOrder'
 <2>1. ASSUME NEW p \in Players
       PROVE  \E k \in 1..Links[p] : \A n \in 1..Links[p] : link'[<< p, n >>] = "unborn" <=> n > k
  <3>1. CASE p = q
    BY <1>6, <3>1
  <3>2. CASE p # q
    BY <1>7, <3>2 DEF LinksInv, LinksInOrder
  <3> QED BY <3>1, <3>2
 <2> QED BY <2>1 DEF LinksInOrder
<1>9. ASSUME NEW p \in Players, NEW n \in 1..Links[p],
             link'[<< p, n >>] \in {"open", "closed"}, LastBorn(p, n)'
      PROVE  conn'[p] = n
 <2>1. CASE p = q
  <3>1. n \in 1..Links[q] /\ link'[<< q, n >>] # "unborn" /\ link'[<< q, g >>] # "unborn"
    BY <1>3, <1>9, <2>1
  <3>2. ~(g > n)
    BY <1>9, <2>1, <3>1 DEF LastBorn
  <3>3. ~(n > g)
    BY <1>6, <3>1
  <3>4. n = g
    BY <1>5, <3>1, <3>2, <3>3
  <3> QED BY <1>4, <2>1, <3>4
 <2>2. CASE p # q
   BY <1>7, <1>9, <2>2, LinksNat DEF LinksInv, Registered
 <2> QED BY <2>1, <2>2
<1>10. ASSUME NEW p \in Players, conn'[p] # 0 PROVE link'[<< p, conn'[p] >>] # "unborn"
 <2>1. CASE p = q
   BY <1>3, <1>4, <2>1
 <2>2. CASE p # q
  <3>1. conn'[p] = conn[p] /\ conn[p] \in 1..Links[p]
    BY <1>4, <1>10, <2>2, LinksNat DEF HandlesTyped
  <3> QED BY <1>7, <1>10, <2>2, <3>1 DEF LinksInv, BornConns
 <2> QED BY <2>1, <2>2
<1>11. ASSUME NEW p \in Players, rejoin'[p].step # "none" PROVE TakesOver(p)'
 <2>1. CASE p = q
  <3>1. conn[q] \in 0..Links[q]
    BY DEF HandlesTyped
  <3>2. conn[q] < g
   <4>1. CASE conn[q] = 0
     BY <1>5, <4>1
   <4>2. CASE conn[q] # 0
    <5>1. link[<< q, conn[q] >>] # "unborn" /\ conn[q] \in 1..Links[q]
      BY <1>5, <3>1, <4>2 DEF LinksInv, BornConns
    <5> QED BY <1>1, <1>5, <5>1
   <4> QED BY <4>1, <4>2
  <3>3. LastBorn(q, g)'
    BY <1>6 DEF LastBorn
  <3> QED BY <1>1, <1>4, <2>1, <3>2, <3>3 DEF TakesOver, LastBorn
 <2>2. CASE p # q
  <3>1. TakesOver(p) /\ rejoin[p].gen \in Nat
    BY <1>7, <1>11, <2>2, LinksNat DEF LinksInv, TakeoversFit, HandlesTyped
  <3> QED BY <1>7, <2>2, <3>1 DEF TakesOver, LastBorn
 <2> QED BY <2>1, <2>2
<1> QED BY <1>8, <1>9, <1>10, <1>11 DEF LinksInv, Registered, BornConns, TakeoversFit

LEMMA UndoneLinks ==
  ASSUME HandlesTyped, LinksInv, NEW q \in Players, Undoes(q)
  PROVE  LinksInv'
<1>1. PICK g \in 1..Links[q] : g = rejoin[q].gen
  BY DEF Undoes, HandlesTyped
<1>2. PICK c \in 0..Links[q] : c = rejoin[q].previous
  BY DEF Undoes, HandlesTyped
<1>3. g \in Nat /\ c \in Nat /\ Links[q] \in Nat
  BY LinksNat
<1>4. conn[q] = g /\ c < g /\ LastBorn(q, g)
  BY <1>1, <1>2 DEF LinksInv, TakeoversFit, TakesOver, Undoes
<1>5. link[<< q, g >>] # "unborn"
  BY <1>1, <1>3, <1>4 DEF LinksInv, BornConns
<1>6. \A p \in Players : p # q => rejoin'[p] = rejoin[p]
  BY DEF Undoes, HandlesTyped
<1>7. \A p \in Players : \A n \in 1..Links[p] :
        link'[<< p, n >>] = IF p = q /\ n = g THEN "gone" ELSE link[<< p, n >>]
  BY <1>1, HandleOf DEF Undoes, HandlesTyped
<1>8. \A p \in Players : conn'[p] = IF p = q THEN c ELSE conn[p]
  BY <1>2 DEF Undoes, HandlesTyped
<1>9. rejoin'[q].step = "none"
  BY DEF Undoes, HandlesTyped, NoRejoin
<1>10. \A p \in Players : \A n \in 1..Links[p] : link'[<< p, n >>] = "unborn" <=> link[<< p, n >>] = "unborn"
  BY <1>5, <1>7
<1>11. \A p \in Players : \A n \in Nat : LastBorn(p, n)' <=> LastBorn(p, n)
  BY <1>10 DEF LastBorn
<1>12. LinksInOrder'
  BY <1>10 DEF LinksInv, LinksInOrder
<1>13. ASSUME NEW p \in Players, NEW n \in 1..Links[p],
              link'[<< p, n >>] \in {"open", "closed"}, LastBorn(p, n)'
       PROVE  conn'[p] = n
 <2>0. n \in Nat /\ LastBorn(p, n)
   BY <1>11, <1>13, LinksNat
 <2>1. CASE p = q
  <3>1. n # g
    BY <1>7, <1>13, <2>1
  <3>2. ~(g > n)
    BY <1>5, <2>0, <2>1 DEF LastBorn
  <3>3. n > g
    BY <1>3, <2>0, <3>1, <3>2
  <3>4. link[<< p, n >>] = "unborn"
    BY <1>4, <2>1, <3>3 DEF LastBorn
  <3> QED BY <1>7, <1>13, <3>4
 <2>2. CASE p # q
   BY <1>7, <1>8, <1>13, <2>0, <2>2 DEF LinksInv, Registered
 <2> QED BY <2>1, <2>2
<1>14. ASSUME NEW p \in Players, conn'[p] # 0 PROVE link'[<< p, conn'[p] >>] # "unborn"
 <2>1. CASE p = q
  <3>1. conn'[q] = c /\ c \in 1..Links[q]
    BY <1>3, <1>8, <1>14, <2>1
  <3>2. PICK k \in 1..Links[q] : \A n \in 1..Links[q] : link[<< q, n >>] = "unborn" <=> n > k
    BY DEF LinksInv, LinksInOrder
  <3>3. k \in Nat /\ ~(g > k)
    BY <1>5, <3>2, LinksNat
  <3>4. link[<< q, c >>] # "unborn"
    BY <1>3, <1>4, <3>1, <3>2, <3>3
  <3> QED BY <1>10, <2>1, <3>1, <3>4
 <2>2. CASE p # q
  <3>1. conn'[p] = conn[p] /\ conn[p] \in 1..Links[p]
    BY <1>8, <1>14, <2>2, LinksNat DEF HandlesTyped
  <3> QED BY <1>10, <1>14, <3>1 DEF LinksInv, BornConns
 <2> QED BY <2>1, <2>2
<1>15. ASSUME NEW p \in Players, rejoin'[p].step # "none" PROVE TakesOver(p)'
 <2>1. p # q /\ rejoin'[p] = rejoin[p]
   BY <1>6, <1>9, <1>15
 <2>2. TakesOver(p) /\ rejoin[p].gen \in Nat
   BY <1>15, <2>1, LinksNat DEF LinksInv, TakeoversFit, HandlesTyped
 <2>3. LastBorn(p, rejoin[p].gen)'
   BY <1>10, <2>1, <2>2 DEF LastBorn, TakesOver
 <2> QED BY <1>8, <2>1, <2>2, <2>3 DEF TakesOver, LastBorn
<1> QED BY <1>12, <1>13, <1>14, <1>15 DEF LinksInv, Registered, BornConns, TakeoversFit

LEMMA LinksStayFit ==
  ASSUME HandlesTyped, LinksInv, LinkKinds
  PROVE  LinksInv'
BY SettledLinks, DisconnectedLinks, ReboundLinks, UndoneLinks DEF LinkKinds

-----------------------------------------------------------------------------
(* Whom a step tells that he is queued, and whose command it begins        *)

ToldMoves(h) ==
  told'[h] # told[h] /\ told'[h] # "nothing" =>
    \/ SendQueued(h)
    \/ \E p \in Players : SendMigrated(p) /\ h = << p, rejoin[p].gen >>
DoingMoves(h) ==
  doing'[h] # doing[h] /\ doing'[h] # "idle" =>
    \/ Enqueue(h) \/ PracticeMatch(h)
    \/ PublishQueued(h) /\ doing'[h] = "sending"

LEMMA OnlyTheyTell ==
  ASSUME HandlesTyped, [Next]_vars, NEW h \in Handles
  PROVE  ToldMoves(h)
<1> SUFFICES ASSUME told'[h] # told[h], told'[h] # "nothing" PROVE ToldMoves(h)
  BY DEF ToldMoves
<1>1. ToldTyped
  BY TypedParts
<1>2. ~UNCHANGED told
  OBVIOUS
<1>3. ~UNCHANGED vars
  BY <1>2 DEF vars, connections
<1>4. ASSUME NEW g \in Handles, Command(g) \/ Handler(g) PROVE ToldMoves(h)
 <2>1. CASE SendQueued(g)
  <3>1. PICK what \in {"queued", "stale"} : Hears(g, what)
    BY <2>1 DEF SendQueued
  <3>2. g = h
    BY <1>1, <3>1, HearsOne
  <3> QED BY <2>1, <3>2 DEF ToldMoves
 <2>2. CASE CancelMatch(g) \/ LeaveRoom(g) \/ EnterOtherRoom(g)
  <3>1. told' = [told EXCEPT ![g] = "nothing"]
    BY <2>2 DEF CancelMatch, LeaveRoom, EnterOtherRoom
  <3> QED BY <1>1, <3>1 DEF ToldTyped
 <2>3. CASE Enqueue(g) \/ PracticeMatch(g) \/ LeaveOtherRoom(g) \/ PublishQueued(g)
   BY <1>2, <2>3 DEF Enqueue, PracticeMatch, LeaveOtherRoom, PublishQueued
 <2> QED BY <1>4, <2>1, <2>2, <2>3 DEF Command, Handler
<1>5. ASSUME NEW g \in Handles, LoseLink(g) \/ Departure(g) \/ NotifyPending(g)
      PROVE  ToldMoves(h)
 <2>1. CASE LoseLink(g)
  <3>1. told' = [told EXCEPT ![g] = "nothing"]
    BY <2>1 DEF LoseLink
  <3> QED BY <1>1, <3>1 DEF ToldTyped
 <2>2. CASE Departure(g)
   BY <1>2, <2>2 DEF Departure, Vanish, Disconnect, GoOffline
 <2>3. CASE NotifyPending(g)
  <3>1. Hears(g, "nothing")
    BY <2>3 DEF NotifyPending
  <3> QED BY <1>1, <3>1, HearsOne
 <2> QED BY <1>5, <2>1, <2>2, <2>3
<1>6. ASSUME NEW p \in Players,
             RebindClient(p) \/ Reconnect(p) \/ Expire(p) \/ NotifyExpired(p)
      PROVE  ToldMoves(h)
 <2>1. CASE SendMigrated(p)
  <3>1. PICK g : g = << p, rejoin[p].gen >>
    OBVIOUS
  <3>2. PICK what \in {"queued", "stale"} : Hears(g, what)
    BY <2>1, <3>1 DEF SendMigrated
  <3>3. g = h
    BY <1>1, <3>2, HearsOne
  <3> QED BY <2>1, <3>1, <3>3 DEF ToldMoves
 <2>2. CASE NotifyExpired(p)
  <3>1. PICK g : g = << p, entry[p].client >>
    OBVIOUS
  <3>2. UNCHANGED told \/ Hears(g, "nothing")
    BY <2>2, <3>1 DEF NotifyExpired
  <3> QED BY <1>1, <1>2, <3>2, HearsOne
 <2>3. CASE RestoreSession(p) \/ RebindClient(p) \/ Reseat(p) \/ ReplaceClient(p) \/ Expire(p)
   BY <1>2, <2>3 DEF RestoreSession, RebindClient, Reseat, ReplaceClient, Expire, connections
 <2> QED BY <1>6, <2>1, <2>2, <2>3 DEF Reconnect
<1>7. ASSUME NEW a \in Attempts, \/ Worker(a) \/ Removal(a) \/ ExpireBots(a)
                                 \/ EndGame(a) \/ TimeOutRoom(a)
      PROVE  ToldMoves(h)
 <2>1. CASE NotifyRolledBack(a)
  <3>1. PICK g : g = att[a].humans[att[a].step]
    OBVIOUS
  <3>2. UNCHANGED told \/ Hears(g, "nothing")
    BY <2>1, <3>1 DEF NotifyRolledBack
  <3> QED BY <1>1, <1>2, <3>2, HearsOne
 <2>2. CASE DispatchRemoval(a)
  <3>1. told'[h] \in {"nothing", told[h]}
    BY <2>2 DEF DispatchRemoval
  <3> QED BY <3>1
 <2>3. CASE PublishJoined(a)
  <3>1. PICK g : told' = [told EXCEPT ![g] = "nothing"] \/ UNCHANGED told
    BY <2>3 DEF PublishJoined
  <3> QED BY <1>1, <3>1 DEF ToldTyped
 <2>4. CASE ~NotifyRolledBack(a) /\ ~DispatchRemoval(a) /\ ~PublishJoined(a)
   BY <1>2, <1>7, <2>4 DEF Worker, TakeLease, Assemble, Commit, ReadyAllAndStart, CommitAttempt,
      RegisterSession, StartSession, ReleaseWithdrawn, RollbackRoom, Release,
      Removal, CloseRoom, ExpireBots, EndGame, TimeOutRoom, connections
 <2> QED BY <2>1, <2>2, <2>3, <2>4
<1>8. ~(ClaimBotFill \/ CommitBotFill \/ Drain \/ Resume \/ Close)
  BY <1>2 DEF ClaimBotFill, CommitBotFill, Drain, Resume, Close, connections
<1> QED BY <1>3, <1>4, <1>5, <1>6, <1>7, <1>8 DEF Next

LEMMA OnlyTheyBegin ==
  ASSUME HandlesTyped, [Next]_vars, NEW h \in Handles
  PROVE  DoingMoves(h)
<1> SUFFICES ASSUME doing'[h] # doing[h], doing'[h] # "idle" PROVE DoingMoves(h)
  BY DEF DoingMoves
<1>1. DoingTyped
  BY TypedParts
<1>2. ~UNCHANGED doing
  OBVIOUS
<1>3. ~UNCHANGED vars
  BY <1>2 DEF vars, connections
<1>4. ASSUME NEW g \in Handles, Command(g) \/ Handler(g) PROVE DoingMoves(h)
 <2>1. CASE Enqueue(g) \/ PracticeMatch(g)
  <3>1. g = h
    BY <1>1, <2>1 DEF Enqueue, PracticeMatch, DoingTyped
  <3> QED BY <2>1, <3>1 DEF DoingMoves
 <2>2. CASE PublishQueued(g)
  <3>1. g = h /\ doing'[h] = "sending"
    BY <1>1, <2>2 DEF PublishQueued, DoingTyped
  <3> QED BY <2>2, <3>1 DEF DoingMoves
 <2>3. CASE SendQueued(g)
   BY <1>1, <2>3 DEF SendQueued, DoingTyped
 <2>4. CASE CancelMatch(g) \/ LeaveRoom(g) \/ EnterOtherRoom(g) \/ LeaveOtherRoom(g)
   BY <1>2, <2>4 DEF CancelMatch, LeaveRoom, EnterOtherRoom, LeaveOtherRoom
 <2> QED BY <1>4, <2>1, <2>2, <2>3, <2>4 DEF Command, Handler
<1>5. ~\E g \in Handles : LoseLink(g) \/ Departure(g) \/ NotifyPending(g)
  BY <1>2 DEF LoseLink, Departure, Vanish, Disconnect, GoOffline, NotifyPending
<1>6. ~\E p \in Players : RebindClient(p) \/ Reconnect(p) \/ Expire(p) \/ NotifyExpired(p)
  BY <1>2 DEF RestoreSession, RebindClient, Reconnect, Reseat, ReplaceClient, SendMigrated,
     Expire, NotifyExpired, connections
<1>7. ~\E a \in Attempts : Worker(a) \/ Removal(a) \/ ExpireBots(a) \/ EndGame(a) \/ TimeOutRoom(a)
  BY <1>2 DEF Worker, TakeLease, Assemble, Commit, ReadyAllAndStart, CommitAttempt, PublishJoined,
     RegisterSession, StartSession, ReleaseWithdrawn, RollbackRoom, NotifyRolledBack, Release,
     Removal, DispatchRemoval, CloseRoom, ExpireBots, EndGame, TimeOutRoom, connections
<1>8. ~(ClaimBotFill \/ CommitBotFill \/ Drain \/ Resume \/ Close)
  BY <1>2 DEF ClaimBotFill, CommitBotFill, Drain, Resume, Close, connections
<1> QED BY <1>3, <1>4, <1>5, <1>6, <1>7, <1>8 DEF Next

\* A connection that is still to come, or that has not taken over yet, was told
\* nothing and has nothing under way.
Quiets(h) == told[h] = "nothing" /\ doing[h] = "idle"
FreshInv ==
  /\ \A h \in Handles : link[h] = "unborn" => Quiets(h) /\ ~Owns(h)
  /\ \A p \in Players : \A n \in 1..Links[p] :
       rejoin[p].step # "none" /\ rejoin[p].gen = n =>
         /\ Quiets(<< p, n >>)
         /\ rejoin[p].step \in {"rebound", "seated"} => entry[p].client # n

\* The connection that takes over is one that was made.
LEMMA TakeoverIs ==
  ASSUME HandlesTyped, LinksInv, NEW p \in Players, rejoin[p].step # "none"
  PROVE  \E g \in 1..Links[p] :
           /\ g = rejoin[p].gen /\ conn[p] = g /\ link[<< p, g >>] # "unborn" /\ LastBorn(p, g)
           /\ << p, g >> \in Handles
<1>1. PICK g \in 1..Links[p] : g = rejoin[p].gen
  BY DEF HandlesTyped
<1>2. conn[p] = g /\ LastBorn(p, g) /\ g # 0
  BY <1>1, LinksNat DEF LinksInv, TakeoversFit, TakesOver
<1>3. link[<< p, g >>] # "unborn"
  BY <1>2 DEF LinksInv, BornConns
<1> QED BY <1>1, <1>2, <1>3, HandleOf

\* Who neither acts nor takes over stays quiet.
LEMMA QuietStays ==
  ASSUME HandlesTyped, [Next]_vars, NEW h \in Handles, Quiets(h), ~CanAct(h),
         ~\E p \in Players : h = << p, rejoin[p].gen >> /\ SendMigrated(p)
  PROVE  Quiets(h)'
<1>1. told'[h] = "nothing"
  BY OnlyTheyTell DEF ToldMoves, Quiets, SendQueued
<1>2. doing'[h] = "idle"
  BY OnlyTheyBegin DEF DoingMoves, Quiets, Enqueue, PracticeMatch, MayRequest, PublishQueued
<1> QED BY <1>1, <1>2 DEF Quiets

LEMMA FreshStays ==
  ASSUME MatcherInv, LinksInv, FreshInv, [Next]_vars
  PROVE  FreshInv'
<1>0. HandlesTyped /\ RequestsFit /\ LinkKinds /\ LinksInOrder
  BY StepsOfLinks DEF MatcherInv, Reserved, LinksInv
<1>1. ASSUME NEW h \in Handles, link'[h] = "unborn" PROVE Quiets(h)' /\ ~Owns(h)'
 <2>1. link[h] = "unborn"
   BY <1>0, <1>1, BornStaysBorn
 <2>2. Quiets(h) /\ ~Owns(h) /\ ~CanAct(h)
   BY <2>1 DEF FreshInv, CanAct
 <2>3. ASSUME NEW p \in Players, rejoin[p].step # "none" PROVE h # << p, rejoin[p].gen >>
   BY <1>0, <2>1, <2>3, TakeoverIs
 <2>4. ~\E p \in Players : h = << p, rejoin[p].gen >> /\ SendMigrated(p)
   BY <2>3 DEF SendMigrated
 <2>5. Quiets(h)'
   BY <1>0, <2>2, <2>4, QuietStays
 <2>6. PICK p \in Players, n \in Nat : h = << p, n >> /\ n # 0 /\ p = h[1] /\ n = h[2]
   BY Handle
 <2>7. entry'[p].client # n
  <3>1. ClientMoves(p)
    BY <1>0, StepMovesClients
  <3>2. ~CanAct(<< p, n >>) /\ entry[p].client # n /\ (rejoin[p].step = "seated" => rejoin[p].gen # n)
    BY <2>2, <2>3, <2>6 DEF Owns
  <3> QED BY <2>6, <3>1, <3>2 DEF ClientMoves, SameClient
 <2> QED BY <2>5, <2>6, <2>7 DEF Owns
<1>2. ASSUME NEW p \in Players, NEW k \in 1..Links[p],
             rejoin'[p].step # "none", rejoin'[p].gen = k
      PROVE  /\ Quiets(<< p, k >>)'
             /\ rejoin'[p].step \in {"rebound", "seated"} => entry'[p].client # k
 <2>1. CASE RebindClient(p)
  <3>1. PICK g \in 1..Links[p] :
          /\ \A n \in 1..Links[p] : link[<< p, n >>] = "unborn" <=> n >= g
          /\ rejoin'[p].gen = g
    BY <1>0, <2>1, RebindIsNext
  <3>2. link[<< p, g >>] = "unborn" /\ << p, g >> \in Handles
    BY <3>1, HandleOf, LinksNat
  <3>3. Quiets(<< p, g >>) /\ entry[p].client # g
    BY <3>2 DEF FreshInv, Owns
  <3>4. UNCHANGED << told, doing, entry >>
    BY <2>1 DEF RebindClient, requests
  <3>5. g = k
    BY <1>2, <3>1
  <3> QED BY <3>3, <3>4, <3>5 DEF Quiets
 <2>2. CASE ~RebindClient(p)
  <3>1. /\ rejoin[p].step # "none" /\ rejoin'[p].gen = rejoin[p].gen
        /\ rejoin'[p].step \in {"rebound", "seated"} => rejoin[p].step \in {"rebound", "seated"}
   <4>1. CASE LinksSettle
     BY <1>2, <4>1 DEF LinksSettle, RejoinStays
   <4>2. ASSUME NEW q \in Players, RebindClient(q) PROVE rejoin'[p] = rejoin[p]
    <5>1. q # p
      BY <2>2, <4>2
    <5> QED BY <1>0, <4>2, <5>1 DEF RebindClient, HandlesTyped
   <4>3. ASSUME NEW q \in Players, Undoes(q) PROVE rejoin'[p] = rejoin[p]
     BY <1>0, <1>2, <4>3 DEF Undoes, HandlesTyped, NoRejoin
   <4>4. ASSUME NEW h \in Handles, Disconnect(h) PROVE rejoin'[p] = rejoin[p]
     BY <4>4 DEF Disconnect
   <4> QED BY <1>0, <1>2, <4>1, <4>2, <4>3, <4>4 DEF LinkKinds
  <3>2. PICK g \in 1..Links[p] : g = rejoin[p].gen /\ << p, g >> \in Handles
    BY <1>0, <3>1, TakeoverIs
  <3>3. /\ Quiets(<< p, g >>) /\ ~CanAct(<< p, g >>)
        /\ rejoin[p].step \in {"rebound", "seated"} => entry[p].client # g
    BY <3>1, <3>2 DEF FreshInv, CanAct, InHandler, Owns
  <3>4. ASSUME NEW q \in Players, << p, g >> = << q, rejoin[q].gen >>, SendMigrated(q)
        PROVE  FALSE
   <4>1. q = p
     BY <3>4
   <4>2. rejoin' = [rejoin EXCEPT ![p] = NoRejoin]
     BY <3>4, <4>1 DEF SendMigrated, ClosePrevious
   <4> QED BY <1>0, <1>2, <4>2 DEF HandlesTyped, NoRejoin
  <3>5. Quiets(<< p, g >>)'
    BY <1>0, <3>2, <3>3, <3>4, QuietStays
  <3>6. rejoin'[p].step \in {"rebound", "seated"} => entry'[p].client # g
   <4>1. ClientMoves(p) /\ g # 0
     BY <1>0, StepMovesClients, LinksNat
   <4> QED BY <3>1, <3>2, <3>3, <4>1 DEF ClientMoves, SameClient
  <3>7. g = k
    BY <1>2, <3>1, <3>2
  <3> QED BY <3>5, <3>6, <3>7
 <2> QED BY <2>1, <2>2
<1> QED BY <1>1, <1>2 DEF FreshInv

-----------------------------------------------------------------------------
(* What an attempt has still to say, and to whom                           *)

Early == {"frozen", "assemble", "commit", "ready", "settle", "rollback"}
Seated == {"ready", "settle", "rollback"}

\* The worker's loops begin with the first human, a room that is dropped has
\* its leavers, and one that is about to start is not left.
AttFit(x) ==
  /\ x.stage \notin {"publish", "notify", "withdraw"} => x.step = 1
  /\ x.room # "dropped" => x.left = {}
  /\ x.stage = "settle" => x.room # "waiting"
AttemptsFit == \A a \in Attempts : AttFit(att[a])

\* A step that takes nothing from those who wait for the attempt.
Calm(x, y) ==
  /\ x.left \subseteq y.left
  /\ x.stage \in Early => y.stage \in Early
  /\ x.stage \in Seated => y.stage \in Seated
  /\ x.stage \in {"notify", "publish"} =>
       y.stage = x.stage /\ y.step = x.step /\ y.humans = x.humans
\* A step that excuses nobody but the players of S.
Spares(x, y, S) ==
  y.stage \in ListedStages /\ y.excused \in Players \ S =>
    x.stage \in ListedStages /\ x.excused = y.excused /\ x.humans = y.humans

\* Who is excused: whoever cancels, goes, or comes back on another connection.
Excuser(p) ==
  \/ ReplaceClient(p)
  \/ \E h \in Handles : h[1] = p /\ (CancelMatch(h) \/ Disconnect(h))
Speaks(a) ==
  \/ CommitAttempt(a) \/ PublishJoined(a) \/ RollbackRoom(a) \/ NotifyRolledBack(a)
  \/ DispatchRemoval(a)

AttemptMoves(a) ==
  /\ AttFit(att'[a])
  /\ Calm(att[a], att'[a]) \/ Speaks(a)
  /\ \E S \in SUBSET Players : Spares(att[a], att'[a], S) /\ \A p \in S : Excuser(p)
AttemptsMove == \A a \in Attempts : AttemptMoves(a)

\* What these are about.
Alikes(x, y) ==
  /\ y.stage = x.stage /\ y.humans = x.humans /\ y.step = x.step /\ y.left = x.left
  /\ y.room = x.room /\ y.excused = x.excused

LEMMA AlikeMoves ==
  ASSUME AttemptsFit, NEW a \in Attempts, Alikes(att[a], att'[a])
  PROVE  AttemptMoves(a)
<1>1. AttFit(att[a]) /\ {} \in SUBSET Players
  BY DEF AttemptsFit
<1>2. AttFit(att'[a]) /\ Calm(att[a], att'[a]) /\ Spares(att[a], att'[a], {})
  BY <1>1 DEF AttFit, Calm, Spares, Alikes
<1> QED BY <1>1, <1>2 DEF AttemptMoves

LEMMA SameMove ==
  ASSUME AttemptsFit, UNCHANGED att
  PROVE  AttemptsMove
BY AlikeMoves DEF AttemptsMove, Alikes

LEMMA OneMoves ==
  ASSUME AttemptsTyped, AttemptsFit, NEW a \in Attempts, NEW y,
         att' = [att EXCEPT ![a] = y], AttFit(y), Calm(att[a], y) \/ Speaks(a),
         NEW S \in SUBSET Players, Spares(att[a], y, S), \A p \in S : Excuser(p)
  PROVE  AttemptsMove
<1>1. att'[a] = y
  BY DEF AttemptsTyped
<1>2. AttemptMoves(a)
  BY <1>1 DEF AttemptMoves
<1>3. ASSUME NEW b \in Attempts, b # a PROVE AttemptMoves(b)
 <2>1. att'[b] = att[b]
   BY <1>3 DEF AttemptsTyped
 <2> QED BY <2>1, AlikeMoves DEF Alikes
<1> QED BY <1>2, <1>3 DEF AttemptsMove

LEMMA OneMovesPlainly ==
  ASSUME AttemptsTyped, AttemptsFit, NEW a \in Attempts, NEW y,
         att' = [att EXCEPT ![a] = y], AttFit(y), Calm(att[a], y) \/ Speaks(a),
         Spares(att[a], y, {})
  PROVE  AttemptsMove
<1>1. {} \in SUBSET Players /\ \A p \in {} : Excuser(p)
  OBVIOUS
<1> QED BY <1>1, OneMoves

LEMMA StoppedFits ==
  ASSUME NEW x \in AttemptType, AttFit(x), NEW by \in Players \cup {Nobody}
  PROVE  /\ AttFit(Stopped(x, by)) /\ Calm(x, Stopped(x, by))
         /\ x.stage \in ListedStages => Spares(x, Stopped(x, by), {by} \cap Players)
         /\ Stopped(x, by).stage = x.stage /\ Stopped(x, by).humans = x.humans
         /\ Stopped(x, by).step = x.step /\ Stopped(x, by).left = x.left
         /\ Stopped(x, by).room = x.room /\ Stopped(x, by).excused \in {x.excused, by}
<1>1. x \in AttemptRecord
  BY DEF AttemptType
<1>2. PICK y : y = [x EXCEPT !.stopped = TRUE, !.excused = by]
  OBVIOUS
<1>3. /\ y.stage = x.stage /\ y.humans = x.humans /\ y.step = x.step /\ y.left = x.left
      /\ y.room = x.room /\ y.excused = by
  BY <1>1, <1>2 DEF AttemptRecord
<1>4. Stopped(x, by) = x \/ Stopped(x, by) = y
  BY <1>2 DEF Stopped
<1> QED BY <1>3, <1>4 DEF AttFit, Calm, Spares

LEMMA StopMoves ==
  ASSUME AttemptsTyped, AttemptsFit, NEW a \in Attempts, att[a].stage \in ListedStages,
         NEW by \in Players \cup {Nobody}, by \in Players => Excuser(by),
         \A b \in Attempts :
           \E z : /\ z = (IF b = a THEN Stopped(att[a], by) ELSE att[b])
                  /\ Alikes(z, att'[b])
  PROVE  AttemptsMove
<1>1. PICK z : z = Stopped(att[a], by)
  OBVIOUS
<1>2. att[a] \in AttemptType /\ AttFit(att[a])
  BY DEF AttemptsTyped, AttemptsFit
<1>3. /\ AttFit(z) /\ Calm(att[a], z) /\ Spares(att[a], z, {by} \cap Players)
  BY <1>1, <1>2, StoppedFits
<1>4. AttFit(att'[a]) /\ Calm(att[a], att'[a]) /\ Spares(att[a], att'[a], {by} \cap Players)
  BY <1>1, <1>3 DEF AttFit, Calm, Spares, Alikes
<1>5. AttemptMoves(a)
  BY <1>4 DEF AttemptMoves
<1>6. ASSUME NEW b \in Attempts, b # a PROVE AttemptMoves(b)
  BY <1>6, AlikeMoves
<1> QED BY <1>5, <1>6 DEF AttemptsMove

LEMMA LaunchedAlikes ==
  ASSUME NEW f \in [Attempts -> AttemptType], NEW h, NEW b \in Attempts
  PROVE  Alikes(f[b], Launched(f, h)[b])
<1>1. PICK y : y = [f[b] EXCEPT !.launched = TRUE]
  OBVIOUS
<1>2. Launched(f, h)[b] = y \/ Launched(f, h)[b] = f[b]
  BY <1>1 DEF Launched
<1>3. f[b] \in AttemptRecord
  BY DEF AttemptType
<1>4. Alikes(f[b], y)
  BY <1>1, <1>3 DEF AttemptRecord, Alikes
<1> QED BY <1>2, <1>4 DEF Alikes

\* cancelEntryLocked, and whatever is launched with it.
LEMMA CancelledMoves ==
  ASSUME Reserved, AttemptsFit, NEW p \in Players, NEW by \in Players \cup {Nobody},
         by \in Players => Excuser(by), NEW c, c = Cancelled(p, by),
         \A b \in Attempts : Alikes(c.att[b], att'[b])
  PROVE  AttemptsMove
<1>1. AttemptsTyped
  BY DEF Reserved
<1>2. CASE entry[p].state = "inflight"
 <2>1. PICK a \in Attempts : a = entry[p].attempt /\ att[a].stage \in ListedStages
   BY <1>2, InflightIsListed
 <2>2. c.att = [att EXCEPT ![a] = Stopped(att[a], by)]
   BY <1>2, <2>1 DEF Cancelled
 <2>3. \A b \in Attempts : c.att[b] = (IF b = a THEN Stopped(att[a], by) ELSE att[b])
   BY <1>1, <2>2 DEF AttemptsTyped
 <2> QED BY <1>1, <2>1, <2>3, StopMoves
<1>3. CASE entry[p].state # "inflight"
 <2>1. c.att = att
   BY <1>3 DEF Cancelled
 <2> QED BY <2>1, AlikeMoves DEF AttemptsMove
<1> QED BY <1>2, <1>3

LEMMA CancelEntryMoves ==
  ASSUME Reserved, AttemptsFit, NEW h \in Handles, NEW by \in Players \cup {Nobody},
         by \in Players => Excuser(by), CancelEntry(h, by)
  PROVE  AttemptsMove
<1>1. CASE Owns(h)
 <2>1. PICK c : c = Cancelled(h[1], by) /\ att' = c.att
   BY <1>1 DEF CancelEntry
 <2>2. h[1] \in Players
   BY Handle
 <2> QED BY <2>1, <2>2, CancelledMoves DEF Alikes
<1>2. CASE ~Owns(h)
  BY <1>2, SameMove DEF CancelEntry
<1> QED BY <1>1, <1>2

\* newAttemptLocked.
LEMMA FreezeMoves ==
  ASSUME AttemptsTyped, EveryAttemptFits, AttemptsFit, Free # {},
         NEW q, NEW e, NEW bots, NEW launched, Freeze(q, e, bots, launched)
  PROVE  AttemptsMove
<1>1. PICK n \in Attempts : n = NextAttempt /\ att[n].stage = "unused"
  BY NextIsFree
<1>2. PICK humans : humans = [i \in DOMAIN q |-> << q[i], e[q[i]].client >>]
  OBVIOUS
<1>3. PICK b : b = IF bots = 0 THEN "none" ELSE "open"
  OBVIOUS
<1>4. PICK y : y = [Unused EXCEPT !.stage = "frozen", !.launched = launched, !.bots = b,
                                  !.humans = humans]
  OBVIOUS
<1>5. att' = [att EXCEPT ![n] = y]
  BY <1>1, <1>2, <1>3, <1>4 DEF Freeze
<1>6. y.stage = "frozen" /\ y.step = 1 /\ y.left = {} /\ y.room = "none" /\ y.excused = Nobody
  BY <1>4 DEF Unused
<1>7. att[n].left = {}
  BY <1>1 DEF EveryAttemptFits, AttInv, AttemptsFit, AttFit
<1>8. AttFit(y) /\ Calm(att[n], y)
  BY <1>1, <1>6, <1>7 DEF AttFit, Calm, Early, Seated
<1>9. Spares(att[n], y, {})
  BY <1>6, NobodyAssumption DEF Spares
<1> QED BY <1>5, <1>8, <1>9, OneMovesPlainly

\* A room that is dropped.
LEMMA DropIs ==
  ASSUME NEW a \in Attempts, NEW x \in AttemptRecord, NEW byWorker, Drop(a, x, byWorker)
  PROVE  \E y : /\ att' = [att EXCEPT ![a] = y] /\ y.left = Members(a) /\ y.room = "dropped"
                /\ y.stage = x.stage /\ y.humans = x.humans /\ y.step = x.step
                /\ y.excused = x.excused
<1>1. PICK y : y = [x EXCEPT !.room = "dropped", !.mine = byWorker, !.left = Members(a)]
  OBVIOUS
<1>2. att' = [att EXCEPT ![a] = y]
  BY <1>1 DEF Drop
<1>3. /\ y.left = Members(a) /\ y.room = "dropped" /\ y.stage = x.stage /\ y.humans = x.humans
      /\ y.step = x.step /\ y.excused = x.excused
  BY <1>1 DEF AttemptRecord
<1> QED BY <1>2, <1>3

\* A room that is dropped by somebody else than its worker.
LEMMA DropMovesOn ==
  ASSUME AttemptsTyped, AttemptsFit, NEW a \in Attempts, Live(a), NEW x \in AttemptRecord,
         x.stage = att[a].stage, x.humans = att[a].humans, x.step = att[a].step,
         x.excused = att[a].excused, NEW byWorker, Drop(a, x, byWorker)
  PROVE  AttemptsMove
<1>1. PICK y : /\ att' = [att EXCEPT ![a] = y] /\ y.left = Members(a) /\ y.room = "dropped"
               /\ y.stage = x.stage /\ y.humans = x.humans /\ y.step = x.step
               /\ y.excused = x.excused
  BY DropIs
<1>2. AttFit(att[a])
  BY DEF AttemptsFit
<1>3. att[a].left = {}
  BY <1>2 DEF AttFit, Live
<1>4. AttFit(y) /\ Calm(att[a], y) /\ Spares(att[a], y, {})
  BY <1>1, <1>2, <1>3 DEF AttFit, Calm, Spares
<1> QED BY <1>1, <1>4, OneMovesPlainly

LEMMA FailMoves ==
  ASSUME AttemptsTyped, AttemptsFit, NEW a \in Attempts, Fail(a),
         att[a].stage \in {"frozen", "assemble", "commit", "ready", "settle"}
  PROVE  AttemptsMove
<1>1. att[a] \in AttemptType /\ AttFit(att[a])
  BY DEF AttemptsTyped, AttemptsFit
<1>2. PICK z : z = Stopped(att[a], Nobody)
  OBVIOUS
<1>3. /\ z \in AttemptRecord /\ z.stage = att[a].stage /\ z.humans = att[a].humans
      /\ z.step = att[a].step /\ z.left = att[a].left /\ z.room = att[a].room
      /\ z.excused \in {att[a].excused, Nobody}
  BY <1>1, <1>2, StoppedFits, StoppedIsMarked DEF ListedStages, AttemptType
<1>4. PICK y : y = [z EXCEPT !.stage = "rollback", !.launched = TRUE]
  OBVIOUS
<1>5. /\ y.stage = "rollback" /\ y.humans = att[a].humans /\ y.step = att[a].step
      /\ y.left = att[a].left /\ y.room = att[a].room /\ y.excused \in {att[a].excused, Nobody}
  BY <1>3, <1>4 DEF AttemptRecord
<1>6. att' = [att EXCEPT ![a] = y]
  BY <1>2, <1>4 DEF Fail
<1>7. AttFit(y) /\ Calm(att[a], y)
  BY <1>1, <1>5 DEF AttFit, Calm, Early, Seated
<1>8. Spares(att[a], y, {})
  BY <1>5, NobodyAssumption DEF Spares, ListedStages
<1> QED BY <1>6, <1>7, <1>8, OneMovesPlainly

\* The stages before anything is published.
LEMMA MakingMoves ==
  ASSUME AttemptsTyped, EveryAttemptFits, AttemptsFit, NEW a \in Attempts,
         TakeLease(a) \/ Assemble(a) \/ Commit(a) \/ ReadyAllAndStart(a) \/ CommitAttempt(a)
  PROVE  AttemptsMove
<1>1. att[a] \in AttemptRecord /\ AttFit(att[a]) /\ AttInv(att[a])
  BY DEF AttemptsTyped, AttemptType, AttemptsFit, EveryAttemptFits
<1>2. CASE Fail(a)
 <2>1. att[a].stage \in {"frozen", "assemble", "commit", "ready", "settle"}
   BY DEF TakeLease, Assemble, Commit, ReadyAllAndStart, CommitAttempt
 <2> QED BY <1>2, <2>1, FailMoves
<1>3. ASSUME NEW y, att' = [att EXCEPT ![a] = y],
             y.step = att[a].step, y.humans = att[a].humans, y.excused = att[a].excused,
             y.left = att[a].left,
             \/ /\ y.stage \in {"assemble", "commit"} /\ y.room = att[a].room
                /\ att[a].stage \in {"frozen", "assemble"}
             \/ y.stage = "ready" /\ att[a].stage = "commit" /\ y.room = "waiting"
             \/ y.stage = "settle" /\ att[a].stage = "ready" /\ y.room = "ready"
                  /\ att[a].room = "waiting"
             \/ y.stage = "publish" /\ CommitAttempt(a) /\ att[a].stage = "settle"
                  /\ y.room = att[a].room
      PROVE  AttemptsMove
 <2>1. att[a].stage = "commit" => att[a].left = {}
   BY <1>1 DEF AttInv, AttFit
 <2>2. AttFit(y)
   BY <1>1, <1>3, <2>1 DEF AttFit
 <2>3. Calm(att[a], y) \/ Speaks(a)
   BY <1>3 DEF Calm, Speaks, Early, Seated
 <2>4. Spares(att[a], y, {})
   BY <1>3 DEF Spares, ListedStages
 <2> QED BY <1>3, <2>2, <2>3, <2>4, OneMovesPlainly
<1>4. CASE TakeLease(a) /\ ~Fail(a)
 <2>1. PICK y : y = [att[a] EXCEPT !.stage = "assemble", !.launched = TRUE, !.lease = "held"]
   OBVIOUS
 <2>2. att' = [att EXCEPT ![a] = y] /\ att[a].stage = "frozen"
   BY <1>4, <2>1 DEF TakeLease, AttemptsTyped
 <2>3. /\ y.step = att[a].step /\ y.humans = att[a].humans /\ y.excused = att[a].excused
       /\ y.left = att[a].left /\ y.stage = "assemble" /\ y.room = att[a].room
   BY <1>1, <2>1 DEF AttemptRecord
 <2> QED BY <1>3, <2>2, <2>3
<1>5. CASE Assemble(a) /\ ~Fail(a)
 <2>1. PICK y : y = [att[a] EXCEPT !.stage = "commit"]
   OBVIOUS
 <2>2. att' = [att EXCEPT ![a] = y] /\ att[a].stage = "assemble"
   BY <1>5, <2>1 DEF Assemble, AttemptsTyped
 <2>3. /\ y.step = att[a].step /\ y.humans = att[a].humans /\ y.excused = att[a].excused
       /\ y.left = att[a].left /\ y.stage = "commit" /\ y.room = att[a].room
   BY <1>1, <2>1 DEF AttemptRecord
 <2> QED BY <1>3, <2>2, <2>3
<1>6. CASE Commit(a) /\ ~Fail(a)
 <2>1. PICK y : y = [att[a] EXCEPT !.stage = "ready", !.room = "waiting"]
   OBVIOUS
 <2>2. att' = [att EXCEPT ![a] = y] /\ att[a].stage = "commit"
   BY <1>6, <2>1 DEF Commit, AttemptsTyped
 <2>3. /\ y.step = att[a].step /\ y.humans = att[a].humans /\ y.excused = att[a].excused
       /\ y.left = att[a].left /\ y.stage = "ready" /\ y.room = "waiting"
   BY <1>1, <2>1 DEF AttemptRecord
 <2> QED BY <1>3, <2>2, <2>3
<1>7. CASE ReadyAllAndStart(a) /\ ~Fail(a)
 <2>1. PICK y : y = [att[a] EXCEPT !.stage = "settle", !.room = "ready"]
   OBVIOUS
 <2>2. att' = [att EXCEPT ![a] = y] /\ att[a].stage = "ready" /\ att[a].room = "waiting"
   BY <1>7, <2>1 DEF ReadyAllAndStart, AttemptsTyped
 <2>3. /\ y.step = att[a].step /\ y.humans = att[a].humans /\ y.excused = att[a].excused
       /\ y.left = att[a].left /\ y.stage = "settle" /\ y.room = "ready"
   BY <1>1, <2>1 DEF AttemptRecord
 <2> QED BY <1>3, <2>2, <2>3
<1>8. CASE CommitAttempt(a) /\ ~Fail(a)
 <2>1. PICK y : y = [att[a] EXCEPT !.stage = "publish", !.published = TRUE]
   OBVIOUS
 <2>2. att' = [att EXCEPT ![a] = y] /\ att[a].stage = "settle"
   BY <1>8, <2>1 DEF CommitAttempt, AttemptsTyped
 <2>3. /\ y.step = att[a].step /\ y.humans = att[a].humans /\ y.excused = att[a].excused
       /\ y.left = att[a].left /\ y.stage = "publish" /\ y.room = att[a].room
   BY <1>1, <2>1 DEF AttemptRecord
 <2> QED BY <1>3, <1>8, <2>2, <2>3
<1> QED BY <1>2, <1>4, <1>5, <1>6, <1>7, <1>8

\* An attempt that is over.
LEMMA OverFits ==
  ASSUME NEW x \in AttemptRecord, x.stage = "done", x.room # "dropped" => x.left = {}
  PROVE  /\ AttFit(Over(x)) /\ Over(x).stage \in {"done", "unused"} /\ Over(x).left = x.left
<1>1. CASE Over(x) = Unused /\ x.room \in {"none", "gone"}
  BY <1>1 DEF AttFit, Unused
<1>2. CASE Over(x) = [x EXCEPT !.humans = << >>, !.launched = FALSE, !.stopped = FALSE,
                               !.excused = Nobody, !.step = 1]
 <2>1. PICK y : y = [x EXCEPT !.humans = << >>, !.launched = FALSE, !.stopped = FALSE,
                              !.excused = Nobody, !.step = 1]
   OBVIOUS
 <2>2. y.stage = x.stage /\ y.step = 1 /\ y.left = x.left /\ y.room = x.room
   BY <2>1 DEF AttemptRecord
 <2> QED BY <1>2, <2>1, <2>2 DEF AttFit
<1> QED BY <1>1, <1>2 DEF Over

LEMMA OverMoves ==
  ASSUME AttemptsTyped, AttemptsFit, NEW a \in Attempts, NEW x \in AttemptRecord,
         x.stage = "done", x.room # "dropped" => x.left = {}, att' = [att EXCEPT ![a] = Over(x)],
         \/ Speaks(a)
         \/ x.left = att[a].left /\ att[a].stage \notin Early \cup {"notify", "publish"}
  PROVE  AttemptsMove
<1>1. AttFit(Over(x)) /\ Over(x).stage \in {"done", "unused"} /\ Over(x).left = x.left
  BY OverFits
<1>2. Calm(att[a], Over(x)) \/ Speaks(a)
  BY <1>1 DEF Calm, Early, Seated
<1>3. Spares(att[a], Over(x), {})
  BY <1>1 DEF Spares, ListedStages
<1> QED BY <1>1, <1>2, <1>3, OneMovesPlainly

\* A worker that withdraws its match.
LEMMA WithdrawMoves ==
  ASSUME AttemptsTyped, AttemptsFit, NEW a \in Attempts, Withdraw(a),
         att[a].stage = "register" \/ PublishJoined(a)
  PROVE  AttemptsMove
<1>1. att[a] \in AttemptRecord /\ AttFit(att[a])
  BY DEF AttemptsTyped, AttemptType, AttemptsFit
<1>2. PICK x : x = [att[a] EXCEPT !.stage = "withdraw"]
  OBVIOUS
<1>3. /\ x \in AttemptRecord /\ x.stage = "withdraw" /\ x.room = att[a].room
      /\ x.left = att[a].left
  BY <1>1, <1>2 DEF AttemptRecord
<1>4. ASSUME NEW y, att' = [att EXCEPT ![a] = y], y.stage = "withdraw",
             y.room # "dropped" => y.left = {}, att[a].left \subseteq y.left
      PROVE  AttemptsMove
 <2>1. AttFit(y)
   BY <1>4 DEF AttFit
 <2>2. Calm(att[a], y) \/ Speaks(a)
   BY <1>4 DEF Calm, Speaks, Early, Seated
 <2>3. Spares(att[a], y, {})
   BY <1>4 DEF Spares, ListedStages
 <2> QED BY <1>4, <2>1, <2>2, <2>3, OneMovesPlainly
<1>5. CASE Live(a)
 <2>1. Drop(a, x, TRUE)
   BY <1>2, <1>5 DEF Withdraw
 <2>2. PICK y : att' = [att EXCEPT ![a] = y] /\ y.room = "dropped" /\ y.stage = x.stage
   BY <1>3, <2>1, DropIs
 <2>3. att[a].left = {}
   BY <1>1, <1>5 DEF AttFit, Live
 <2> QED BY <1>3, <1>4, <2>2, <2>3
<1>6. CASE ~Live(a)
 <2>1. att' = [att EXCEPT ![a] = x]
   BY <1>2, <1>6 DEF Withdraw, AttemptsTyped
 <2> QED BY <1>1, <1>3, <1>4, <2>1 DEF AttFit
<1> QED BY <1>5, <1>6

\* The stages of a match that is published.
LEMMA PublishingMoves ==
  ASSUME AttemptsTyped, EveryAttemptFits, AttemptsFit, NEW a \in Attempts,
         PublishJoined(a) \/ RegisterSession(a) \/ StartSession(a) \/ ReleaseWithdrawn(a)
  PROVE  AttemptsMove
<1>1. att[a] \in AttemptRecord /\ AttFit(att[a]) /\ AttInv(att[a])
  BY DEF AttemptsTyped, AttemptType, AttemptsFit, EveryAttemptFits
<1>2. CASE Withdraw(a) /\ (PublishJoined(a) \/ RegisterSession(a))
  BY <1>2, WithdrawMoves DEF RegisterSession
<1>3. CASE PublishJoined(a) /\ ~Withdraw(a)
 <2>1. PICK last : last = (att[a].step = Len(att[a].humans))
   OBVIOUS
 <2>2. PICK y : y = [att[a] EXCEPT !.step = IF last THEN 1 ELSE @ + 1,
                                   !.stage = IF last THEN "register" ELSE @]
   OBVIOUS
 <2>3. att' = [att EXCEPT ![a] = y] /\ att[a].stage = "publish"
   BY <1>3, <2>1, <2>2 DEF PublishJoined, AttemptsTyped
 <2>4. /\ y.stage = "publish" \/ (y.stage = "register" /\ y.step = 1)
       /\ y.left = att[a].left /\ y.room = att[a].room
   BY <1>1, <2>2, <2>3 DEF AttemptRecord
 <2>5. AttFit(y) /\ Spares(att[a], y, {})
   BY <1>1, <2>4 DEF AttFit, Spares, ListedStages
 <2> QED BY <1>3, <2>3, <2>5, OneMovesPlainly DEF Speaks
<1>4. CASE RegisterSession(a) /\ ~Withdraw(a)
 <2>1. PICK y : y = [att[a] EXCEPT !.stage = "start", !.lease = "session"]
   OBVIOUS
 <2>2. att' = [att EXCEPT ![a] = y] /\ att[a].stage = "register"
   BY <1>4, <2>1 DEF RegisterSession, AttemptsTyped
 <2>3. y.stage = "start" /\ y.left = att[a].left /\ y.room = att[a].room /\ y.step = att[a].step
   BY <1>1, <2>1 DEF AttemptRecord
 <2>4. AttFit(y) /\ Spares(att[a], y, {}) /\ Calm(att[a], y)
   BY <1>1, <2>2, <2>3 DEF AttFit, Spares, ListedStages, Calm, Early, Seated
 <2> QED BY <2>2, <2>4, OneMovesPlainly
<1>5. CASE StartSession(a) /\ Current(a)
 <2>1. PICK x : x = [att[a] EXCEPT !.stage = "done", !.room = "playing"]
   OBVIOUS
 <2>2. att' = [att EXCEPT ![a] = Over(x)] /\ att[a].stage = "start"
   BY <1>5, <2>1 DEF StartSession, AttemptsTyped
 <2>3. x \in AttemptRecord /\ x.stage = "done" /\ x.left = att[a].left
   BY <1>1, <2>1 DEF AttemptRecord, LiveStates
 <2>4. att[a].left = {}
   BY <1>1, <1>5 DEF AttFit, Current, Live
 <2> QED BY <2>2, <2>3, <2>4, OverMoves DEF Early
<1>6. CASE \/ StartSession(a) /\ ~Current(a)
           \/ ReleaseWithdrawn(a)
 <2>1. PICK x : x = [att[a] EXCEPT !.stage = "done", !.lease = "none"]
   OBVIOUS
 <2>2. att' = [att EXCEPT ![a] = Over(x)] /\ att[a].stage \in {"start", "withdraw"}
   BY <1>6, <2>1 DEF StartSession, ReleaseWithdrawn, AttemptsTyped
 <2>3. x \in AttemptRecord /\ x.stage = "done" /\ x.left = att[a].left /\ x.room = att[a].room
   BY <1>1, <2>1 DEF AttemptRecord
 <2>4. x.room # "dropped" => x.left = {}
   BY <1>1, <2>3 DEF AttFit
 <2> QED BY <2>2, <2>3, <2>4, OverMoves DEF Early
<1> QED BY <1>2, <1>3, <1>4, <1>5, <1>6

\* The stages of an attempt that is rolled back.
LEMMA UnmakingMoves ==
  ASSUME AttemptsTyped, EveryAttemptFits, AttemptsFit, NEW a \in Attempts,
         RollbackRoom(a) \/ NotifyRolledBack(a) \/ Release(a)
  PROVE  AttemptsMove
<1>1. att[a] \in AttemptRecord /\ AttFit(att[a]) /\ AttInv(att[a])
  BY DEF AttemptsTyped, AttemptType, AttemptsFit, EveryAttemptFits
<1>2. CASE RollbackRoom(a)
 <2>1. PICK x : x = [att[a] EXCEPT !.stage = "notify"]
   OBVIOUS
 <2>2. /\ x \in AttemptRecord /\ x.stage = "notify" /\ x.room = att[a].room
       /\ x.left = att[a].left /\ x.humans = att[a].humans /\ x.excused = att[a].excused
       /\ att[a].stage = "rollback"
   BY <1>1, <1>2, <2>1 DEF AttemptRecord, ListedStages, RollbackRoom
 <2>3. ASSUME NEW y, att' = [att EXCEPT ![a] = y], y.stage = x.stage, y.humans = x.humans,
              y.excused = x.excused, y.room # "dropped" => y.left = {}
       PROVE  AttemptsMove
  <3>1. AttFit(y) /\ Spares(att[a], y, {})
    BY <2>2, <2>3 DEF AttFit, Spares, ListedStages
  <3> QED BY <1>2, <2>3, <3>1, OneMovesPlainly DEF Speaks
 <2>4. CASE Live(a)
  <3>1. Drop(a, x, TRUE)
    BY <1>2, <2>1, <2>4 DEF RollbackRoom
  <3>2. PICK y : /\ att' = [att EXCEPT ![a] = y] /\ y.room = "dropped" /\ y.stage = x.stage
                 /\ y.humans = x.humans /\ y.excused = x.excused
    BY <2>2, <3>1, DropIs
  <3> QED BY <2>3, <3>2
 <2>5. CASE ~Live(a)
  <3>1. att' = [att EXCEPT ![a] = x]
    BY <1>2, <2>1, <2>5 DEF RollbackRoom, AttemptsTyped
  <3> QED BY <1>1, <2>2, <2>3, <3>1 DEF AttFit
 <2> QED BY <2>4, <2>5
<1>3. CASE NotifyRolledBack(a)
 <2>1. PICK last : last = (att[a].step = Len(att[a].humans))
   OBVIOUS
 <2>2. PICK y : y = [att[a] EXCEPT !.step = IF last THEN 1 ELSE @ + 1,
                                   !.stage = IF last THEN "release" ELSE @]
   OBVIOUS
 <2>3. att' = [att EXCEPT ![a] = y] /\ att[a].stage = "notify"
   BY <1>3, <2>1, <2>2 DEF NotifyRolledBack, AttemptsTyped
 <2>4. /\ y.stage = "notify" \/ (y.stage = "release" /\ y.step = 1)
       /\ y.left = att[a].left /\ y.room = att[a].room
       /\ y.humans = att[a].humans /\ y.excused = att[a].excused
   BY <1>1, <2>2, <2>3 DEF AttemptRecord
 <2>5. AttFit(y) /\ Spares(att[a], y, {})
   BY <1>1, <2>3, <2>4 DEF AttFit, Spares, ListedStages
 <2> QED BY <1>3, <2>3, <2>5, OneMovesPlainly DEF Speaks
<1>4. CASE Release(a)
 <2>1. PICK b : b = IF att[a].room = "none" /\ att[a].bots = "open" THEN "closed" ELSE att[a].bots
   OBVIOUS
 <2>2. PICK x : x = [att[a] EXCEPT !.stage = "done", !.lease = "none", !.bots = b]
   OBVIOUS
 <2>3. att' = [att EXCEPT ![a] = Over(x)] /\ att[a].stage = "release"
   BY <1>4, <2>1, <2>2 DEF Release
 <2>4. x \in AttemptRecord /\ x.stage = "done" /\ x.left = att[a].left /\ x.room = att[a].room
   BY <1>1, <2>1, <2>2 DEF AttemptRecord
 <2>5. x.room # "dropped" => x.left = {}
   BY <1>1, <2>4 DEF AttFit
 <2> QED BY <2>3, <2>4, <2>5, OverMoves DEF Early
<1> QED BY <1>2, <1>3, <1>4

\* handleRoomRemoved.
LEMMA DispatchMoves ==
  ASSUME AttemptsTyped, EveryAttemptFits, AttemptsFit, NEW a \in Attempts, DispatchRemoval(a)
  PROVE  AttemptsMove
<1>1. att[a] \in AttemptRecord /\ AttFit(att[a]) /\ AttInv(att[a]) /\ att[a] \in AttemptType
  BY DEF AttemptsTyped, AttemptType, AttemptsFit, EveryAttemptFits
<1>2. PICK b : b = IF att[a].bots = "open" THEN "closed" ELSE att[a].bots
  OBVIOUS
<1>3. PICK l : l = IF att[a].lease = "session" THEN "none" ELSE att[a].lease
  OBVIOUS
<1>4. PICK x : x = [att[a] EXCEPT !.room = "gone", !.left = {}, !.published = FALSE,
                                  !.bots = b, !.lease = l]
  OBVIOUS
<1>5. att' = [att EXCEPT ![a] = IF Listed(a) THEN Stopped(x, Nobody) ELSE Over(x)]
  BY <1>2, <1>3, <1>4 DEF DispatchRemoval
<1>6. /\ x \in AttemptRecord /\ x.stage = att[a].stage /\ x.room = "gone" /\ x.left = {}
      /\ x.step = att[a].step /\ x.humans = att[a].humans /\ x.excused = att[a].excused
 <2>1. b \in {"none", "open", "closed"} /\ l \in {"none", "held", "session"}
   BY <1>1, <1>2, <1>3 DEF AttemptRecord
 <2> QED BY <1>1, <1>4, <2>1 DEF AttemptRecord
<1>7. x \in AttemptType /\ AttFit(x) /\ Spares(att[a], x, {})
  BY <1>1, <1>6 DEF AttemptType, AttFit, Spares
<1>8. CASE Listed(a)
 <2>1. PICK y : y = Stopped(x, Nobody)
   OBVIOUS
 <2>2. /\ AttFit(y) /\ y.stage = x.stage /\ y.humans = x.humans
       /\ y.excused \in {x.excused, Nobody}
   BY <1>7, <2>1, StoppedFits
 <2>3. Spares(att[a], y, {})
   BY <1>6, <2>2, NobodyAssumption DEF Spares
 <2>4. att' = [att EXCEPT ![a] = y]
   BY <1>5, <1>8, <2>1
 <2> QED BY <2>2, <2>3, <2>4, OneMovesPlainly DEF Speaks
<1>9. CASE ~Listed(a) /\ x.stage = "done"
 <2>1. att' = [att EXCEPT ![a] = Over(x)] /\ Speaks(a)
   BY <1>5, <1>9 DEF Speaks
 <2> QED BY <1>6, <1>9, <2>1, OverMoves
<1>10. CASE ~Listed(a) /\ x.stage # "done"
 <2>1. att' = [att EXCEPT ![a] = x]
   BY <1>5, <1>10 DEF Over
 <2> QED BY <1>7, <2>1, OneMovesPlainly DEF Speaks
<1> QED BY <1>8, <1>9, <1>10

LEMMA WorkerMoves ==
  ASSUME AttemptsTyped, EveryAttemptFits, AttemptsFit, NEW a \in Attempts, Worker(a)
  PROVE  AttemptsMove
BY MakingMoves, PublishingMoves, UnmakingMoves DEF Worker

\* Rooms, and the bots' deadline.
LEMMA RoomMoves ==
  ASSUME AttemptsTyped, EveryAttemptFits, AttemptsFit, NEW a \in Attempts,
         Removal(a) \/ ExpireBots(a) \/ EndGame(a) \/ TimeOutRoom(a)
  PROVE  AttemptsMove
<1>1. att[a] \in AttemptRecord /\ AttFit(att[a]) /\ AttInv(att[a])
  BY DEF AttemptsTyped, AttemptType, AttemptsFit, EveryAttemptFits
<1>2. ASSUME NEW y, att' = [att EXCEPT ![a] = y], Alikes(att[a], y) PROVE AttemptsMove
 <2>1. \A b \in Attempts : att'[b] = (IF b = a THEN y ELSE att[b])
   BY <1>2 DEF AttemptsTyped
 <2>2. \A b \in Attempts : Alikes(att[b], att'[b])
   BY <1>2, <2>1 DEF Alikes
 <2> QED BY <2>2, AlikeMoves DEF AttemptsMove
<1>3. CASE CloseRoom(a)
 <2>1. PICK x : x = [att[a] EXCEPT !.published = FALSE]
   OBVIOUS
 <2>2. /\ x \in AttemptRecord /\ x.stage = att[a].stage /\ x.humans = att[a].humans
       /\ x.step = att[a].step /\ x.excused = att[a].excused /\ x.left = att[a].left
       /\ x.room = att[a].room
   BY <1>1, <2>1 DEF AttemptRecord
 <2>3. CASE Live(a)
  <3>1. Drop(a, x, FALSE)
    BY <1>3, <2>1, <2>3 DEF CloseRoom
  <3> QED BY <2>2, <2>3, <3>1, DropMovesOn
 <2>4. CASE ~Live(a)
  <3>1. att' = [att EXCEPT ![a] = x]
    BY <1>3, <2>1, <2>4 DEF CloseRoom, AttemptsTyped
  <3> QED BY <1>2, <2>2, <3>1 DEF Alikes
 <2> QED BY <2>3, <2>4
<1>4. CASE TimeOutRoom(a)
 <2>1. Live(a) /\ Drop(a, att[a], FALSE)
   BY <1>4 DEF TimeOutRoom, Live
 <2> QED BY <1>1, <2>1, DropMovesOn
<1>5. CASE EndGame(a)
 <2>1. PICK y : y = [att[a] EXCEPT !.room = "waiting", !.lease = "none"]
   OBVIOUS
 <2>2. att' = [att EXCEPT ![a] = y] /\ att[a].room = "playing"
   BY <1>5, <2>1 DEF EndGame, AttemptsTyped
 <2>3. /\ y.stage = att[a].stage /\ y.humans = att[a].humans /\ y.step = att[a].step
       /\ y.excused = att[a].excused /\ y.left = att[a].left /\ y.room = "waiting"
   BY <1>1, <2>1 DEF AttemptRecord
 <2>4. att[a].stage = "done"
   BY <1>1, <2>2 DEF AttInv
 <2>5. AttFit(y) /\ Calm(att[a], y) /\ Spares(att[a], y, {})
   BY <1>1, <2>2, <2>3, <2>4 DEF AttFit, Calm, Spares, Early, Seated
 <2> QED BY <2>2, <2>5, OneMovesPlainly
<1>6. CASE ExpireBots(a)
 <2>1. att' = [att EXCEPT ![a] = Stopped(att[a], Nobody)] /\ att[a].stage \in ListedStages
   BY <1>6 DEF ExpireBots, Listed, ListedStages
 <2>2. \A b \in Attempts : att'[b] = (IF b = a THEN Stopped(att[a], Nobody) ELSE att[b])
   BY <2>1 DEF AttemptsTyped
 <2> QED BY <2>1, <2>2, StopMoves, NobodyAssumption DEF Alikes
<1> QED BY <1>3, <1>4, <1>5, <1>6, DispatchMoves DEF Removal

\* CancelPending and Close.
LEMMA CancelAllMoves ==
  ASSUME AttemptsTyped, AttemptsFit, CancelAll
  PROVE  AttemptsMove
<1>1. ASSUME NEW a \in Attempts PROVE AttemptMoves(a)
 <2>1. att'[a] = (IF Listed(a) THEN Stopped(att[a], Nobody) ELSE att[a])
   BY DEF CancelAll
 <2>2. CASE Listed(a)
  <3>1. PICK y : y = Stopped(att[a], Nobody)
    OBVIOUS
  <3>2. att[a] \in AttemptType /\ AttFit(att[a]) /\ att[a].stage \in ListedStages
    BY <2>2 DEF AttemptsTyped, AttemptsFit, Listed, ListedStages
  <3>3. AttFit(y) /\ Calm(att[a], y) /\ Spares(att[a], y, {Nobody} \cap Players)
    BY <3>1, <3>2, StoppedFits
  <3>4. {Nobody} \cap Players = {}
    BY NobodyAssumption
  <3>5. att'[a] = y
    BY <2>1, <2>2, <3>1
  <3> QED BY <3>3, <3>4, <3>5 DEF AttemptMoves
 <2>3. CASE ~Listed(a)
   BY <2>1, <2>3, AlikeMoves DEF Alikes
 <2> QED BY <2>2, <2>3
<1> QED BY <1>1 DEF AttemptsMove

\* What connections and their commands do to the attempts.
LEMMA CommandMoves ==
  ASSUME MatcherInv, AttemptsFit, NEW h \in Handles, Command(h) \/ Handler(h)
  PROVE  AttemptsMove
<1>0. AttemptsTyped /\ Reserved /\ EveryAttemptFits /\ h[1] \in Players
  BY Handle DEF MatcherInv, Reserved
<1>1. CASE Enqueue(h) \/ PracticeMatch(h)
 <2>1. CASE UNCHANGED att
   BY <2>1, SameMove
 <2>2. CASE ~UNCHANGED att
  <3>1. Free # {} /\ \E q, e, bots, launched : Freeze(q, e, bots, launched)
    BY <1>1, <2>2 DEF Enqueue, PracticeMatch
  <3>2. PICK q, e, bots, launched : Freeze(q, e, bots, launched)
    BY <3>1
  <3> QED BY <1>0, <3>1, <3>2, FreezeMoves
 <2> QED BY <2>1, <2>2
<1>2. CASE CancelMatch(h)
 <2>1. CancelEntry(h, h[1]) /\ Excuser(h[1])
   BY <1>2 DEF CancelMatch, Excuser
 <2> QED BY <1>0, <2>1, CancelEntryMoves
<1>3. CASE LeaveRoom(h)
 <2>1. PICK a \in Attempts : (Live(a) /\ Drop(a, att[a], FALSE)) \/ UNCHANGED att
   BY <1>3 DEF LeaveRoom, Live
 <2>2. att[a] \in AttemptRecord
   BY <1>0 DEF AttemptsTyped, AttemptType
 <2> QED BY <1>0, <2>1, <2>2, DropMovesOn, SameMove
<1>4. CASE EnterOtherRoom(h) \/ LeaveOtherRoom(h)
  BY <1>4, SameMove DEF EnterOtherRoom, LeaveOtherRoom
<1>5. CASE PublishQueued(h)
 <2>1. UNCHANGED att \/ att' = Launched(att, h)
   BY <1>5 DEF PublishQueued
 <2>2. att' = Launched(att, h) => \A b \in Attempts : Alikes(att[b], att'[b])
   BY <1>0, LaunchedAlikes DEF AttemptsTyped
 <2> QED BY <2>1, <2>2, SameMove, AlikeMoves DEF AttemptsMove
<1>6. CASE SendQueued(h)
 <2>1. PICK c : /\ \/ c = Cancelled(h[1], Nobody)
                   \/ c = [entry |-> entry, queue |-> queue, fill |-> fill, att |-> att]
                /\ att' = Launched(c.att, h)
   BY <1>6 DEF SendQueued
 <2>2. CASE c = Cancelled(h[1], Nobody)
  <3>1. c.att \in [Attempts -> AttemptType]
    BY <1>0, <2>2, CancelledTyped
  <3>2. \A b \in Attempts : Alikes(c.att[b], att'[b])
    BY <2>1, <3>1, LaunchedAlikes
  <3> QED BY <1>0, <2>2, <3>2, CancelledMoves, NobodyAssumption
 <2>3. CASE c = [entry |-> entry, queue |-> queue, fill |-> fill, att |-> att]
  <3>1. att' = Launched(att, h)
    BY <2>1, <2>3
  <3>2. \A b \in Attempts : Alikes(att[b], att'[b])
    BY <1>0, <3>1, LaunchedAlikes DEF AttemptsTyped
  <3> QED BY <3>2, AlikeMoves DEF AttemptsMove
 <2> QED BY <2>1, <2>2, <2>3
<1> QED BY <1>1, <1>2, <1>3, <1>4, <1>5, <1>6 DEF Command, Handler

LEMMA ConnectionMoves ==
  ASSUME MatcherInv, AttemptsFit, NEW h \in Handles,
         LoseLink(h) \/ Departure(h) \/ NotifyPending(h)
  PROVE  AttemptsMove
<1>0. AttemptsTyped /\ Reserved /\ h[1] \in Players
  BY Handle DEF MatcherInv, Reserved
<1>1. CASE Disconnect(h)
 <2>1. CancelEntry(h, h[1]) /\ Excuser(h[1])
   BY <1>1 DEF Disconnect, Excuser
 <2> QED BY <1>0, <2>1, CancelEntryMoves
<1>2. CASE GoOffline(h)
 <2>1. UNCHANGED att \/ \E a \in Attempts : a = room[h] /\ Drop(a, att[a], FALSE)
   BY <1>2 DEF GoOffline
 <2>2. ASSUME NEW a \in Attempts, a = room[h], Drop(a, att[a], FALSE) PROVE AttemptsMove
  <3>1. Live(a)
    BY <2>2 DEF MatcherInv, SeatsLive
  <3>2. att[a] \in AttemptRecord
    BY <1>0 DEF AttemptsTyped, AttemptType
  <3> QED BY <1>0, <2>2, <3>1, <3>2, DropMovesOn
 <2> QED BY <2>1, <2>2, SameMove
<1>3. CASE LoseLink(h) \/ Vanish(h) \/ NotifyPending(h)
  BY <1>3, SameMove DEF LoseLink, Vanish, NotifyPending
<1> QED BY <1>1, <1>2, <1>3 DEF Departure

LEMMA PlayerMoves ==
  ASSUME MatcherInv, AttemptsFit, NEW p \in Players,
         RebindClient(p) \/ Reconnect(p) \/ Expire(p) \/ NotifyExpired(p)
  PROVE  AttemptsMove
<1>0. AttemptsTyped /\ Reserved /\ HandlesTyped
  BY DEF MatcherInv, Reserved
<1>1. CASE ReplaceClient(p)
 <2>1. CASE UNCHANGED att
   BY <2>1, SameMove
 <2>2. CASE entry[p].state = "inflight" /\ att' = [att EXCEPT ![entry[p].attempt] = Stopped(@, p)]
  <3>1. PICK a \in Attempts : a = entry[p].attempt /\ att[a].stage \in ListedStages
    BY <1>0, <2>2, InflightIsListed
  <3>2. \A b \in Attempts : att'[b] = (IF b = a THEN Stopped(att[a], p) ELSE att[b])
    BY <1>0, <2>2, <3>1 DEF AttemptsTyped
  <3>3. Excuser(p)
    BY <1>1 DEF Excuser
  <3> QED BY <1>0, <3>1, <3>2, <3>3, StopMoves DEF Alikes
 <2> QED BY <1>1, <2>1, <2>2 DEF ReplaceClient
<1>2. CASE SendMigrated(p)
 <2>1. PICK h : h = << p, rejoin[p].gen >>
   OBVIOUS
 <2>2. h \in Handles
   BY <1>0, <1>2, <2>1, HandleOf DEF SendMigrated, HandlesTyped
 <2>3. UNCHANGED att \/ CancelEntry(h, Nobody)
   BY <1>2, <2>1 DEF SendMigrated
 <2> QED BY <1>0, <2>2, <2>3, CancelEntryMoves, SameMove, NobodyAssumption
<1>3. CASE Expire(p)
 <2>1. PICK h : h = << p, entry[p].client >>
   OBVIOUS
 <2>2. CASE UNCHANGED att
   BY <2>2, SameMove
 <2>3. CASE entry[p].state = "inflight" /\ CancelEntry(h, Nobody)
  <3>1. entry[p].client # 0 /\ entry[p].client \in 0..Links[p]
    BY <1>0, <2>3 DEF Reserved, RequestsFit, RequestsTyped, EntriesFit, EntryFits
  <3>2. h \in Handles
    BY <2>1, <3>1, HandleOf, LinksNat
  <3> QED BY <1>0, <2>3, <3>2, CancelEntryMoves, NobodyAssumption
 <2> QED BY <1>3, <2>1, <2>2, <2>3 DEF Expire
<1>4. CASE RestoreSession(p) \/ RebindClient(p) \/ Reseat(p) \/ NotifyExpired(p)
  BY <1>4, SameMove DEF RestoreSession, RebindClient, Reseat, NotifyExpired
<1> QED BY <1>1, <1>2, <1>3, <1>4 DEF Reconnect

LEMMA StepsOfAttempts ==
  ASSUME MatcherInv, AttemptsFit, [Next]_vars
  PROVE  AttemptsMove
<1>0. AttemptsTyped /\ EveryAttemptFits
  BY DEF MatcherInv, Reserved
<1>1. CASE ClaimBotFill \/ Resume \/ UNCHANGED vars
  BY <1>1, SameMove DEF ClaimBotFill, Resume, vars
<1>2. CASE CommitBotFill
 <2>1. Free # {} /\ Freeze(queue, entry, 3 - Len(queue), TRUE)
   BY <1>2 DEF CommitBotFill
 <2> QED BY <1>0, <2>1, FreezeMoves
<1>3. CASE Drain \/ Close
  BY <1>0, <1>3, CancelAllMoves DEF Drain, Close
<1>4. ASSUME NEW a \in Attempts,
             Worker(a) \/ Removal(a) \/ ExpireBots(a) \/ EndGame(a) \/ TimeOutRoom(a)
      PROVE  AttemptsMove
  BY <1>0, <1>4, WorkerMoves, RoomMoves
<1> QED BY <1>1, <1>2, <1>3, <1>4, CommandMoves, ConnectionMoves, PlayerMoves DEF Next

LEMMA AttemptsStayFit ==
  ASSUME AttemptsMove
  PROVE  AttemptsFit'
BY DEF AttemptsMove, AttemptMoves, AttemptsFit

-----------------------------------------------------------------------------
(* How a request moves                                                     *)

SameRequest(p) == entry'[p].client = entry[p].client /\ entry'[p].attempt = entry[p].attempt
Freezes(p) ==
  /\ entry[p].state = "queued" /\ entry'[p].client = entry[p].client
  /\ \E n \in Attempts : entry'[p].attempt = n /\ att'[n].stage = "frozen"
\* A connection that takes its player's request out of the queue.
GivesUp(h) ==
  /\ Owns(h) /\ entry[h[1]].state = "queued"
  /\ \/ CancelMatch(h) \/ Disconnect(h) \/ (SendQueued(h) /\ ~Reaches(h))
     \/ \E p \in Players : SendMigrated(p) /\ h = << p, rejoin[p].gen >> /\ ~Reaches(h)
Ending(p) ==
  \/ \E a \in Attempts : entry[p].attempt = a /\ (CommitAttempt(a) \/ Release(a))
  \/ NotifyExpired(p) \/ (entry[p].state = "queued" /\ (Drain \/ Close))
  \/ \E h \in Handles : h[1] = p /\ GivesUp(h)
EntryMoves(p) ==
  \/ SameRequest(p) \/ entry[p] = NoEntry \/ Freezes(p) \/ ReplaceClient(p)
  \/ entry'[p] = NoEntry /\ Ending(p)

LEMMA RolledRequests ==
  ASSUME RequestsTyped, NEW p \in Players, NEW A, entry' = RolledBack(A)
  PROVE  SameRequest(p)
<1>1. entry'[p].client = RolledBack(A)[p].client /\ entry'[p].attempt = RolledBack(A)[p].attempt
  OBVIOUS
<1> QED BY <1>1, RolledEntry DEF SameRequest

LEMMA CancelledRequests ==
  ASSUME RequestsTyped, NEW g \in Players, NEW by, NEW c, c = Cancelled(g, by),
         entry' = c.entry, NEW p \in Players
  PROVE  SameRequest(p) \/ (p = g /\ entry[g].state = "queued" /\ entry'[p] = NoEntry)
<1>1. CASE entry[g].state = "queued"
 <2>1. entry' = [entry EXCEPT ![g] = NoEntry]
   BY <1>1 DEF Cancelled
 <2> QED BY <1>1, <2>1 DEF SameRequest, RequestsTyped
<1>2. CASE entry[g].state = "inflight"
 <2>1. entry' = RolledBack({entry[g].attempt})
   BY <1>2 DEF Cancelled
 <2> QED BY <2>1, RolledRequests
<1>3. CASE entry[g].state \notin {"queued", "inflight"}
  BY <1>3 DEF Cancelled, SameRequest
<1> QED BY <1>1, <1>2, <1>3

LEMMA CancelEntryRequests ==
  ASSUME RequestsTyped, NEW h \in Handles, NEW by, CancelEntry(h, by), NEW p \in Players
  PROVE  \/ SameRequest(p)
         \/ p = h[1] /\ Owns(h) /\ entry[p].state = "queued" /\ entry'[p] = NoEntry
<1>1. CASE Owns(h)
 <2>1. PICK c : c = Cancelled(h[1], by) /\ entry' = c.entry
   BY <1>1 DEF CancelEntry
 <2>2. h[1] \in Players
   BY Handle
 <2> QED BY <1>1, <2>1, <2>2, CancelledRequests
<1>2. CASE ~Owns(h)
  BY <1>2 DEF CancelEntry, SameRequest, requests
<1> QED BY <1>1, <1>2

LEMMA FrozenRequests ==
  ASSUME AttemptsTyped, Free # {}, NEW p \in Players, NEW q \in Seq(Players), NEW e, NEW bots,
         NEW launched, Freeze(q, e, bots, launched)
  PROVE  \/ entry'[p] = e[p]
         \/ /\ IsIn(p, q) /\ entry'[p].client = e[p].client
            /\ \E n \in Attempts : entry'[p].attempt = n /\ att'[n].stage = "frozen"
<1>1. PICK n \in Attempts : n = NextAttempt
  BY NextIsFree
<1>2. PICK humans : humans = [i \in DOMAIN q |-> << q[i], e[q[i]].client >>]
  OBVIOUS
<1>3. PICK b : b = IF bots = 0 THEN "none" ELSE "open"
  OBVIOUS
<1>4. PICK y : y = [Unused EXCEPT !.stage = "frozen", !.launched = launched, !.bots = b,
                                  !.humans = humans]
  OBVIOUS
<1>5. att' = [att EXCEPT ![n] = y]
  BY <1>1, <1>2, <1>3, <1>4 DEF Freeze
<1>6. y.stage = "frozen"
  BY <1>4 DEF Unused
<1>7. att'[n].stage = "frozen"
  BY <1>5, <1>6 DEF AttemptsTyped
<1>8. CASE IsIn(p, q)
 <2>1. \E i \in DOMAIN q : q[i] = p
   BY <1>8 DEF IsIn
 <2>2. entry'[p] = [client |-> e[p].client, state |-> "inflight", attempt |-> n]
   BY <1>1, <2>1 DEF Freeze
 <2> QED BY <1>7, <1>8, <2>2
<1>9. CASE ~IsIn(p, q)
 <2>1. ~\E i \in DOMAIN q : q[i] = p
   BY <1>9 DEF IsIn
 <2> QED BY <2>1 DEF Freeze
<1> QED BY <1>8, <1>9

LEMMA HandleMovesEntries ==
  ASSUME MatcherInv, NEW p \in Players, NEW h \in Handles,
         Command(h) \/ Handler(h) \/ LoseLink(h) \/ Departure(h) \/ NotifyPending(h)
  PROVE  EntryMoves(p)
<1>0. RequestsTyped /\ EntriesFit /\ AttemptsTyped
  BY DEF MatcherInv, Reserved, RequestsFit
<1>01. PICK g \in Players, k \in Nat : g = h[1] /\ k = h[2] /\ h = << g, k >>
  BY Handle
<1>1. CASE UNCHANGED entry
  BY <1>1 DEF EntryMoves, SameRequest
<1>2. CASE Enqueue(h)
 <2>1. PICK e : e = [entry EXCEPT ![g] = [client |-> k, state |-> "queued", attempt |-> 0]]
   OBVIOUS
 <2>2. entry[g] = NoEntry
   BY <1>01, <1>2 DEF Enqueue, MayRequest
 <2>3. CASE p = g
   BY <2>2, <2>3 DEF EntryMoves
 <2>4. CASE p # g
  <3>1. e[p] = entry[p]
    BY <1>0, <2>1, <2>4 DEF RequestsTyped
  <3>2. CASE entry' = e
    BY <3>1, <3>2 DEF EntryMoves, SameRequest
  <3>3. CASE Free # {} /\ Freeze(Append(queue, g), e, 0, FALSE)
   <4>1. PICK q : q = Append(queue, g)
     OBVIOUS
   <4>2. q \in Seq(Players) /\ (IsIn(p, q) => IsIn(p, queue))
     BY <1>0, <2>4, <4>1 DEF IsIn, RequestsTyped
   <4>3. \/ entry'[p] = e[p]
         \/ /\ IsIn(p, q) /\ entry'[p].client = e[p].client
            /\ \E n \in Attempts : entry'[p].attempt = n /\ att'[n].stage = "frozen"
     BY <1>0, <3>3, <4>1, <4>2, FrozenRequests
   <4>4. IsIn(p, q) => entry[p].state = "queued"
     BY <1>0, <4>2 DEF EntriesFit
   <4> QED BY <3>1, <4>3, <4>4 DEF EntryMoves, SameRequest, Freezes
  <3> QED BY <1>01, <1>2, <2>1, <3>2, <3>3 DEF Enqueue
 <2> QED BY <2>3, <2>4
<1>3. CASE PracticeMatch(h)
 <2>1. PICK e : e = [entry EXCEPT ![g].client = k]
   OBVIOUS
 <2>2. entry[g] = NoEntry /\ Free # {} /\ Freeze(<< g >>, e, 2, FALSE)
   BY <1>01, <1>3, <2>1 DEF PracticeMatch, MayRequest
 <2>3. CASE p = g
   BY <2>2, <2>3 DEF EntryMoves
 <2>4. CASE p # g
  <3>1. e[p] = entry[p]
    BY <1>0, <2>1, <2>4 DEF RequestsTyped
  <3>2. PICK q : q = << g >>
    OBVIOUS
  <3>3. q \in Seq(Players) /\ ~IsIn(p, q)
    BY <2>4, <3>2 DEF IsIn
  <3>4. entry'[p] = e[p]
    BY <1>0, <2>2, <3>2, <3>3, FrozenRequests
  <3> QED BY <3>1, <3>4 DEF EntryMoves, SameRequest
 <2> QED BY <2>3, <2>4
<1>4. CASE CancelMatch(h) \/ Disconnect(h)
 <2>1. PICK by : CancelEntry(h, by)
   BY <1>4 DEF CancelMatch, Disconnect
 <2>2. SameRequest(p) \/ (p = g /\ Owns(h) /\ entry[p].state = "queued" /\ entry'[p] = NoEntry)
   BY <1>0, <1>01, <2>1, CancelEntryRequests
 <2> QED BY <1>01, <1>4, <2>2 DEF EntryMoves, Ending, GivesUp
<1>5. CASE SendQueued(h)
 <2>1. CASE Owns(h) /\ ~Reaches(h)
  <3>1. PICK c : c = Cancelled(g, Nobody) /\ entry' = c.entry
    BY <1>01, <1>5, <2>1 DEF SendQueued
  <3>2. SameRequest(p) \/ (p = g /\ entry[g].state = "queued" /\ entry'[p] = NoEntry)
    BY <1>0, <3>1, CancelledRequests
  <3> QED BY <1>01, <1>5, <2>1, <3>2 DEF EntryMoves, Ending, GivesUp
 <2>2. CASE ~(Owns(h) /\ ~Reaches(h))
   BY <1>1, <1>5, <2>2 DEF SendQueued
 <2> QED BY <2>1, <2>2
<1>6. CASE \/ LeaveRoom(h) \/ EnterOtherRoom(h) \/ LeaveOtherRoom(h) \/ PublishQueued(h)
           \/ LoseLink(h) \/ Vanish(h) \/ GoOffline(h) \/ NotifyPending(h)
  BY <1>1, <1>6 DEF LeaveRoom, EnterOtherRoom, LeaveOtherRoom, PublishQueued, LoseLink, Vanish,
     GoOffline, NotifyPending, requests
<1> QED BY <1>2, <1>3, <1>4, <1>5, <1>6 DEF Command, Handler, Departure

LEMMA PlayerMovesEntries ==
  ASSUME MatcherInv, NEW p \in Players, NEW c \in Players,
         RebindClient(c) \/ Reconnect(c) \/ Expire(c) \/ NotifyExpired(c)
  PROVE  EntryMoves(p)
<1>0. RequestsTyped /\ EntriesFit /\ HandlesTyped
  BY DEF MatcherInv, Reserved, RequestsFit
<1>1. CASE UNCHANGED entry
  BY <1>1 DEF EntryMoves, SameRequest
<1>2. CASE ReplaceClient(c)
 <2>1. CASE p = c
   BY <1>2, <2>1 DEF EntryMoves
 <2>2. CASE p # c
  <3>1. CASE entry' = RolledBack({entry[c].attempt})
    BY <1>0, <3>1, RolledRequests DEF EntryMoves
  <3>2. CASE entry' = [entry EXCEPT ![c].client = rejoin[c].gen]
   <4>1. entry'[p] = entry[p]
     BY <1>0, <2>2, <3>2 DEF RequestsTyped
   <4> QED BY <4>1 DEF EntryMoves, SameRequest
  <3> QED BY <1>1, <1>2, <3>1, <3>2 DEF ReplaceClient
 <2> QED BY <2>1, <2>2
<1>3. CASE SendMigrated(c)
 <2>1. rejoin[c].gen \in 1..Links[c]
   BY <1>0, <1>3 DEF SendMigrated, HandlesTyped
 <2>2. PICK h \in Handles : h = << c, rejoin[c].gen >>
   BY <2>1, HandleIs
 <2>3. CASE Reaches(h)
   BY <1>1, <1>3, <2>2, <2>3 DEF SendMigrated, requests
 <2>4. CASE ~Reaches(h)
  <3>1. CancelEntry(h, Nobody)
    BY <1>3, <2>2, <2>4 DEF SendMigrated
  <3>2. \/ SameRequest(p)
        \/ p = h[1] /\ Owns(h) /\ entry[p].state = "queued" /\ entry'[p] = NoEntry
    BY <1>0, <3>1, CancelEntryRequests
  <3>3. Owns(h) /\ entry[h[1]].state = "queued" => GivesUp(h)
    BY <1>3, <2>2, <2>4 DEF GivesUp
  <3> QED BY <3>2, <3>3 DEF EntryMoves, Ending
 <2> QED BY <2>3, <2>4
<1>4. CASE Expire(c)
 <2>1. CASE entry' = [entry EXCEPT ![c].state = "rolledback"]
   BY <1>0, <2>1 DEF EntryMoves, SameRequest, RequestsTyped, EntryRecord
 <2>2. CASE entry[c].state = "inflight" /\ CancelEntry(<< c, entry[c].client >>, Nobody)
  <3>1. entry[c].client \in 1..Links[c]
    BY <1>0, <2>2, LinksNat DEF EntriesFit, EntryFits, RequestsTyped
  <3>2. PICK h \in Handles : h = << c, entry[c].client >>
    BY <3>1, HandleIs
  <3>3. \/ SameRequest(p) \/ (p = h[1] /\ entry[p].state = "queued")
    BY <1>0, <2>2, <3>2, CancelEntryRequests
  <3> QED BY <2>2, <3>2, <3>3 DEF EntryMoves
 <2> QED BY <1>4, <2>1, <2>2 DEF Expire
<1>5. CASE NotifyExpired(c)
 <2>1. entry' = [entry EXCEPT ![c] = NoEntry]
   BY <1>5 DEF NotifyExpired
 <2> QED BY <1>0, <1>5, <2>1 DEF EntryMoves, SameRequest, Ending, RequestsTyped
<1>6. CASE RestoreSession(c) \/ RebindClient(c) \/ Reseat(c)
  BY <1>1, <1>6 DEF RestoreSession, RebindClient, Reseat, requests
<1> QED BY <1>2, <1>3, <1>4, <1>5, <1>6 DEF Reconnect

LEMMA StepMovesEntries ==
  ASSUME MatcherInv, [Next]_vars, NEW p \in Players
  PROVE  EntryMoves(p)
<1>0. RequestsTyped /\ EntriesFit /\ AttemptsTyped
  BY DEF MatcherInv, Reserved, RequestsFit
<1>1. CASE UNCHANGED entry
  BY <1>1 DEF EntryMoves, SameRequest
<1>2. ASSUME NEW a \in Attempts, Worker(a) \/ Removal(a) \/ ExpireBots(a) \/ EndGame(a) \/ TimeOutRoom(a)
      PROVE  EntryMoves(p)
 <2>1. \/ UNCHANGED entry \/ entry' = RolledBack({a})
       \/ /\ CommitAttempt(a) \/ Release(a)
          /\ entry' = [d \in Players |-> IF entry[d].attempt = a THEN NoEntry ELSE entry[d]]
   BY <1>2 DEF Worker, TakeLease, Assemble, Commit, ReadyAllAndStart, CommitAttempt, PublishJoined,
      RegisterSession, StartSession, ReleaseWithdrawn, RollbackRoom, NotifyRolledBack, Release,
      Removal, DispatchRemoval, CloseRoom, ExpireBots, EndGame, TimeOutRoom, requests, Fail
 <2>2. CASE entry' = RolledBack({a})
   BY <1>0, <2>2, RolledRequests DEF EntryMoves
 <2>3. CASE /\ CommitAttempt(a) \/ Release(a)
            /\ entry' = [d \in Players |-> IF entry[d].attempt = a THEN NoEntry ELSE entry[d]]
  <3>1. CASE entry[p].attempt = a
    BY <2>3, <3>1 DEF EntryMoves, Ending
  <3>2. CASE entry[p].attempt # a
    BY <2>3, <3>2 DEF EntryMoves, SameRequest
  <3> QED BY <3>1, <3>2
 <2> QED BY <1>1, <2>1, <2>2, <2>3
<1>3. CASE CommitBotFill
 <2>0. PICK q \in Seq(Players) : q = queue
   BY <1>0 DEF RequestsTyped
 <2>1. PICK e, bots : e = entry /\ bots = 3 - Len(queue)
   OBVIOUS
 <2>2. Free # {} /\ Freeze(q, e, bots, TRUE)
   BY <1>3, <2>0, <2>1 DEF CommitBotFill
 <2>3. \/ entry'[p] = e[p]
       \/ /\ IsIn(p, q) /\ entry'[p].client = e[p].client
          /\ \E n \in Attempts : entry'[p].attempt = n /\ att'[n].stage = "frozen"
   BY <1>0, <2>0, <2>1, <2>2, FrozenRequests
 <2>4. IsIn(p, q) => entry[p].state = "queued"
   BY <1>0, <2>0 DEF EntriesFit
 <2> QED BY <2>1, <2>3, <2>4 DEF EntryMoves, SameRequest, Freezes
<1>4. CASE Drain \/ Close
 <2>1. entry' = [d \in Players |-> IF entry[d].state = "queued" THEN NoEntry
                                   ELSE RolledBack(Attempts)[d]]
   BY <1>4 DEF Drain, Close, CancelAll
 <2>2. CASE entry[p].state = "queued"
   BY <1>4, <2>1, <2>2 DEF EntryMoves, Ending
 <2>3. CASE entry[p].state # "queued"
  <3>1. entry'[p] = RolledBack(Attempts)[p]
    BY <2>1, <2>3
  <3> QED BY <1>0, <3>1, RolledEntry DEF EntryMoves, SameRequest
 <2> QED BY <2>2, <2>3
<1>5. CASE ClaimBotFill \/ Resume \/ UNCHANGED vars
  BY <1>1, <1>5 DEF ClaimBotFill, Resume, vars, requests
<1> QED BY <1>2, <1>3, <1>4, <1>5, HandleMovesEntries, PlayerMovesEntries DEF Next

-----------------------------------------------------------------------------
(* How a seat moves, and the notices                                       *)

LosesSeat(h) == \E a \in Attempts : room[h] = a /\ room'[h] = 0 /\ h \in att'[a].left
SeatMoves(h) ==
  \/ room'[h] = room[h] \/ LosesSeat(h)
  \/ LeaveRoom(h) \/ EnterOtherRoom(h) \/ LeaveOtherRoom(h) \/ Reseat(h[1])
  \/ \E a \in Attempts : Binds(a) /\ h \in Humans(a)

LEMMA DropMovesSeats ==
  ASSUME AttemptsTyped, NEW a \in Attempts, NEW x \in AttemptRecord, NEW byWorker,
         Drop(a, x, byWorker), NEW h \in Handles
  PROVE  room'[h] = room[h] \/ LosesSeat(h)
<1>1. PICK y : att' = [att EXCEPT ![a] = y] /\ y.left = Members(a)
  BY DropIs
<1>2. att'[a].left = Members(a)
  BY <1>1 DEF AttemptsTyped
<1>3. room'[h] = IF room[h] = a THEN 0 ELSE room[h]
  BY DEF Drop
<1>4. room[h] = a => h \in Members(a)
  BY DEF Members
<1> QED BY <1>2, <1>3, <1>4 DEF LosesSeat

LEMMA StepMovesSeatOf ==
  ASSUME MatcherInv, [Next]_vars, NEW h \in Handles
  PROVE  SeatMoves(h)
<1>0. AttemptsTyped /\ HandlesTyped /\ \A a \in Attempts : att[a] \in AttemptRecord
  BY DEF MatcherInv, Reserved, AttemptsTyped, AttemptType
<1>1. CASE UNCHANGED room
  BY <1>1 DEF SeatMoves
<1>2. ASSUME NEW a \in Attempts, NEW x \in AttemptRecord, NEW byWorker, Drop(a, x, byWorker)
      PROVE  SeatMoves(h)
  BY <1>0, <1>2, DropMovesSeats DEF SeatMoves
<1>3. ASSUME NEW g \in Handles, Command(g) \/ Handler(g) \/ LoseLink(g) \/ Departure(g) \/ NotifyPending(g)
      PROVE  SeatMoves(h)
 <2>1. CASE LeaveRoom(g)
  <3>1. PICK a \in Attempts : Drop(a, att[a], FALSE) \/ room' = [room EXCEPT ![g] = 0]
    BY <2>1 DEF LeaveRoom
  <3>2. CASE g = h
    BY <2>1, <3>2 DEF SeatMoves
  <3>3. CASE g # h /\ room' = [room EXCEPT ![g] = 0]
    BY <1>0, <3>3 DEF SeatMoves, HandlesTyped
  <3> QED BY <1>0, <1>2, <3>1, <3>2, <3>3
 <2>2. CASE EnterOtherRoom(g) \/ LeaveOtherRoom(g)
  <3>1. PICK r : room' = [room EXCEPT ![g] = r]
    BY <2>2 DEF EnterOtherRoom, LeaveOtherRoom
  <3>2. CASE g = h
    BY <2>2, <3>2 DEF SeatMoves
  <3>3. CASE g # h
    BY <1>0, <3>1, <3>3 DEF SeatMoves, HandlesTyped
  <3> QED BY <3>2, <3>3
 <2>3. CASE GoOffline(g)
  <3>1. UNCHANGED room \/ \E a \in Attempts : Drop(a, att[a], FALSE)
    BY <2>3 DEF GoOffline
  <3> QED BY <1>0, <1>1, <1>2, <3>1
 <2>4. CASE \/ Enqueue(g) \/ PracticeMatch(g) \/ CancelMatch(g) \/ Handler(g) \/ LoseLink(g)
            \/ Vanish(g) \/ Disconnect(g) \/ NotifyPending(g)
   BY <1>1, <2>4 DEF Enqueue, PracticeMatch, CancelMatch, Handler, PublishQueued, SendQueued,
      LoseLink, Vanish, Disconnect, NotifyPending
 <2> QED BY <1>3, <2>1, <2>2, <2>3, <2>4 DEF Command, Departure
<1>4. ASSUME NEW p \in Players, RebindClient(p) \/ Reconnect(p) \/ Expire(p) \/ NotifyExpired(p)
      PROVE  SeatMoves(h)
 <2>1. CASE Reseat(p)
  <3>1. CASE p = h[1]
    BY <2>1, <3>1 DEF SeatMoves
  <3>2. CASE p # h[1]
   <4>1. PICK a : a = rejoin[p].room
     OBVIOUS
   <4>2. PICK old : old = { g \in Handles : g[1] = p /\ a # 0 /\ room[g] = a }
     OBVIOUS
   <4>3. PICK g : g = << p, rejoin[p].gen >>
     OBVIOUS
   <4>4. \/ UNCHANGED room
         \/ room' = [f \in Handles |-> IF f = g /\ old # {} THEN a
                                       ELSE IF f \in old THEN Former ELSE room[f]]
     BY <2>1, <4>1, <4>2, <4>3 DEF Reseat
   <4>5. h # g /\ h \notin old
     BY <3>2, <4>2, <4>3
   <4>6. room'[h] = room[h]
     BY <4>4, <4>5
   <4> QED BY <4>6 DEF SeatMoves
  <3> QED BY <3>1, <3>2
 <2>2. CASE ~Reseat(p)
   BY <1>1, <1>4, <2>2 DEF RestoreSession, RebindClient, Reconnect, ReplaceClient, SendMigrated,
      Expire, NotifyExpired, connections
 <2> QED BY <2>1, <2>2
<1>5. ASSUME NEW a \in Attempts, Worker(a) PROVE SeatMoves(h)
 <2>1. CASE Binds(a)
  <3>1. CASE h \in Humans(a)
    BY <2>1, <3>1 DEF SeatMoves
  <3>2. CASE h \notin Humans(a)
    BY <2>1, <3>2 DEF Binds, SeatMoves
  <3> QED BY <3>1, <3>2
 <2>2. CASE Commit(a) /\ ~Binds(a)
   BY <1>1, <2>2 DEF Commit, Binds
 <2>3. CASE PublishJoined(a) \/ RegisterSession(a) \/ RollbackRoom(a)
  <3>1. PICK x, y : /\ x = [att[a] EXCEPT !.stage = "withdraw"]
                    /\ y = [att[a] EXCEPT !.stage = "notify"]
    OBVIOUS
  <3>2. UNCHANGED room \/ Drop(a, x, TRUE) \/ Drop(a, y, TRUE)
    BY <2>3, <3>1 DEF PublishJoined, RegisterSession, RollbackRoom, Withdraw
  <3>3. x \in AttemptRecord /\ y \in AttemptRecord
    BY <1>0, <3>1 DEF AttemptRecord, ListedStages
  <3> QED BY <1>1, <1>2, <3>2, <3>3
 <2>4. CASE ~Commit(a) /\ ~PublishJoined(a) /\ ~RegisterSession(a) /\ ~RollbackRoom(a)
   BY <1>1, <1>5, <2>4 DEF Worker, TakeLease, Assemble, ReadyAllAndStart, CommitAttempt,
      StartSession, ReleaseWithdrawn, NotifyRolledBack, Release, connections
 <2> QED BY <2>1, <2>2, <2>3, <2>4
<1>6. ASSUME NEW a \in Attempts, Removal(a) \/ ExpireBots(a) \/ EndGame(a) \/ TimeOutRoom(a)
      PROVE  SeatMoves(h)
 <2>1. CASE TimeOutRoom(a)
   BY <1>0, <1>2, <2>1 DEF TimeOutRoom
 <2>2. CASE CloseRoom(a)
  <3>1. PICK x : x = [att[a] EXCEPT !.published = FALSE]
    OBVIOUS
  <3>2. UNCHANGED room \/ Drop(a, x, FALSE)
    BY <2>2, <3>1 DEF CloseRoom
  <3>3. x \in AttemptRecord
    BY <1>0, <3>1 DEF AttemptRecord
  <3> QED BY <1>1, <1>2, <3>2, <3>3
 <2>3. CASE DispatchRemoval(a) \/ ExpireBots(a) \/ EndGame(a)
   BY <1>1, <2>3 DEF DispatchRemoval, ExpireBots, EndGame, connections
 <2> QED BY <1>6, <2>1, <2>2, <2>3 DEF Removal
<1>7. CASE ClaimBotFill \/ CommitBotFill \/ Drain \/ Resume \/ Close \/ UNCHANGED vars
  BY <1>1, <1>7 DEF ClaimBotFill, CommitBotFill, Drain, Resume, Close, connections, vars
<1> QED BY <1>3, <1>4, <1>5, <1>6, <1>7 DEF Next

LEMMA NoticesMove ==
  ASSUME [Next]_vars, NEW h \in notices
  PROVE  h \in notices' \/ NotifyPending(h)
<1>1. CASE UNCHANGED notices
  BY <1>1
<1>2. ASSUME NEW g \in Handles, NotifyPending(g) PROVE h \in notices' \/ NotifyPending(h)
  BY <1>2 DEF NotifyPending
<1>3. ASSUME NEW g \in Handles, Command(g) \/ Handler(g) \/ LoseLink(g) \/ Departure(g)
      PROVE  UNCHANGED notices
  BY <1>3 DEF Command, Handler, Departure, Enqueue, PracticeMatch, CancelMatch, LeaveRoom,
     EnterOtherRoom, LeaveOtherRoom, PublishQueued, SendQueued, LoseLink, Vanish, Disconnect,
     GoOffline, operator
<1>4. ASSUME NEW p \in Players, RebindClient(p) \/ Reconnect(p) \/ Expire(p) \/ NotifyExpired(p)
      PROVE  UNCHANGED notices
  BY <1>4 DEF RestoreSession, RebindClient, Reconnect, Reseat, ReplaceClient, SendMigrated,
     Expire, NotifyExpired, operator
<1>5. ASSUME NEW a \in Attempts, Worker(a) \/ Removal(a) \/ ExpireBots(a) \/ EndGame(a) \/ TimeOutRoom(a)
      PROVE  UNCHANGED notices
  BY <1>5 DEF Worker, TakeLease, Assemble, Commit, ReadyAllAndStart, CommitAttempt, PublishJoined,
     RegisterSession, StartSession, ReleaseWithdrawn, RollbackRoom, NotifyRolledBack, Release,
     Removal, DispatchRemoval, CloseRoom, ExpireBots, EndGame, TimeOutRoom, operator
<1>6. CASE ClaimBotFill \/ CommitBotFill \/ Drain \/ Resume \/ Close \/ UNCHANGED vars
  BY <1>6 DEF ClaimBotFill, CommitBotFill, Drain, Resume, Close, operator, vars
<1> QED BY <1>1, <1>2, <1>3, <1>4, <1>5, <1>6 DEF Next

-----------------------------------------------------------------------------
(* Who hopes for an answer, and to whom one is being sent                  *)

OpenLast(h) == link[h] = "open" /\ LastBorn(h[1], h[2])
Hopes(h) == told[h] = "queued" /\ OpenLast(h)
Sending(h) ==
  doing[h] = "sending" \/ (rejoin[h[1]].step = "migrated" /\ rejoin[h[1]].gen = h[2])

LEMMA OpenLastFits ==
  ASSUME HandlesTyped, LinksInv, NEW h \in Handles, OpenLast(h)
  PROVE  conn[h[1]] = h[2] /\ (rejoin[h[1]].step # "none" => rejoin[h[1]].gen = h[2])
<1>1. PICK p \in Players, n \in Nat : p = h[1] /\ n = h[2] /\ h = << p, n >> /\ n \in 1..Links[h[1]]
  BY Handle
<1>2. n \in 1..Links[p] /\ LastBorn(p, n) /\ link[<< p, n >>] = "open"
  BY <1>1 DEF OpenLast
<1>3. conn[p] = n
  BY <1>2 DEF LinksInv, Registered
<1> QED BY <1>1, <1>3 DEF LinksInv, TakeoversFit, TakesOver

LEMMA OpenLastComesFrom ==
  ASSUME HandlesTyped, LinksInv, LinkKinds, NEW h \in Handles, OpenLast(h)', link[h] # "unborn"
  PROVE  OpenLast(h)
<1>0. LinksInOrder
  BY DEF LinksInv
<1>1. link[h] = "open"
 <2>1. ASSUME NEW p \in Players, RebindClient(p) PROVE link[h] = "open"
  <3>1. PICK g \in 1..Links[p] : /\ \A n \in 1..Links[p] : link[<< p, n >>] = "unborn" <=> n >= g
                                 /\ link' = [link EXCEPT ![<< p, g >>] = "open"]
    BY <1>0, <2>1, RebindIsNext
  <3>2. link[<< p, g >>] = "unborn"
    BY <3>1, LinksNat
  <3>3. h # << p, g >>
    BY <3>2
  <3> QED BY <3>1, <3>3 DEF OpenLast, HandlesTyped
 <2>2. ASSUME NEW p \in Players, Undoes(p) PROVE link[h] = "open"
   BY <2>2 DEF Undoes, OpenLast, HandlesTyped
 <2>3. ASSUME NEW g \in Handles, Disconnect(g) PROVE link[h] = "open"
   BY <2>3 DEF Disconnect, OpenLast, HandlesTyped
 <2>4. CASE LinksSettle
   BY <2>4 DEF LinksSettle, LinkSettles, OpenLast
 <2> QED BY <2>1, <2>2, <2>3, <2>4 DEF LinkKinds
<1>2. ASSUME NEW m \in 1..Links[h[1]], m > h[2] PROVE link[<< h[1], m >>] = "unborn"
 <2>1. PICK p \in Players : p = h[1]
   BY Handle
 <2>2. << p, m >> \in Handles
   BY <2>1, HandleOf
 <2>3. link'[<< p, m >>] = "unborn"
   BY <1>2, <2>1 DEF OpenLast, LastBorn
 <2> QED BY <1>0, <2>1, <2>2, <2>3, BornStaysBorn
<1> QED BY <1>1, <1>2 DEF OpenLast, LastBorn

LEMMA HandlerComesFrom ==
  ASSUME HandlesTyped, LinksInv, LinkKinds, NEW h \in Handles, link[h] # "unborn", InHandler(h)'
  PROVE  InHandler(h)
<1>0. PICK p \in Players : p = h[1] /\ h = << p, h[2] >>
  BY Handle
<1>1. ASSUME NEW q \in Players, RebindClient(q) PROVE InHandler(h)
 <2>1. PICK g \in 1..Links[q] : /\ \A n \in 1..Links[q] : link[<< q, n >>] = "unborn" <=> n >= g
                                /\ rejoin'[q].gen = g
   BY <1>1, RebindIsNext DEF LinksInv
 <2>2. link[<< q, g >>] = "unborn"
   BY <2>1, LinksNat
 <2>3. CASE p = q
   BY <1>0, <2>1, <2>2, <2>3 DEF InHandler
 <2>4. CASE p # q
  <3>1. rejoin'[p] = rejoin[p]
    BY <1>1, <2>4 DEF RebindClient, HandlesTyped
  <3> QED BY <1>0, <3>1 DEF InHandler
 <2> QED BY <2>3, <2>4
<1>2. ASSUME NEW q \in Players, Undoes(q) PROVE InHandler(h)
  BY <1>0, <1>2 DEF Undoes, InHandler, HandlesTyped, NoRejoin
<1>3. ASSUME NEW g \in Handles, Disconnect(g) PROVE InHandler(h)
  BY <1>3 DEF Disconnect, InHandler
<1>4. CASE LinksSettle
  BY <1>0, <1>4 DEF LinksSettle, RejoinStays, InHandler
<1> QED BY <1>1, <1>2, <1>3, <1>4 DEF LinkKinds

\* Whoever hopes is not about to be replaced.
LEMMA HopesAreSettled ==
  ASSUME HandlesTyped, LinksInv, FreshInv, NEW h \in Handles, Hopes(h)
  PROVE  rejoin[h[1]].step = "none" /\ conn[h[1]] = h[2]
<1>1. PICK p \in Players, n \in Nat : p = h[1] /\ n = h[2] /\ h = << p, n >> /\ n \in 1..Links[h[1]]
  BY Handle
<1>2. conn[p] = n /\ (rejoin[p].step # "none" => rejoin[p].gen = n)
  BY <1>1, OpenLastFits DEF Hopes
<1>3. n \in 1..Links[p]
  BY <1>1
<1>4. rejoin[p].step # "none" => told[<< p, n >>] = "nothing"
  BY <1>2, <1>3 DEF FreshInv, Quiets
<1> QED BY <1>1, <1>2, <1>4 DEF Hopes

LEMMA HopesComeFrom ==
  ASSUME MatcherInv, LinksInv, FreshInv, [Next]_vars, NEW h \in Handles, Hopes(h)'
  PROVE  /\ OpenLast(h)
         /\ \/ told[h] = "queued" \/ SendQueued(h)
            \/ \E p \in Players : SendMigrated(p) /\ h = << p, rejoin[p].gen >>
<1>0. HandlesTyped /\ LinkKinds
  BY StepsOfLinks DEF MatcherInv
<1>1. \/ told[h] = "queued" \/ SendQueued(h)
      \/ \E p \in Players : SendMigrated(p) /\ h = << p, rejoin[p].gen >>
  BY <1>0, OnlyTheyTell DEF ToldMoves, Hopes
<1>2. link[h] # "unborn"
 <2>1. ASSUME link[h] = "unborn" PROVE FALSE
  <3>1. Quiets(h)
    BY <2>1 DEF FreshInv
  <3>2. PICK p \in Players : SendMigrated(p) /\ h = << p, rejoin[p].gen >>
    BY <1>1, <3>1 DEF Quiets, SendQueued
  <3> QED BY <1>0, <2>1, <3>2, TakeoverIs DEF SendMigrated
 <2> QED BY <2>1
<1>3. OpenLast(h)'
  BY DEF Hopes
<1> QED BY <1>0, <1>1, <1>2, <1>3, OpenLastComesFrom

-----------------------------------------------------------------------------
(* Who is excused was told, or asked for it                                *)

\* Who is spared the news of a rollback does not wait for it: he cancelled, or
\* went, or is about to be told on another connection.
Excuses ==
  \A a \in Attempts, h \in Handles :
    /\ att[a].stage \in ListedStages /\ h \in Humans(a) /\ att[a].excused = h[1]
    /\ OpenLast(h)
    => told[h] # "queued" /\ doing[h] = "idle" /\ ~InHandler(h)

\* A human of a listed attempt owns his entry.
LEMMA HumanOwns ==
  ASSUME AttemptsServe, NEW a \in Attempts, att[a].stage \in ListedStages,
         NEW h \in Handles, h \in Humans(a)
  PROVE  entry[h[1]].attempt = a /\ Owns(h)
<1>1. PICK p \in Players, n \in Nat : p = h[1] /\ n = h[2] /\ h = << p, n >>
  BY Handle
<1>2. << p, n >> \in Humans(a) /\ Serves(p, a)
  BY <1>1 DEF AttemptsServe
<1>3. entry[p].attempt = a /\ entry[p].client = n
  BY <1>2 DEF Serves
<1> QED BY <1>1, <1>3 DEF Owns

LEMMA MigratedIsQueued ==
  ASSUME HandlesTyped, RequestsFit, NEW p \in Players, ReplaceClient(p),
         rejoin'[p].step = "migrated"
  PROVE  entry'[p].attempt = 0
<1>1. ~ClosePrevious(p)
  BY DEF ClosePrevious, HandlesTyped, NoRejoin
<1>2. entry[p].state = "queued" /\ entry' = [entry EXCEPT ![p].client = rejoin[p].gen]
  BY <1>1 DEF ReplaceClient
<1> QED BY <1>2 DEF RequestsFit, EntriesFit, EntryFits, RequestsTyped, EntryRecord

LEMMA ExcusesStay ==
  ASSUME MatcherInv, LinksInv, FreshInv, AttemptsFit, Excuses, [Next]_vars
  PROVE  Excuses'
<1>0. HandlesTyped /\ LinkKinds /\ AttemptsMove /\ RequestsFit /\ RequestsTyped /\ AttemptsServe
  BY StepsOfLinks, StepsOfAttempts DEF MatcherInv, Reserved, RequestsFit
<1>01. AttemptsServe'
  BY StepFits DEF Served
<1> SUFFICES ASSUME NEW a \in Attempts, NEW h \in Handles,
                    att'[a].stage \in ListedStages, h \in Humans(a)',
                    att'[a].excused = h[1], OpenLast(h)'
             PROVE  told'[h] # "queued" /\ doing'[h] = "idle" /\ ~InHandler(h)'
  BY DEF Excuses
<1>1. PICK p \in Players, n \in Nat : p = h[1] /\ n = h[2] /\ h = << p, n >> /\ n # 0
  BY Handle
<1>2. entry'[p].attempt = a /\ entry'[p].client = n
 <2>1. << p, n >> \in Humans(a)' /\ Serves(p, a)'
   BY <1>01, <1>1 DEF AttemptsServe
 <2> QED BY <2>1 DEF Serves
<1>3. PICK S \in SUBSET Players : Spares(att[a], att'[a], S) /\ \A q \in S : Excuser(q)
  BY <1>0 DEF AttemptsMove, AttemptMoves
<1>4. CASE p \notin S
 <2>1. /\ att[a].stage \in ListedStages /\ att[a].excused = p /\ h \in Humans(a)
   BY <1>1, <1>3, <1>4 DEF Spares, Humans
 <2>2. Owns(h)
   BY <1>0, <2>1, HumanOwns
 <2>3. link[h] # "unborn"
   BY <2>2 DEF FreshInv
 <2>4. OpenLast(h)
   BY <1>0, <2>3, OpenLastComesFrom
 <2>5. told[h] # "queued" /\ doing[h] = "idle" /\ ~InHandler(h)
   BY <1>1, <2>1, <2>4 DEF Excuses
 <2>6. ~InHandler(h)'
   BY <1>0, <2>3, <2>5, HandlerComesFrom
 <2>7. told'[h] # "queued"
  <3>1. ~SendQueued(h)
    BY <2>5 DEF SendQueued
  <3>2. ASSUME NEW q \in Players, SendMigrated(q), h = << q, rejoin[q].gen >> PROVE FALSE
    BY <2>5, <3>2 DEF SendMigrated, InHandler
  <3>3. ToldMoves(h)
    BY <1>0, OnlyTheyTell
  <3> QED BY <2>5, <3>1, <3>2, <3>3 DEF ToldMoves
 <2>8. doing'[h] = "idle"
  <3>1. entry[p] # NoEntry
    BY <1>1, <2>2 DEF Owns, NoEntry
  <3>2. ~(Enqueue(h) \/ PracticeMatch(h) \/ PublishQueued(h))
    BY <1>1, <2>5, <3>1 DEF Enqueue, PracticeMatch, MayRequest, PublishQueued
  <3>3. DoingMoves(h)
    BY <1>0, OnlyTheyBegin
  <3> QED BY <2>5, <3>2, <3>3 DEF DoingMoves
 <2> QED BY <2>6, <2>7, <2>8
<1>5. CASE ReplaceClient(p)
 <2>1. rejoin[p].step = "seated"
   BY <1>5 DEF ReplaceClient
 <2>2. PICK g \in 1..Links[p] : g = rejoin[p].gen /\ link[<< p, g >>] # "unborn" /\ LastBorn(p, g)
   BY <1>0, <2>1, TakeoverIs
 <2>3. link[h] # "unborn"
  <3>1. link' = link \/ \E f \in Handles : link' = [link EXCEPT ![f] = "closed"]
   <4>1. CASE ClosePrevious(p)
    <5>1. CASE rejoin[p].previous # 0 /\ link[<< p, rejoin[p].previous >>] = "open"
     <6>1. rejoin[p].previous \in 1..Links[p]
       BY <1>0, <2>1, <5>1, LinksNat DEF HandlesTyped
     <6>2. << p, rejoin[p].previous >> \in Handles
       BY <6>1, HandleOf
     <6> QED BY <4>1, <5>1, <6>2 DEF ClosePrevious
    <5> QED BY <4>1, <5>1 DEF ClosePrevious
   <4> QED BY <1>5, <4>1 DEF ReplaceClient
  <3>2. link'[h] = "open"
    BY DEF OpenLast
  <3> QED BY <1>0, <3>1, <3>2 DEF HandlesTyped
 <2>4. OpenLast(h)
   BY <1>0, <2>3, OpenLastComesFrom
 <2>5. n = g
   BY <1>0, <1>1, <2>1, <2>2, <2>4, OpenLastFits
 <2>6. entry[p].client # n
   BY <2>1, <2>2, <2>5 DEF FreshInv
 <2>7. ClientMoves(p)
   BY <1>0, StepMovesClients
 <2>8. ~CanAct(<< p, n >>)
   BY <2>1, <2>2, <2>5 DEF CanAct, InHandler
 <2>9. rejoin'[p].step = "migrated"
   BY <1>1, <1>2, <2>6, <2>7, <2>8 DEF ClientMoves, SameClient
 <2>10. entry'[p].attempt = 0
   BY <1>0, <1>5, <2>9, MigratedIsQueued
 <2> QED BY <1>2, <2>10, AttemptsNat
<1>6. ASSUME NEW g \in Handles, g[1] = p, CancelMatch(g)
      PROVE  told'[h] # "queued" /\ doing'[h] = "idle" /\ ~InHandler(h)'
 <2>1. SameClient(p)
   BY <1>0, <1>6, CancelEntryClients DEF CancelMatch
 <2>2. entry[p].client = n
   BY <1>1, <1>2, <2>1 DEF SameClient
 <2>3. g[2] = n
   BY <1>6, <2>2 DEF CancelMatch, Wanted, Owns
 <2>4. g = h
   BY <1>1, <1>6, <2>3, Handle
 <2> QED BY <1>0, <1>6, <2>4 DEF CancelMatch, CanAct, InHandler, HandlesTyped
<1>7. ASSUME NEW g \in Handles, g[1] = p, Disconnect(g) PROVE FALSE
 <2>1. link'[h] = "open"
   BY DEF OpenLast
 <2>2. h # g /\ link[h] = "open"
   BY <1>0, <1>7, <2>1 DEF Disconnect, HandlesTyped
 <2>3. OpenLast(h)
   BY <1>0, <2>2, OpenLastComesFrom
 <2>4. conn[p] = n
   BY <1>0, <1>1, <2>3, OpenLastFits
 <2>5. g[2] = n
   BY <1>7, <2>4 DEF Disconnect
 <2> QED BY <1>1, <1>7, <2>2, <2>5, Handle
<1> QED BY <1>3, <1>4, <1>5, <1>6, <1>7 DEF Excuser

-----------------------------------------------------------------------------
(* Whom a room that is about to start holds                                *)

SettlesBound ==
  \A a \in Attempts, h \in Handles :
    att[a].stage = "settle" /\ Live(a) /\ h \in Humans(a) /\ OpenLast(h) => room[h] = a

LEMMA SettleComesFrom ==
  ASSUME NEW x \in AttemptType, NEW y, AttInv(x), Evolves(x, y), y.stage = "settle",
         y.room \in LiveStates
  PROVE  /\ y.humans = x.humans
         /\ x.stage = "settle" \/ (x.stage = "ready" /\ Validated(x))
         /\ x.stage = "settle" => x.room = y.room
BY DEF Evolves, Marked, Begins, TakesLease, Proceeds, Fails, Published, Withdrawn, RollsBack,
       Notifies, Plays, EndsWithout, Releases, LosesRoom, Unpublished, IsRemoved, Reopens,
       SameGoods, Ends, AttInv, LiveStates

\* A reconnect does not begin with a connection that has a request.
LEMMA OwnerIsNotRebound ==
  ASSUME HandlesTyped, LinksInv, FreshInv, NEW h \in Handles, Owns(h), OpenLast(h)
  PROVE  rejoin[h[1]].step \notin {"rebound", "seated"}
<1>1. PICK p \in Players, n \in Nat : p = h[1] /\ n = h[2] /\ h = << p, n >> /\ n \in 1..Links[h[1]]
  BY Handle
<1>2. rejoin[p].step # "none" => rejoin[p].gen = n
  BY <1>1, OpenLastFits
<1>3. entry[p].client = n /\ n \in 1..Links[p]
  BY <1>1 DEF Owns
<1> QED BY <1>1, <1>2, <1>3 DEF FreshInv

LEMMA SettlesStayBound ==
  ASSUME MatcherInv, LinksInv, FreshInv, AttemptsFit, SettlesBound, [Next]_vars
  PROVE  SettlesBound'
<1>0. HandlesTyped /\ LinkKinds /\ AttemptsMove /\ AttemptsServe /\ AttemptsTyped
  BY StepsOfLinks, StepsOfAttempts DEF MatcherInv, Reserved
<1> SUFFICES ASSUME NEW a \in Attempts, NEW h \in Handles, att'[a].stage = "settle", Live(a)',
                    h \in Humans(a)', OpenLast(h)'
             PROVE  room'[h] = a
  BY DEF SettlesBound
<1>1. Evolves(att[a], att'[a])
  BY StepFits DEF Served, EveryAttemptEvolves, GoesOn
<1>2. att[a] \in AttemptType /\ AttInv(att[a])
  BY <1>0 DEF AttemptsTyped, MatcherInv, EveryAttemptFits
<1>3. att'[a].room \in LiveStates
  BY DEF Live, LiveStates
<1>4. /\ att'[a].humans = att[a].humans
      /\ att[a].stage = "settle" \/ (att[a].stage = "ready" /\ Validated(att[a]))
      /\ att[a].stage = "settle" => att[a].room = att'[a].room
  BY <1>1, <1>2, <1>3, SettleComesFrom
<1>5. h \in Humans(a) /\ att[a].stage \in ListedStages
  BY <1>4 DEF Humans, ListedStages
<1>6. entry[h[1]].attempt = a /\ Owns(h)
  BY <1>0, <1>5, HumanOwns
<1>7. link[h] # "unborn"
  BY <1>6 DEF FreshInv
<1>8. OpenLast(h)
  BY <1>0, <1>7, OpenLastComesFrom
<1>9. CASE att[a].stage = "ready" /\ Validated(att[a])
 <2>1. PICK b \in Attempts : att[b] = att[a] /\ Members(b) = Humans(b)
   BY <1>9 DEF Validated
 <2>2. h \in Humans(b) /\ att[b].stage \in ListedStages
   BY <1>5, <2>1 DEF Humans
 <2>3. entry[h[1]].attempt = b
   BY <1>0, <2>2, HumanOwns
 <2>4. room[h] = a
   BY <1>6, <2>1, <2>2, <2>3 DEF Members
 <2> QED BY <1>9, <2>4 DEF Validated, connections
<1>10. CASE att[a].stage = "settle"
 <2>1. room[h] = a /\ a # 0 /\ a # Elsewhere
  <3>1. Live(a)
    BY <1>3, <1>4, <1>10 DEF Live, LiveStates
  <3> QED BY <1>5, <1>8, <1>10, <3>1, MatcherAssumption DEF SettlesBound, Attempts, Elsewhere
 <2>2. AttFit(att[a]) /\ AttFit(att'[a])
   BY <1>0 DEF AttemptsFit, AttemptsMove, AttemptMoves
 <2>3. ~LosesSeat(h)
   BY <1>3, <2>1, <2>2 DEF LosesSeat, AttFit, LiveStates
 <2>4. ~(LeaveRoom(h) \/ EnterOtherRoom(h) \/ LeaveOtherRoom(h))
   BY <1>10, <2>1, <2>2 DEF LeaveRoom, EnterOtherRoom, LeaveOtherRoom, AttFit
 <2>5. ~Reseat(h[1])
   BY <1>0, <1>6, <1>8, OwnerIsNotRebound DEF Reseat
 <2>6. ~\E b \in Attempts : Binds(b) /\ h \in Humans(b)
   BY <2>1 DEF Binds, Unbound
 <2>7. SeatMoves(h)
   BY StepMovesSeatOf
 <2> QED BY <2>1, <2>3, <2>4, <2>5, <2>6, <2>7 DEF SeatMoves
<1> QED BY <1>4, <1>9, <1>10

-----------------------------------------------------------------------------
(* What the steps that speak do to their attempt                           *)

LEMMA CommitIs ==
  ASSUME AttemptsTyped, AttemptsFit, NEW a \in Attempts, CommitAttempt(a)
  PROVE  /\ att[a].stage = "settle" /\ att'[a].left = att[a].left
         /\ \/ att'[a].stage = "rollback" /\ entry' = RolledBack({a})
            \/ /\ att'[a].stage = "publish" /\ att'[a].step = 1 /\ Live(a)
               /\ att'[a].humans = att[a].humans
               /\ entry' = [p \in Players |-> IF entry[p].attempt = a THEN NoEntry ELSE entry[p]]
<1>1. att[a] \in AttemptType /\ att[a] \in AttemptRecord /\ AttFit(att[a]) /\ att[a].stage = "settle"
  BY DEF AttemptsTyped, AttemptType, AttemptsFit, CommitAttempt
<1>2. CASE Fail(a)
 <2>1. PICK z : z = Stopped(att[a], Nobody)
   OBVIOUS
 <2>2. z \in AttemptRecord /\ z.left = att[a].left
   BY <1>1, <2>1, StoppedFits, StoppedIsMarked DEF ListedStages, AttemptType
 <2>3. PICK y : y = [z EXCEPT !.stage = "rollback", !.launched = TRUE]
   OBVIOUS
 <2>4. y.stage = "rollback" /\ y.left = att[a].left
   BY <2>2, <2>3 DEF AttemptRecord
 <2>5. att'[a] = y
   BY <1>2, <2>1, <2>3 DEF Fail, AttemptsTyped
 <2>6. entry' = RolledBack({a})
   BY <1>2 DEF Fail
 <2> QED BY <1>1, <2>4, <2>5, <2>6
<1>3. CASE ~Fail(a)
 <2>1. PICK y : y = [att[a] EXCEPT !.stage = "publish", !.published = TRUE]
   OBVIOUS
 <2>2. att'[a] = y
   BY <1>3, <2>1 DEF CommitAttempt, AttemptsTyped
 <2>3. y.stage = "publish" /\ y.step = att[a].step /\ y.humans = att[a].humans /\ y.left = att[a].left
   BY <1>1, <2>1 DEF AttemptRecord
 <2>4. att[a].step = 1
   BY <1>1 DEF AttFit
 <2>5. Live(a) /\ entry' = [p \in Players |-> IF entry[p].attempt = a THEN NoEntry ELSE entry[p]]
   BY <1>3 DEF CommitAttempt
 <2> QED BY <1>1, <2>2, <2>3, <2>4, <2>5
<1> QED BY <1>2, <1>3

LEMMA RollbackIs ==
  ASSUME AttemptsTyped, AttemptsFit, NEW a \in Attempts, RollbackRoom(a)
  PROVE  /\ att[a].stage = "rollback" /\ att'[a].stage = "notify"
         /\ att[a].step = 1 /\ att'[a].step = 1 /\ att'[a].humans = att[a].humans
         /\ att[a].left \subseteq att'[a].left /\ ~Live(a)'
<1>1. att[a] \in AttemptRecord /\ AttFit(att[a]) /\ att[a].stage = "rollback"
  BY DEF AttemptsTyped, AttemptType, AttemptsFit, RollbackRoom
<1>2. att[a].step = 1 /\ (Live(a) => att[a].left = {})
  BY <1>1 DEF AttFit, Live
<1>3. PICK x : x = [att[a] EXCEPT !.stage = "notify"]
  OBVIOUS
<1>4. /\ x \in AttemptRecord /\ x.stage = "notify" /\ x.step = 1 /\ x.humans = att[a].humans
      /\ x.left = att[a].left /\ x.room = att[a].room
  BY <1>1, <1>2, <1>3 DEF AttemptRecord, ListedStages
<1>5. CASE Live(a)
 <2>1. Drop(a, x, TRUE)
   BY <1>3, <1>5 DEF RollbackRoom
 <2>2. PICK y : /\ att' = [att EXCEPT ![a] = y] /\ y.stage = x.stage /\ y.room = "dropped"
                /\ y.humans = x.humans /\ y.step = x.step
   BY <1>4, <2>1, DropIs
 <2> QED BY <1>1, <1>2, <1>4, <1>5, <2>2 DEF AttemptsTyped, Live
<1>6. CASE ~Live(a)
 <2>1. att' = [att EXCEPT ![a] = x]
   BY <1>3, <1>6 DEF RollbackRoom, AttemptsTyped
 <2> QED BY <1>1, <1>2, <1>4, <1>6, <2>1 DEF AttemptsTyped, Live
<1> QED BY <1>5, <1>6

LEMMA NotifyIs ==
  ASSUME AttemptsTyped, NEW a \in Attempts, NotifyRolledBack(a)
  PROVE  /\ att[a].stage = "notify" /\ att'[a].humans = att[a].humans
         /\ att'[a].left = att[a].left
         /\ \/ att[a].step = Len(att[a].humans)
            \/ att'[a].stage = "notify" /\ att'[a].step = att[a].step + 1
<1>1. att[a] \in AttemptRecord
  BY DEF AttemptsTyped, AttemptType
<1>2. PICK last : last = (att[a].step = Len(att[a].humans))
  OBVIOUS
<1>3. PICK y : y = [att[a] EXCEPT !.step = IF last THEN 1 ELSE @ + 1,
                                  !.stage = IF last THEN "release" ELSE @]
  OBVIOUS
<1>4. att'[a] = y /\ att[a].stage = "notify"
  BY <1>2, <1>3 DEF NotifyRolledBack, AttemptsTyped
<1>5. /\ y.humans = att[a].humans /\ y.left = att[a].left
      /\ ~last => y.stage = "notify" /\ y.step = att[a].step + 1
  BY <1>1, <1>3, <1>4 DEF AttemptRecord
<1> QED BY <1>2, <1>4, <1>5

LEMMA PublishIs ==
  ASSUME AttemptsTyped, AttemptsFit, NEW a \in Attempts, PublishJoined(a)
  PROVE  /\ att[a].stage = "publish" /\ att[a].left \subseteq att'[a].left
         /\ \/ ~Live(a)'
            \/ /\ att'[a].humans = att[a].humans
               /\ told' = [told EXCEPT ![att[a].humans[att[a].step]] = "nothing"]
               /\ \/ att[a].step = Len(att[a].humans)
                  \/ att'[a].stage = "publish" /\ att'[a].step = att[a].step + 1
<1>1. att[a] \in AttemptRecord /\ AttFit(att[a]) /\ att[a].stage = "publish"
  BY DEF AttemptsTyped, AttemptType, AttemptsFit, PublishJoined
<1>2. CASE Withdraw(a)
 <2>1. Live(a) => att[a].left = {}
   BY <1>1 DEF AttFit, Live
 <2>2. PICK x : x = [att[a] EXCEPT !.stage = "withdraw"]
   OBVIOUS
 <2>3. x \in AttemptRecord /\ x.left = att[a].left /\ x.room = att[a].room
   BY <1>1, <2>2 DEF AttemptRecord
 <2>4. CASE Live(a)
  <3>1. Drop(a, x, TRUE)
    BY <1>2, <2>2, <2>4 DEF Withdraw
  <3>2. PICK y : att' = [att EXCEPT ![a] = y] /\ y.room = "dropped"
    BY <2>3, <3>1, DropIs
  <3> QED BY <1>1, <2>1, <2>4, <3>2 DEF AttemptsTyped, Live
 <2>5. CASE ~Live(a)
  <3>1. att' = [att EXCEPT ![a] = x]
    BY <1>2, <2>2, <2>5 DEF Withdraw, AttemptsTyped
  <3> QED BY <1>1, <2>3, <2>5, <3>1 DEF AttemptsTyped, Live
 <2> QED BY <2>4, <2>5
<1>3. CASE ~Withdraw(a)
 <2>1. PICK last : last = (att[a].step = Len(att[a].humans))
   OBVIOUS
 <2>2. PICK y : y = [att[a] EXCEPT !.step = IF last THEN 1 ELSE @ + 1,
                                   !.stage = IF last THEN "register" ELSE @]
   OBVIOUS
 <2>3. att'[a] = y /\ told' = [told EXCEPT ![att[a].humans[att[a].step]] = "nothing"]
   BY <1>3, <2>1, <2>2 DEF PublishJoined, AttemptsTyped
 <2>4. /\ y.humans = att[a].humans /\ y.left = att[a].left
       /\ ~last => y.stage = "publish" /\ y.step = att[a].step + 1
   BY <1>1, <2>2 DEF AttemptRecord
 <2> QED BY <1>1, <2>1, <2>3, <2>4
<1> QED BY <1>2, <1>3

LEMMA DispatchIs ==
  ASSUME AttemptsTyped, AttemptsFit, NEW a \in Attempts, DispatchRemoval(a), att[a].stage # "done"
  PROVE  /\ att'[a].stage = att[a].stage /\ att'[a].humans = att[a].humans
         /\ att'[a].step = att[a].step
<1>1. att[a] \in AttemptRecord /\ AttFit(att[a]) /\ att[a] \in AttemptType
  BY DEF AttemptsTyped, AttemptType, AttemptsFit
<1>2. PICK b : b = IF att[a].bots = "open" THEN "closed" ELSE att[a].bots
  OBVIOUS
<1>3. PICK l : l = IF att[a].lease = "session" THEN "none" ELSE att[a].lease
  OBVIOUS
<1>4. PICK x : x = [att[a] EXCEPT !.room = "gone", !.left = {}, !.published = FALSE,
                                  !.bots = b, !.lease = l]
  OBVIOUS
<1>5. att' = [att EXCEPT ![a] = IF Listed(a) THEN Stopped(x, Nobody) ELSE Over(x)]
  BY <1>2, <1>3, <1>4 DEF DispatchRemoval
<1>6. /\ x \in AttemptRecord /\ x.stage = att[a].stage /\ x.room = "gone" /\ x.left = {}
      /\ x.step = att[a].step /\ x.humans = att[a].humans
 <2>1. b \in {"none", "open", "closed"} /\ l \in {"none", "held", "session"}
   BY <1>1, <1>2, <1>3 DEF AttemptRecord
 <2> QED BY <1>1, <1>4, <2>1 DEF AttemptRecord
<1>7. x \in AttemptType /\ AttFit(x)
  BY <1>1, <1>6 DEF AttemptType, AttFit
<1>8. PICK z : z = Stopped(x, Nobody)
  OBVIOUS
<1>9. z.stage = x.stage /\ z.humans = x.humans /\ z.step = x.step
  BY <1>7, <1>8, StoppedFits
<1>10. att'[a] = z \/ att'[a] = x
  BY <1>5, <1>6, <1>8 DEF Over, AttemptsTyped
<1> QED BY <1>6, <1>9, <1>10

-----------------------------------------------------------------------------
(* Whom an attempt has still to tell                                       *)

\* A loop of the worker that has not gone past h yet.
At(h, x) == \E i \in x.step..Len(x.humans) : x.humans[i] = h
\* A match that is still to be made, or whose rollback is still to be told to h.
ToTell(h, x) == x.stage \in Early \/ (x.stage = "notify" /\ At(h, x))
NotYet(h) ==
  \/ entry[h[1]].attempt = 0
  \/ \E a \in Attempts : entry[h[1]].attempt = a /\ ToTell(h, att[a])

LEMMA AtNext ==
  ASSUME NEW x \in AttemptRecord, NEW y \in AttemptRecord, NEW h, At(h, x), x.humans[x.step] # h,
         y.humans = x.humans
  PROVE  x.step # Len(x.humans) /\ (y.step = x.step + 1 => At(h, y))
<1>1. x.step \in Nat /\ Len(x.humans) \in Nat
  BY DEF AttemptRecord
<1>2. PICK i \in x.step..Len(x.humans) : x.humans[i] = h
  BY DEF At
<1>3. i # x.step
  BY <1>2
<1>4. i \in (x.step + 1)..Len(x.humans)
  BY <1>1, <1>3
<1> QED BY <1>1, <1>2, <1>4 DEF At

LEMMA AtFirst ==
  ASSUME NEW x \in AttemptRecord, NEW h, x.step = 1, \E i \in DOMAIN x.humans : x.humans[i] = h
  PROVE  At(h, x)
BY DEF AttemptRecord, At

LEMMA ToTellMoves ==
  ASSUME MatcherInv, MatcherInv', AttemptsFit, AttemptsMove, NEW a \in Attempts, NEW h \in Humans(a),
         ToTell(h, att[a])
  PROVE  \/ ToTell(h, att'[a])
         \/ NotifyRolledBack(a) /\ h = att[a].humans[att[a].step]
         \/ CommitAttempt(a) /\ att'[a].stage = "publish"
<1>0. /\ AttemptsTyped /\ AttemptMoves(a) /\ att[a] \in AttemptRecord /\ att'[a] \in AttemptRecord
  BY DEF MatcherInv, Reserved, AttemptsMove, AttemptsTyped, AttemptType
<1>1. CASE Calm(att[a], att'[a])
  BY <1>1 DEF Calm, ToTell, At
<1>2. CASE CommitAttempt(a)
  BY <1>0, <1>2, CommitIs DEF ToTell, Early
<1>3. CASE PublishJoined(a)
  BY <1>3 DEF PublishJoined, ToTell, Early
<1>4. CASE RollbackRoom(a)
 <2>1. att'[a].stage = "notify" /\ att'[a].step = 1 /\ att'[a].humans = att[a].humans
   BY <1>0, <1>4, RollbackIs
 <2>2. \E i \in DOMAIN att'[a].humans : att'[a].humans[i] = h
   BY <2>1 DEF Humans
 <2>3. At(h, att'[a])
   BY <1>0, <2>1, <2>2, AtFirst
 <2> QED BY <2>1, <2>3 DEF ToTell
<1>5. CASE NotifyRolledBack(a) /\ h # att[a].humans[att[a].step]
 <2>1. /\ att[a].stage = "notify" /\ att'[a].humans = att[a].humans
       /\ \/ att[a].step = Len(att[a].humans)
          \/ att'[a].stage = "notify" /\ att'[a].step = att[a].step + 1
   BY <1>0, <1>5, NotifyIs
 <2>2. At(h, att[a])
   BY <2>1 DEF ToTell, Early
 <2>3. att[a].step # Len(att[a].humans) /\ (att'[a].step = att[a].step + 1 => At(h, att'[a]))
   BY <1>0, <1>5, <2>1, <2>2, AtNext
 <2> QED BY <2>1, <2>3 DEF ToTell
<1>6. CASE DispatchRemoval(a)
 <2>1. att[a].stage # "done"
   BY DEF ToTell, Early
 <2> QED BY <1>0, <1>6, <2>1, DispatchIs DEF ToTell, At
<1> QED BY <1>0, <1>1, <1>2, <1>3, <1>4, <1>5, <1>6 DEF AttemptMoves, Speaks

\* Nobody who waits for the news of a room that went is forgotten by its attempt.
LEMMA LeaversWait ==
  ASSUME AttemptsTyped, AttemptsFit, AttemptsMove, NEW a \in Attempts, NEW h \in att[a].left
  PROVE  h \in att'[a].left \/ DispatchRemoval(a)
<1>1. CASE Calm(att[a], att'[a])
  BY <1>1 DEF Calm
<1>2. CASE CommitAttempt(a) \/ PublishJoined(a) \/ RollbackRoom(a) \/ NotifyRolledBack(a)
  BY <1>2, CommitIs, PublishIs, RollbackIs, NotifyIs
<1> QED BY <1>1, <1>2 DEF AttemptsMove, AttemptMoves, Speaks

LEMMA NotifiedIs ==
  ASSUME HandlesTyped, LinksInv, Excuses, NEW a \in Attempts, NotifyRolledBack(a),
         NEW h \in Handles, h \in Humans(a), h = att[a].humans[att[a].step], OpenLast(h),
         told[h] = "queued" \/ Sending(h)
  PROVE  ~Held(h[1]) /\ Hears(h, "nothing")
<1>1. conn[h[1]] = h[2]
  BY OpenLastFits
<1>2. att[a].stage \in ListedStages
  BY DEF NotifyRolledBack, ListedStages
<1>3. att[a].excused # h[1]
  BY <1>2 DEF Excuses, Sending, InHandler
<1> QED BY <1>1, <1>3 DEF NotifyRolledBack

\* A request that still counts has an answer to come.
LEMMA WantedNotYet ==
  ASSUME MatcherInv, NEW h \in Handles, Wanted(h)
  PROVE  NotYet(h)
<1>1. PICK p \in Players : p = h[1]
  BY Handle
<1>2. EntryFits(entry[p]) /\ entry[p] \in EntryRecord
  BY DEF MatcherInv, Reserved, RequestsFit, EntriesFit, RequestsTyped
<1>3. CASE entry[p].state = "queued"
  BY <1>1, <1>2, <1>3 DEF EntryFits, NotYet
<1>4. CASE entry[p].state = "inflight"
 <2>1. PICK a \in Attempts : entry[p].attempt = a
   BY <1>2, <1>4, AttemptsNat DEF EntryFits, EntryRecord
 <2>2. Serves(p, a)
   BY DEF MatcherInv, Reserved, AttemptsServe
 <2>3. att[a].stage \in ListedStages /\ ~att[a].stopped
   BY <1>4, <2>1, <2>2 DEF Serves
 <2>4. AttInv(att[a])
   BY DEF MatcherInv, EveryAttemptFits
 <2>5. att[a].stage \in Early
   BY <2>3, <2>4 DEF AttInv, ListedStages, Early
 <2> QED BY <1>1, <2>1, <2>5 DEF NotYet, ToTell
<1> QED BY <1>1, <1>3, <1>4 DEF Wanted

-----------------------------------------------------------------------------
(* A request that is not over goes on                                      *)

LEMMA OwnedIsHuman ==
  ASSUME AttemptsServe, NEW h \in Handles, Owns(h), NEW a \in Attempts, entry[h[1]].attempt = a
  PROVE  att[a].stage \in ListedStages /\ h \in Humans(a)
<1>1. PICK p \in Players, n \in Nat : p = h[1] /\ n = h[2] /\ h = << p, n >>
  BY Handle
<1>2. Serves(p, a)
  BY DEF AttemptsServe
<1> QED BY <1>1, <1>2 DEF Serves, Owns

LEMMA RequestsGoOn ==
  ASSUME MatcherInv, AttemptsFit, [Next]_vars, NEW h \in Handles, Owns(h), NotYet(h)
  PROVE  \/ Owns(h)' /\ NotYet(h)'
         \/ ReplaceClient(h[1])
         \/ Ending(h[1]) /\ entry'[h[1]] = NoEntry
         \/ \E a \in Attempts : /\ NotifyRolledBack(a) /\ h \in Humans(a)
                                /\ h = att[a].humans[att[a].step]
<1>0. /\ MatcherInv' /\ AttemptsMove /\ AttemptsServe /\ AttemptsTyped
  BY StepFits, StepsOfAttempts DEF MatcherInv, Reserved
<1>1. PICK p \in Players, n \in Nat : p = h[1] /\ n = h[2] /\ n # 0
  BY Handle
<1>2. EntryMoves(p)
  BY StepMovesEntries
<1>3. CASE entry[p] = NoEntry
  BY <1>1, <1>3 DEF Owns, NoEntry
<1>4. CASE Freezes(p)
 <2>1. PICK a \in Attempts : entry'[p].attempt = a /\ att'[a].stage = "frozen"
   BY <1>4 DEF Freezes
 <2>2. ToTell(h, att'[a])
   BY <2>1 DEF ToTell, Early
 <2> QED BY <1>1, <1>4, <2>1, <2>2 DEF Freezes, Owns, NotYet
<1>5. CASE SameRequest(p) /\ entry[p].attempt = 0
  BY <1>1, <1>5 DEF SameRequest, Owns, NotYet
<1>6. ASSUME SameRequest(p), NEW a \in Attempts, entry[p].attempt = a, ToTell(h, att[a])
      PROVE  \/ Owns(h)' /\ NotYet(h)'
             \/ NotifyRolledBack(a) /\ h \in Humans(a) /\ h = att[a].humans[att[a].step]
 <2>1. h \in Humans(a)
   BY <1>0, <1>1, <1>6, OwnedIsHuman
 <2>2. \/ ToTell(h, att'[a])
       \/ NotifyRolledBack(a) /\ h = att[a].humans[att[a].step]
       \/ CommitAttempt(a) /\ att'[a].stage = "publish"
   BY <1>0, <1>6, <2>1, ToTellMoves
 <2>3. CASE ToTell(h, att'[a])
   BY <1>1, <1>6, <2>3 DEF SameRequest, Owns, NotYet
 <2>4. CASE CommitAttempt(a) /\ att'[a].stage = "publish"
  <3>1. entry' = [q \in Players |-> IF entry[q].attempt = a THEN NoEntry ELSE entry[q]]
    BY <1>0, <2>4, CommitIs
  <3>2. entry'[p].attempt = 0
    BY <1>6, <3>1 DEF NoEntry
  <3> QED BY <1>6, <3>2, AttemptsNat DEF SameRequest
 <2> QED BY <2>1, <2>2, <2>3, <2>4
<1>7. CASE SameRequest(p) /\ entry[p].attempt # 0
 <2>1. PICK a \in Attempts : entry[p].attempt = a /\ ToTell(h, att[a])
   BY <1>1, <1>7 DEF NotYet
 <2> QED BY <1>6, <1>7, <2>1
<1> QED BY <1>1, <1>2, <1>3, <1>4, <1>5, <1>7 DEF EntryMoves

-----------------------------------------------------------------------------
(* Whoever is being told that he is queued has still an answer to come     *)

SendsInTime ==
  \A h \in Handles : Sending(h) /\ Owns(h) /\ OpenLast(h) => NotYet(h)

\* What is being sent to the owner of a request, was before or begins with a check.
LEMMA SendsComeFrom ==
  ASSUME MatcherInv, LinksInv, FreshInv, [Next]_vars, NEW h \in Handles,
         Sending(h)', Owns(h), OpenLast(h)
  PROVE  Sending(h) \/ (PublishQueued(h) /\ Wanted(h) /\ UNCHANGED << requests, att >>)
<1>0. HandlesTyped /\ LinkKinds
  BY StepsOfLinks DEF MatcherInv
<1>1. PICK p \in Players : p = h[1]
  BY Handle
<1>2. CASE doing'[h] = "sending"
 <2>1. DoingMoves(h)
   BY <1>0, OnlyTheyBegin
 <2>2. ~(Enqueue(h) \/ PracticeMatch(h))
   BY <1>0, <1>2 DEF Enqueue, PracticeMatch, HandlesTyped
 <2>3. CASE PublishQueued(h)
  <3>1. ~closed /\ Wanted(h)
    BY <1>0, <1>2, <2>3 DEF PublishQueued, HandlesTyped
  <3> QED BY <2>3, <3>1 DEF PublishQueued
 <2> QED BY <1>2, <2>1, <2>2, <2>3 DEF DoingMoves, Sending
<1>3. CASE rejoin'[p].step = "migrated" /\ rejoin'[p].gen = h[2]
 <2>1. rejoin[p].step \notin {"rebound", "seated"} /\ rejoin[p] \in RejoinRecord
   BY <1>0, <1>1, OwnerIsNotRebound DEF HandlesTyped
 <2>2. rejoin[p].step # "none" /\ rejoin[p].gen = h[2]
  <3>1. CASE LinksSettle
    BY <1>3, <3>1 DEF LinksSettle, RejoinStays
  <3>2. ASSUME NEW g \in Handles, Disconnect(g) PROVE rejoin' = rejoin
    BY <3>2 DEF Disconnect
  <3>3. ASSUME NEW q \in Players, RebindClient(q) PROVE rejoin'[p] = rejoin[p]
   <4>1. p # q
     BY <1>0, <1>3, <3>3 DEF RebindClient, HandlesTyped
   <4> QED BY <1>0, <3>3, <4>1 DEF RebindClient, HandlesTyped
  <3>4. ASSUME NEW q \in Players, Undoes(q) PROVE rejoin'[p] = rejoin[p]
   <4>1. p # q
     BY <1>0, <1>3, <3>4 DEF Undoes, HandlesTyped, NoRejoin
   <4> QED BY <1>0, <3>4, <4>1 DEF Undoes, HandlesTyped
  <3> QED BY <1>0, <1>3, <3>1, <3>2, <3>3, <3>4 DEF LinkKinds
 <2> QED BY <1>1, <2>1, <2>2 DEF Sending, RejoinRecord
<1> QED BY <1>1, <1>2, <1>3 DEF Sending

LEMMA SendsStay ==
  ASSUME MatcherInv, LinksInv, FreshInv, AttemptsFit, Excuses, SendsInTime, [Next]_vars
  PROVE  SendsInTime'
<1>0. /\ HandlesTyped /\ LinkKinds /\ RequestsFit /\ RequestsTyped /\ AttemptsServe
  BY StepsOfLinks DEF MatcherInv, Reserved, RequestsFit
<1> SUFFICES ASSUME NEW h \in Handles, Sending(h)', Owns(h)', OpenLast(h)'
             PROVE  NotYet(h)'
  BY DEF SendsInTime
<1>1. PICK p \in Players, n \in Nat : p = h[1] /\ n = h[2] /\ h = << p, n >> /\ n # 0
  BY Handle
<1>2. ClientMoves(p)
  BY <1>0, StepMovesClients
<1>3. entry'[p].client = n
  BY <1>1 DEF Owns
<1>4. CASE SameClient(p)
 <2>1. Owns(h)
   BY <1>1, <1>3, <1>4 DEF SameClient, Owns
 <2>2. OpenLast(h)
   BY <1>0, <2>1, OpenLastComesFrom DEF FreshInv
 <2>3. CASE PublishQueued(h) /\ Wanted(h) /\ UNCHANGED << requests, att >>
  <3>1. NotYet(h)
    BY <2>3, WantedNotYet
  <3> QED BY <2>3, <3>1 DEF NotYet, requests
 <2>4. CASE Sending(h)
  <3>1. NotYet(h)
    BY <2>1, <2>2, <2>4 DEF SendsInTime
  <3>2. ~ReplaceClient(p)
    BY <1>0, <1>1, <2>1, <2>2, OwnerIsNotRebound DEF ReplaceClient
  <3>3. entry'[p] # NoEntry
    BY <1>1, <1>3 DEF NoEntry
  <3>4. ASSUME NEW a \in Attempts, NotifyRolledBack(a), h \in Humans(a),
               h = att[a].humans[att[a].step]
        PROVE  FALSE
   <4>1. ~Held(p)
     BY <1>0, <1>1, <2>2, <2>4, <3>4, NotifiedIs
   <4> QED BY <1>1, <2>4, <4>1 DEF Sending, Held
  <3> QED BY <1>1, <2>1, <3>1, <3>2, <3>3, <3>4, RequestsGoOn
 <2> QED BY <2>1, <2>2, <2>3, <2>4, SendsComeFrom
<1>5. CASE CanAct(h)
 <2>1. doing'[h] # "sending"
  <3>1. DoingMoves(h)
    BY <1>0, OnlyTheyBegin
  <3> QED BY <1>0, <1>5, <3>1 DEF DoingMoves, CanAct, Enqueue, PracticeMatch, PublishQueued,
          HandlesTyped
 <2>2. ~InHandler(h)'
   BY <1>0, <1>5, HandlerComesFrom DEF CanAct
 <2> QED BY <2>1, <2>2 DEF Sending, InHandler
<1>6. CASE ReplaceClient(p) /\ rejoin'[p].step = "migrated"
  BY <1>0, <1>1, <1>6, MigratedIsQueued DEF NotYet
<1>7. ASSUME NEW m \in 1..Links[p], entry'[p].client = m, CanAct(<< p, m >>) PROVE CanAct(h)
  BY <1>1, <1>3, <1>7
<1> QED BY <1>2, <1>4, <1>5, <1>6, <1>7 DEF ClientMoves

-----------------------------------------------------------------------------
(* What a client that waits is promised                                    *)

\* Without a seat: a notice, the end of a request, or the removal of its room.
AwaitsNews(h) ==
  /\ room[h] = 0
  /\ h \in notices \/ (Owns(h) /\ NotYet(h)) \/ \E a \in Attempts : h \in att[a].left
\* In the room of a match that is being made, or that it is to be told of.
AwaitsRoom(h) ==
  \E a \in Attempts :
    /\ room[h] = a
    /\ \/ Owns(h) /\ entry[h[1]].attempt = a /\ att[a].stage \in Seated
       \/ att[a].stage = "publish" /\ At(h, att[a])
Promised(h) == AwaitsNews(h) \/ AwaitsRoom(h)
PromisesKept == \A h \in Handles : Hopes(h) => Promised(h)

LEMMA HearsNothing ==
  ASSUME ToldTyped, NEW h \in Handles, Hopes(h), room[h] = 0, Hopes(h)'
  PROVE  ~Hears(h, "nothing")
BY DEF Hears, Reaches, Hopes, OpenLast, ToldTyped

LEMMA HopersMove ==
  ASSUME MatcherInv, LinksInv, FreshInv, [Next]_vars, NEW h \in Handles, Hopes(h), Hopes(h)',
         room[h] \in Attempts \cup {0}
  PROVE  \/ room'[h] = room[h] \/ LosesSeat(h)
         \/ \E a \in Attempts : Binds(a) /\ h \in Humans(a)
<1>0. HandlesTyped /\ ToldTyped
  BY DEF MatcherInv, HandlesTyped, ToldTyped
<1>1. rejoin[h[1]].step = "none"
  BY <1>0, HopesAreSettled
<1>2. ~Reseat(h[1])
  BY <1>1 DEF Reseat
<1>3. ~LeaveRoom(h) /\ ~EnterOtherRoom(h)
  BY <1>0 DEF LeaveRoom, EnterOtherRoom, Hopes, ToldTyped
<1>4. ~LeaveOtherRoom(h)
  BY MatcherAssumption DEF LeaveOtherRoom, Attempts, Elsewhere
<1>5. SeatMoves(h)
  BY StepMovesSeatOf
<1> QED BY <1>2, <1>3, <1>4, <1>5 DEF SeatMoves

\* A request that ends without a word to its client.
LEMMA EndingIsHeard ==
  ASSUME MatcherInv, LinksInv, FreshInv, SettlesBound, NEW h \in Handles, Hopes(h), Hopes(h)',
         Owns(h), NotYet(h), room[h] = 0, Ending(h[1]), entry'[h[1]] = NoEntry
  PROVE  h \in notices'
<1>0. /\ HandlesTyped /\ ToldTyped /\ AttemptsServe /\ EntriesFit /\ RequestsTyped
  BY DEF MatcherInv, HandlesTyped, ToldTyped, Reserved, RequestsFit
<1>1. PICK p \in Players, n \in Nat : p = h[1] /\ n = h[2] /\ h = << p, n >> /\ n # 0
  BY Handle
<1>2. rejoin[p].step = "none" /\ conn[p] = n /\ entry[p].client = n /\ OpenLast(h)
  BY <1>0, <1>1, HopesAreSettled DEF Owns, Hopes
<1>3. ~Hears(h, "nothing")
  BY <1>0, HearsNothing
<1>4. ASSUME NEW a \in Attempts, entry[p].attempt = a, CommitAttempt(a) PROVE FALSE
 <2>1. h \in Humans(a)
   BY <1>0, <1>1, <1>4, OwnedIsHuman
 <2>2. AttemptsTyped /\ att[a].stage = "settle"
   BY <1>4 DEF CommitAttempt, MatcherInv, Reserved
 <2>3. CASE Live(a)
  <3>1. room[h] = a
    BY <1>2, <2>1, <2>2, <2>3 DEF SettlesBound
  <3> QED BY <3>1, AttemptsNat
 <2>4. CASE ~Live(a)
  <3>1. entry' = RolledBack({a})
    BY <1>4, <2>4 DEF CommitAttempt, Fail
  <3>2. SameRequest(p)
    BY <1>0, <3>1, RolledRequests
  <3> QED BY <1>1, <1>2, <3>2 DEF SameRequest, NoEntry
 <2> QED BY <2>3, <2>4
<1>5. ASSUME NEW a \in Attempts, entry[p].attempt = a, Release(a) PROVE FALSE
 <2>1. ToTell(h, att[a])
   BY <1>1, <1>5, AttemptsNat DEF NotYet
 <2> QED BY <1>5, <2>1 DEF ToTell, Early, Release
<1>6. ~NotifyExpired(p)
  BY <1>1, <1>2, <1>3 DEF NotifyExpired
<1>7. CASE entry[p].state = "queued" /\ (Drain \/ Close)
 <2>1. PICK i \in 1..Len(queue) : queue[i] = p
   BY <1>0, <1>7 DEF EntriesFit, IsIn
 <2>2. i \in DOMAIN queue
   BY <1>0, <2>1 DEF RequestsTyped
 <2>3. << queue[i], entry[queue[i]].client >> = h
   BY <1>1, <1>2, <2>1
 <2>4. notices' = { << queue[j], entry[queue[j]].client >> : j \in DOMAIN queue }
   BY <1>7 DEF Drain, Close, CancelAll
 <2> QED BY <2>2, <2>3, <2>4
<1>8. ASSUME NEW g \in Handles, g[1] = p, GivesUp(g) PROVE FALSE
 <2>1. g[2] = n
   BY <1>2, <1>8 DEF GivesUp, Owns
 <2>2. g = h
   BY <1>1, <1>8, <2>1, Handle
 <2>3. ~CancelMatch(h)
   BY <1>0 DEF CancelMatch, Hopes, ToldTyped
 <2>4. ~Disconnect(h) /\ Reaches(h)
   BY <1>2 DEF Disconnect, OpenLast, Reaches
 <2> QED BY <1>8, <2>2, <2>3, <2>4 DEF GivesUp
<1> QED BY <1>1, <1>4, <1>5, <1>6, <1>7, <1>8 DEF Ending

LEMMA NewsStays ==
  ASSUME MatcherInv, LinksInv, FreshInv, AttemptsFit, Excuses, SettlesBound, [Next]_vars,
         NEW h \in Handles, Hopes(h), Hopes(h)', AwaitsNews(h)
  PROVE  Promised(h)'
<1>0. /\ HandlesTyped /\ ToldTyped /\ AttemptsServe /\ AttemptsTyped /\ AttemptsMove
  BY StepsOfAttempts DEF MatcherInv, HandlesTyped, ToldTyped, Reserved
<1>1. /\ rejoin[h[1]].step = "none" /\ OpenLast(h) /\ room[h] = 0 /\ told[h] = "queued"
      /\ ~Hears(h, "nothing")
  BY <1>0, HopesAreSettled, HearsNothing DEF AwaitsNews, Hopes
<1>2. CASE \E a \in Attempts : Binds(a) /\ h \in Humans(a)
 <2>1. PICK a \in Attempts : Binds(a) /\ h \in Humans(a)
   BY <1>2
 <2>2. entry[h[1]].attempt = a /\ Owns(h)
   BY <1>0, <2>1, HumanOwns DEF Binds, ListedStages
 <2>3. att'[a].stage = "ready"
  <3>1. PICK y : y = [att[a] EXCEPT !.stage = "ready", !.room = "waiting"]
    OBVIOUS
  <3>2. y.stage = "ready"
    BY <1>0, <3>1 DEF AttemptsTyped, AttemptType, AttemptRecord
  <3> QED BY <1>0, <2>1, <3>1, <3>2 DEF Binds, AttemptsTyped
 <2>4. room'[h] = a /\ UNCHANGED entry
   BY <2>1 DEF Binds
 <2> QED BY <2>2, <2>3, <2>4 DEF Promised, AwaitsRoom, Owns, Seated
<1>3. CASE room'[h] = 0
 <2>1. CASE Owns(h) /\ NotYet(h)
  <3>1. ~ReplaceClient(h[1])
    BY <1>1 DEF ReplaceClient
  <3>2. CASE Ending(h[1]) /\ entry'[h[1]] = NoEntry
   <4>1. h \in notices'
     BY <1>1, <2>1, <3>2, EndingIsHeard
   <4> QED BY <1>3, <4>1 DEF Promised, AwaitsNews
  <3>3. ASSUME NEW a \in Attempts, NotifyRolledBack(a), h \in Humans(a),
               h = att[a].humans[att[a].step]
        PROVE  FALSE
    BY <1>0, <1>1, <3>3, NotifiedIs
  <3>4. CASE Owns(h)' /\ NotYet(h)'
    BY <1>3, <3>4 DEF Promised, AwaitsNews
  <3> QED BY <2>1, <3>1, <3>2, <3>3, <3>4, RequestsGoOn
 <2>2. CASE h \in notices
  <3>1. h \in notices'
    BY <1>1, <2>2, NoticesMove DEF NotifyPending
  <3> QED BY <1>3, <3>1 DEF Promised, AwaitsNews
 <2>3. ASSUME NEW a \in Attempts, h \in att[a].left PROVE Promised(h)'
  <3>1. CASE h \in att'[a].left
    BY <1>3, <3>1 DEF Promised, AwaitsNews
  <3>2. CASE DispatchRemoval(a)
   <4>1. Reaches(h)
     BY <1>1 DEF Reaches, OpenLast
   <4>2. Wanted(h)
     BY <1>0, <2>3, <3>2, <4>1 DEF DispatchRemoval, Hopes
   <4>3. Owns(h) /\ NotYet(h)
     BY <4>2, WantedNotYet DEF Wanted
   <4> QED BY <2>1, <4>3
  <3> QED BY <1>0, <2>3, <3>1, <3>2, LeaversWait
 <2> QED BY <2>1, <2>2, <2>3 DEF AwaitsNews
<1>4. \A a \in Attempts : a # 0
  BY AttemptsNat
<1> QED BY <1>1, <1>2, <1>3, <1>4, HopersMove DEF LosesSeat

\* The seat of a client that waits for the news of its room.
LEMMA SeatStays ==
  ASSUME MatcherInv, LinksInv, FreshInv, AttemptsFit, AttemptsMove, [Next]_vars, NEW h \in Handles,
         Hopes(h), Hopes(h)', NEW a \in Attempts, room[h] = a, room'[h] = a,
         Owns(h), entry[h[1]].attempt = a, att[a].stage \in Seated
  PROVE  AwaitsRoom(h)'
<1>0. /\ HandlesTyped /\ AttemptsServe /\ AttemptsTyped /\ RequestsTyped /\ EntriesFit /\ SeatsLive
  BY DEF MatcherInv, Reserved, RequestsFit
<1>01. Live(a) /\ Live(a)'
  BY <1>0, StepFits DEF SeatsLive, MatcherInv
<1>1. PICK p \in Players, n \in Nat : p = h[1] /\ n = h[2] /\ n # 0
  BY Handle
<1>2. h \in Humans(a) /\ att[a] \in AttemptRecord /\ AttemptMoves(a) /\ a # 0
  BY <1>0, OwnedIsHuman, AttemptsNat DEF AttemptsTyped, AttemptType, AttemptsMove
<1>3. CASE CommitAttempt(a) /\ att'[a].stage # "rollback"
 <2>1. att'[a].stage = "publish" /\ att'[a].step = 1 /\ att'[a].humans = att[a].humans
   BY <1>0, <1>3, CommitIs
 <2>2. \E i \in DOMAIN att'[a].humans : att'[a].humans[i] = h
   BY <1>2, <2>1 DEF Humans
 <2>3. att'[a] \in AttemptRecord
   BY StepFits DEF MatcherInv, Reserved, AttemptsTyped, AttemptType
 <2>4. At(h, att'[a])
   BY <2>1, <2>2, <2>3, AtFirst
 <2> QED BY <2>1, <2>4 DEF AwaitsRoom
<1>4. CASE ~(CommitAttempt(a) /\ att'[a].stage # "rollback")
 <2>1. att'[a].stage \in Seated
  <3>1. ~RollbackRoom(a)
    BY <1>0, <1>01, RollbackIs
  <3>2. ~PublishJoined(a) /\ ~NotifyRolledBack(a)
    BY DEF PublishJoined, NotifyRolledBack, Seated
  <3>3. ~DispatchRemoval(a)
    BY <1>01 DEF DispatchRemoval, Live
  <3>4. CASE Calm(att[a], att'[a])
    BY <3>4 DEF Calm
  <3>5. CASE CommitAttempt(a)
    BY <1>4, <3>5 DEF Seated
  <3> QED BY <1>2, <3>1, <3>2, <3>3, <3>4, <3>5 DEF AttemptMoves, Speaks
 <2>2. SameRequest(p)
  <3>1. entry[p] # NoEntry /\ entry[p].state # "queued" /\ entry[p].attempt = a
    BY <1>0, <1>1, <1>2 DEF Owns, NoEntry, EntriesFit, EntryFits
  <3>2. ~ReplaceClient(p)
    BY <1>0, <1>1, HopesAreSettled DEF ReplaceClient
  <3>3. ~NotifyExpired(p)
    BY <1>2, <3>1 DEF NotifyExpired
  <3>4. ~Release(a)
    BY DEF Release, Seated
  <3>5. ASSUME NEW g \in Handles, g[1] = p PROVE ~GivesUp(g)
    BY <3>1, <3>5 DEF GivesUp
  <3>6. CASE CommitAttempt(a)
   <4>1. entry' = RolledBack({a})
     BY <1>0, <1>4, <3>6, CommitIs
   <4> QED BY <1>0, <4>1, RolledRequests
  <3>7. EntryMoves(p)
    BY StepMovesEntries
  <3> QED BY <3>1, <3>2, <3>3, <3>4, <3>5, <3>6, <3>7 DEF EntryMoves, Freezes, Ending
 <2> QED BY <1>1, <2>1, <2>2 DEF SameRequest, AwaitsRoom, Owns
<1> QED BY <1>3, <1>4

LEMMA RoomStays ==
  ASSUME MatcherInv, LinksInv, FreshInv, AttemptsFit, [Next]_vars,
         NEW h \in Handles, Hopes(h), Hopes(h)', AwaitsRoom(h)
  PROVE  Promised(h)'
<1>0. /\ HandlesTyped /\ ToldTyped /\ AttemptsTyped /\ AttemptsMove /\ SeatsLive
  BY StepsOfAttempts DEF MatcherInv, HandlesTyped, ToldTyped, Reserved
<1>1. PICK a \in Attempts :
        /\ room[h] = a
        /\ \/ Owns(h) /\ entry[h[1]].attempt = a /\ att[a].stage \in Seated
           \/ att[a].stage = "publish" /\ At(h, att[a])
  BY DEF AwaitsRoom
<1>2. a # 0 /\ Live(a)
  BY <1>0, <1>1, AttemptsNat DEF SeatsLive
<1>3. CASE LosesSeat(h)
  BY <1>3 DEF LosesSeat, Promised, AwaitsNews
<1>4. CASE room'[h] = a /\ Owns(h) /\ entry[h[1]].attempt = a /\ att[a].stage \in Seated
  BY <1>0, <1>1, <1>4, SeatStays DEF Promised
<1>5. CASE room'[h] = a /\ att[a].stage = "publish" /\ At(h, att[a])
 <2>1. Live(a)'
   BY <1>5, StepFits DEF MatcherInv, SeatsLive
 <2>2. att[a] \in AttemptRecord /\ att'[a] \in AttemptRecord /\ AttemptMoves(a)
   BY <1>0, StepFits DEF MatcherInv, Reserved, AttemptsTyped, AttemptType, AttemptsMove
 <2>3. att'[a].stage = "publish" /\ At(h, att'[a])
  <3>1. CASE Calm(att[a], att'[a])
    BY <1>5, <3>1 DEF Calm, At
  <3>2. CASE PublishJoined(a)
   <4>1. /\ att'[a].humans = att[a].humans
         /\ told' = [told EXCEPT ![att[a].humans[att[a].step]] = "nothing"]
         /\ \/ att[a].step = Len(att[a].humans)
            \/ att'[a].stage = "publish" /\ att'[a].step = att[a].step + 1
     BY <1>0, <2>1, <3>2, PublishIs
   <4>2. att[a].humans[att[a].step] # h
     BY <1>0, <4>1 DEF Hopes, ToldTyped
   <4>3. att[a].step # Len(att[a].humans) /\ (att'[a].step = att[a].step + 1 => At(h, att'[a]))
     BY <1>5, <2>2, <4>1, <4>2, AtNext
   <4> QED BY <4>1, <4>3
  <3>3. ~CommitAttempt(a) /\ ~RollbackRoom(a) /\ ~NotifyRolledBack(a)
    BY <1>5 DEF CommitAttempt, RollbackRoom, NotifyRolledBack
  <3>4. ~DispatchRemoval(a)
    BY <1>2 DEF DispatchRemoval, Live
  <3> QED BY <2>2, <3>1, <3>2, <3>3, <3>4 DEF AttemptMoves, Speaks
 <2> QED BY <1>5, <2>3 DEF Promised, AwaitsRoom
<1>6. ~\E b \in Attempts : Binds(b) /\ h \in Humans(b)
  BY <1>1, <1>2 DEF Binds, Unbound
<1> QED BY <1>1, <1>3, <1>4, <1>5, <1>6, HopersMove

\* An answer that is sent is a promise: the request of its owner is not over.
LEMMA SentIsPromised ==
  ASSUME MatcherInv, SendsInTime, NEW h \in Handles, OpenLast(h), told[h] # "queued", Hopes(h)',
         \/ SendQueued(h)
         \/ \E p \in Players : SendMigrated(p) /\ h = << p, rejoin[p].gen >>
  PROVE  Promised(h)'
<1>0. ToldTyped /\ AttemptsTyped
  BY DEF MatcherInv, HandlesTyped, ToldTyped, Reserved
<1>1. Hears(h, IF Owns(h) THEN "queued" ELSE "stale")
  BY DEF SendQueued, SendMigrated
<1>2. Owns(h) /\ Reaches(h)
  BY <1>0, <1>1 DEF Hears, Hopes, ToldTyped
<1>3. Sending(h)
 <2>1. ASSUME NEW p \in Players, SendMigrated(p), h = << p, rejoin[p].gen >> PROVE Sending(h)
  <3>1. h[1] = p /\ h[2] = rejoin[p].gen
    BY <2>1
  <3> QED BY <2>1, <3>1 DEF Sending, SendMigrated
 <2>2. CASE SendQueued(h)
   BY <2>2 DEF SendQueued, Sending
 <2> QED BY <2>1, <2>2
<1>4. NotYet(h)
  BY <1>2, <1>3 DEF SendsInTime
<1>5. UNCHANGED << entry, room >> /\ (att' = Launched(att, h) \/ UNCHANGED att)
 <2>1. ASSUME NEW p \in Players, SendMigrated(p), h = << p, rejoin[p].gen >>
       PROVE  UNCHANGED << entry, room, att >>
   BY <1>2, <2>1 DEF SendMigrated, requests
 <2>2. CASE SendQueued(h)
  <3>1. PICK c : /\ c = [entry |-> entry, queue |-> queue, fill |-> fill, att |-> att]
                 /\ entry' = c.entry /\ att' = Launched(c.att, h)
    BY <1>2, <2>2 DEF SendQueued
  <3>2. UNCHANGED room
    BY <2>2 DEF SendQueued
  <3> QED BY <3>1, <3>2
 <2> QED BY <2>1, <2>2
<1>6. ASSUME NEW a \in Attempts, ToTell(h, att[a]) PROVE ToTell(h, att'[a])
 <2>1. Alikes(att[a], att'[a])
   BY <1>0, <1>5, LaunchedAlikes DEF AttemptsTyped, Alikes
 <2> QED BY <1>6, <2>1 DEF Alikes, ToTell, At
<1>7. NotYet(h)'
  BY <1>4, <1>5, <1>6 DEF NotYet
<1> QED BY <1>2, <1>5, <1>7 DEF Promised, AwaitsNews, Owns, Reaches

LEMMA PromisesStay ==
  ASSUME MatcherInv, LinksInv, FreshInv, AttemptsFit, Excuses, SettlesBound, SendsInTime,
         PromisesKept, [Next]_vars
  PROVE  PromisesKept'
<1> SUFFICES ASSUME NEW h \in Handles, Hopes(h)' PROVE Promised(h)'
  BY DEF PromisesKept
<1>1. /\ OpenLast(h)
      /\ \/ told[h] = "queued" \/ SendQueued(h)
         \/ \E p \in Players : SendMigrated(p) /\ h = << p, rejoin[p].gen >>
  BY HopesComeFrom
<1>2. CASE told[h] = "queued"
 <2>1. Hopes(h)
   BY <1>1, <1>2 DEF Hopes
 <2>2. AwaitsNews(h) \/ AwaitsRoom(h)
   BY <2>1 DEF PromisesKept, Promised
 <2> QED BY <2>1, <2>2, NewsStays, RoomStays
<1>3. CASE told[h] # "queued"
  BY <1>1, <1>3, SentIsPromised
<1> QED BY <1>2, <1>3

-----------------------------------------------------------------------------
(* The invariant                                                           *)

WaitInv ==
  /\ MatcherInv /\ LinksInv /\ FreshInv /\ AttemptsFit
  /\ Excuses /\ SettlesBound /\ SendsInTime /\ PromisesKept

LEMMA InitWaits == Init => WaitInv
<1> SUFFICES ASSUME Init PROVE WaitInv
  OBVIOUS
<1>1. MatcherInv
  BY InitFits
<1>2. LinksInv
 <2>1. ASSUME NEW p \in Players, NEW n \in 1..Links[p]
       PROVE  link[<< p, n >>] = IF n = 1 THEN "open" ELSE "unborn"
   BY <2>1, HandleOf DEF Init
 <2>2. \A p \in Players : 1 \in 1..Links[p] /\ Links[p] \in Nat
   BY MatcherAssumption
 <2>3. LinksInOrder
   BY <2>1, <2>2 DEF LinksInOrder
 <2>4. Registered /\ BornConns
   BY <2>1, <2>2 DEF Registered, BornConns, Init
 <2>5. TakeoversFit
   BY DEF TakeoversFit, Init, NoRejoin
 <2> QED BY <2>3, <2>4, <2>5 DEF LinksInv
<1>3. FreshInv
 <2>1. ASSUME NEW h \in Handles, link[h] = "unborn" PROVE Quiets(h) /\ ~Owns(h)
  <3>1. h[1] \in Players /\ h[2] # 0
    BY Handle
  <3> QED BY <2>1, <3>1 DEF Init, Quiets, Owns, NoEntry
 <2>2. \A p \in Players : rejoin[p].step = "none"
   BY DEF Init, NoRejoin
 <2> QED BY <2>1, <2>2 DEF FreshInv
<1>4. AttemptsFit /\ Excuses /\ SettlesBound
  BY DEF Init, AttemptsFit, AttFit, Unused, Excuses, SettlesBound, ListedStages
<1>5. SendsInTime /\ PromisesKept
 <2>1. \A h \in Handles : h[1] \in Players
   BY Handle
 <2>2. \A h \in Handles : ~Sending(h)
   BY <2>1 DEF Init, Sending, NoRejoin
 <2>3. \A h \in Handles : ~Hopes(h)
   BY DEF Init, Hopes
 <2> QED BY <2>2, <2>3 DEF SendsInTime, PromisesKept
<1> QED BY <1>1, <1>2, <1>3, <1>4, <1>5 DEF WaitInv

LEMMA WaitInvStays == WaitInv /\ [Next]_vars => WaitInv'
<1> SUFFICES ASSUME WaitInv, [Next]_vars PROVE WaitInv'
  OBVIOUS
<1>1. /\ MatcherInv /\ LinksInv /\ FreshInv /\ AttemptsFit
      /\ Excuses /\ SettlesBound /\ SendsInTime /\ PromisesKept
  BY DEF WaitInv
<1>2. MatcherInv' /\ HandlesTyped
  BY <1>1, StepFits DEF MatcherInv
<1>3. LinksInv'
  BY <1>1, <1>2, StepsOfLinks, LinksStayFit
<1>4. FreshInv'
  BY <1>1, FreshStays
<1>5. AttemptsFit'
  BY <1>1, StepsOfAttempts, AttemptsStayFit
<1>6. Excuses' /\ SettlesBound'
  BY <1>1, ExcusesStay, SettlesStayBound
<1>7. SendsInTime'
  BY <1>1, SendsStay
<1>8. PromisesKept'
  BY <1>1, PromisesStay
<1> QED BY <1>2, <1>3, <1>4, <1>5, <1>6, <1>7, <1>8 DEF WaitInv

LEMMA PromisedIsAccounted == WaitInv => NobodyIsLeftWaiting
<1> SUFFICES ASSUME WaitInv, NEW h \in Handles, Waits(h), ~Replaced(h) PROVE Accounted(h)
  BY DEF NobodyIsLeftWaiting
<1>1. Hopes(h)
  BY DEF Waits, Replaced, Hopes, OpenLast, LastBorn
<1>2. Promised(h)
  BY <1>1 DEF WaitInv, PromisesKept
<1> QED BY <1>2 DEF Promised, AwaitsNews, AwaitsRoom, Accounted

\* A client that was told that it is queued, and that nobody replaced, is never
\* forgotten by matcher.go: its request is not over, its notice is about to be
\* sent, its room's removal is about to be told, or its RoomJoined is to come;
\* whatever cancellations, deadlines, reconnects, drains and failures intervene.
THEOREM NobodyIsForgotten == Spec => []NobodyIsLeftWaiting
<1>1. Init => WaitInv
  BY InitWaits
<1>2. WaitInv /\ [Next]_vars => WaitInv'
  BY WaitInvStays
<1>3. WaitInv => NobodyIsLeftWaiting
  BY PromisedIsAccounted
<1> QED BY <1>1, <1>2, <1>3, PTL DEF Spec
=============================================================================
