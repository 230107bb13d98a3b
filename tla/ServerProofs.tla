---------------------------- MODULE ServerProofs ----------------------------
(***************************************************************************)
(* The server, for any connections, games and scenes.  Whatever it does,   *)
(* its operational state takes only steps that keep the counted leases     *)
(* equal to the games that hold one, which makes "safe to restart" final;  *)
(* its places, players and bans stay right; and what its shutdown has      *)
(* ended stays over until Redis is closed.                                 *)
(***************************************************************************)
EXTENDS Server, FiniteSetTheorems, TLAPS

Held == {g \in Games : game[g] # "none"}

\* Every lease is held by a game, and every game that is not over and settled
\* has its lease (gameStartLeases).
LeasesCounted == leases = Cardinality(Held)

\* What was admitted before a drain has ended before it (operationalAdmissionMu).
AdmissionsEnded ==
  mode # "normal" => \A c \in Connections : inside[c] \in {"none", "join"}

\* Once its cancellation is done nobody waits for a match on a draining server.
QueueCancelled == mode # "normal" /\ change.step # "cancelling" => queued = {}

\* What "safe to restart" was concluded from.
SafeBasis == safe => mode # "normal" /\ leases = 0 /\ queued = {}

OperationsInv ==
  OperationsTypeOK /\ LeasesCounted /\ AdmissionsEnded /\ QueueCancelled /\ SafeBasis

\* The waiting connections that leave the queue or are replaced in it.
QueueMoves ==
  /\ queued' \subseteq Connections /\ (queued = {} => queued' = {})
  /\ UNCHANGED << mode, change, inside, game, leases, poll, safe >>

MatcherCloses ==
  /\ queued' = {}
  /\ game' = [g \in Games |-> IF game[g] = "matched" THEN "none" ELSE Withdrawn[g]]
  /\ leases' = leases - Cardinality(In({"matched"}))
  /\ UNCHANGED << mode, change, inside, poll, safe >>

RoomsClose ==
  /\ game' = [g \in Games |-> IF game[g] \in Playing THEN "none" ELSE game[g]]
  /\ leases' = leases - Cardinality(In(Playing))
  /\ UNCHANGED << mode, change, inside, queued, poll, safe >>

\* The steps of the operational state, whatever part of the server takes them.
OfConnection(c) ==
  \/ Return(c) \/ Enqueue(c) \/ MatchRefused(c)
  \/ \E kind \in Kinds : Enter(c, kind)
  \/ \E g \in Games : ReadyStarts(c, g) \/ MatchLeases(c, g)

OfGame(g) == MatchCommits(g) \/ MatchAborts(g) \/ EndGame(g) \/ Settled(g)

OfPoller(r) == CountGames(r) \/ Judge(r) \/ \E to \in Modes : Request(r, to)

OperationsStep ==
  \/ \E c \in Connections : OfConnection(c)
  \/ \E g \in Games : OfGame(g)
  \/ \E r \in Pollers : OfPoller(r)
  \/ Swap \/ CancelPending \/ Announce
  \/ QueueMoves \/ MatcherCloses \/ RoomsClose

-----------------------------------------------------------------------------
(* Every step of the server is one of these, or leaves them alone.         *)

LEMMA ConnectionSteps ==
  ASSUME OperationsInv, NEW c \in Connections,
         \/ Knock(c) \/ Refuse(c) \/ Upgrade(c) \/ HandshakeFails(c)
         \/ Register(c) \/ Activate(c) \/ Withdraw(c)
         \/ StopReading(c) \/ Disconnect(c) \/ StopWriting(c) \/ Reconnecting(c)
         \/ CommandEnds(c) \/ MatchEnds(c)
         \/ \E p \in Connections : Rebind(c, p)
         \/ \E kind \in Kinds : Command(c, kind)
         \/ \E g \in Games : Starts(c, g)
  PROVE  OperationsStep \/ UNCHANGED operation
<1>1. queued \subseteq Connections
  BY DEF OperationsInv, OperationsTypeOK
<1>2. CASE \/ Knock(c) \/ Refuse(c) \/ Upgrade(c) \/ HandshakeFails(c)
           \/ Register(c) \/ Activate(c) \/ Withdraw(c)
           \/ StopReading(c) \/ StopWriting(c) \/ RollBack(c)
           \/ \E p \in Connections : Rebind(c, p)
  BY <1>2 DEF Knock, Refuse, Upgrade, HandshakeFails, Register, Activate, Withdraw,
              StopReading, StopWriting, RollBack, Rebind, operation
<1>3. CASE Disconnect(c) \/ Finish(c)
 <2>1. QueueMoves
   BY <1>1, <1>3 DEF Disconnect, Finish, QueueMoves
 <2> QED BY <2>1 DEF OperationsStep
<1>4. CASE CommandEnds(c) \/ MatchEnds(c)
  BY <1>4 DEF CommandEnds, MatchEnds, OperationsStep, OfConnection
<1>5. CASE \E kind \in Kinds : Command(c, kind)
  BY <1>5 DEF Command, OperationsStep, OfConnection
<1>6. CASE \E g \in Games : Starts(c, g)
  BY <1>6 DEF Starts, OperationsStep, OfConnection
<1> QED BY <1>2, <1>3, <1>4, <1>5, <1>6 DEF Reconnecting

LEMMA OperatorSteps ==
  ASSUME \/ \E to \in Modes : ChangeMode(to)
         \/ \E p \in Connections : Ban(p) \/ AdminDisconnect(p) \/ Unban(p)
         \/ Persist \/ Status \/ ChangeStep \/ Signal
  PROVE  OperationsStep \/ UNCHANGED operation
<1>1. CASE \/ \E p \in Connections : Ban(p) \/ AdminDisconnect(p) \/ Unban(p)
           \/ Persist \/ Signal
  BY <1>1 DEF Ban, AdminDisconnect, Unban, Persist, Signal, operation
<1>2. CASE \E to \in Modes : ChangeMode(to)
  BY <1>2 DEF ChangeMode, OperationsStep, OfPoller, Pollers
<1>3. CASE Status
  BY <1>3 DEF Status, OperationsStep, OfPoller, Pollers
<1>4. CASE ChangeStep
  BY <1>4 DEF ChangeStep, OperationsStep
<1> QED BY <1>1, <1>2, <1>3, <1>4

LEMMA ShutdownSteps ==
  ASSUME ShutdownStep
  PROVE  OperationsStep \/ UNCHANGED operation
<1>1. CASE \/ InMaintenance \/ TimeOut \/ StopServing \/ MatcherDone
           \/ CloseClients \/ PumpsDone \/ CloseRedis
  BY <1>1 DEF InMaintenance, TimeOut, StopServing, MatcherDone, CloseClients, PumpsDone,
              CloseRedis, operation
<1>2. CASE EnterMaintenance
  BY <1>2 DEF EnterMaintenance, OperationsStep, OfPoller, Pollers, Modes
<1>3. CASE Wait
  BY <1>3 DEF Wait, OperationsStep, OfPoller, Pollers
<1>4. CASE CloseMatcher
  BY <1>4 DEF CloseMatcher, MatcherCloses, OperationsStep
<1>5. CASE CloseRooms
  BY <1>5 DEF CloseRooms, RoomsClose, OperationsStep
<1> QED BY <1>1, <1>2, <1>3, <1>4, <1>5 DEF ShutdownStep

LEMMA ServerTakesOperationsSteps ==
  ASSUME OperationsInv, [ServerNext]_serverVars
  PROVE  OperationsStep \/ UNCHANGED operation
<1>1. CASE UNCHANGED serverVars
  BY <1>1 DEF serverVars, operation
<1>2. CASE ServerNext
 <2>1. CASE \E g \in Games : GameStep(g)
   BY <2>1 DEF GameStep, OperationsStep, OfGame
 <2> QED BY <1>2, <2>1, ConnectionSteps, OperatorSteps, ShutdownSteps DEF ServerNext
<1> QED BY <1>1, <1>2

-----------------------------------------------------------------------------
(* The leases and the games that hold them.                                *)

LEMMA HeldIsFinite == IsFiniteSet(Held) /\ Cardinality(Held) \in Nat
<1>1. Held \subseteq Games
  BY DEF Held
<1> QED BY <1>1, OperationsAssumption, FS_Subset, FS_CardinalityType

\* One more lease for one more game.
LEMMA LeaseKeepsCount ==
  ASSUME OperationsInv, NEW g \in Games, NEW stage0 \in {"leased", "readied"}, LeaseTo(g, stage0)
  PROVE  LeasesCounted'
<1>1. Held' = Held \cup {g} /\ g \notin Held
  BY DEF LeaseTo, Held, OperationsInv, OperationsTypeOK
<1> QED BY <1>1, HeldIsFinite, FS_AddElement DEF LeaseTo, LeasesCounted, OperationsInv

\* A lease that is released was held.
LEMMA ReleaseKeepsCount ==
  ASSUME OperationsInv, NEW g \in Games, game[g] # "none", Release(g)
  PROVE  LeasesCounted' /\ leases' \in Nat
<1>1. Held' = Held \ {g} /\ g \in Held
  BY DEF Release, Held, OperationsInv, OperationsTypeOK
<1>2. Cardinality(Held') = Cardinality(Held) - 1
  BY <1>1, HeldIsFinite, FS_RemoveElement
<1>3. IsFiniteSet(Held') /\ Cardinality(Held') \in Nat
  BY <1>1, HeldIsFinite, FS_RemoveElement, FS_CardinalityType
<1> QED BY <1>2, <1>3 DEF Release, LeasesCounted, OperationsInv

\* The games of some stages end all at once.
LEMMA EndingKeepsCount ==
  ASSUME OperationsInv, NEW stages, "none" \notin stages,
         Held' = Held \ In(stages), leases' = leases - Cardinality(In(stages))
  PROVE  LeasesCounted' /\ leases' \in Nat
<1>1. Held \cap In(stages) = In(stages)
  BY DEF Held, In
<1>2. Cardinality(Held') = Cardinality(Held) - Cardinality(In(stages))
 <2>1. IsFiniteSet(Held)
   BY HeldIsFinite
 <2>2. Cardinality(Held \ In(stages)) = Cardinality(Held) - Cardinality(Held \cap In(stages))
   BY <2>1, FS_Difference, Zenon
 <2> QED BY <1>1, <2>2
<1>3. IsFiniteSet(Held') /\ Cardinality(Held') \in Nat
 <2>1. IsFiniteSet(Held \ In(stages))
   BY HeldIsFinite, FS_Difference, Zenon
 <2> QED BY <2>1, FS_CardinalityType
<1> QED BY <1>2, <1>3 DEF LeasesCounted, OperationsInv
-----------------------------------------------------------------------------
(* The invariant, step by step.                                            *)

LEMMA ConnectionsKeepInv ==
  ASSUME OperationsInv, NEW c \in Connections, OfConnection(c)
  PROVE  OperationsInv'
<1> USE DEF OperationsInv
<1>1. CASE Return(c) \/ Enqueue(c) \/ MatchRefused(c) \/ \E kind \in Kinds : Enter(c, kind)
 <2>1. OperationsTypeOK'
   BY <1>1 DEF Return, Enqueue, MatchRefused, Enter, OperationsTypeOK
 <2>2. UNCHANGED << mode, change, game, leases, safe >>
   BY <1>1 DEF Return, Enqueue, MatchRefused, Enter
 <2>3. LeasesCounted'
   BY <2>2 DEF LeasesCounted, Held
 <2>4. AdmissionsEnded'
   BY <1>1 DEF Return, Enqueue, MatchRefused, Enter, AdmissionsEnded, OperationsTypeOK, Admitted
 <2>5. QueueCancelled' /\ SafeBasis'
   BY <1>1 DEF Return, Enqueue, MatchRefused, Enter, AdmissionsEnded, QueueCancelled, SafeBasis
 <2> QED BY <2>1, <2>3, <2>4, <2>5
<1>2. ASSUME NEW g \in Games, ReadyStarts(c, g) \/ MatchLeases(c, g)
      PROVE  OperationsInv'
 <2>1. PICK stage0 \in {"leased", "readied"} : LeaseTo(g, stage0)
   BY <1>2 DEF ReadyStarts, MatchLeases
 <2>2. OperationsTypeOK'
   BY <1>2, <2>1 DEF ReadyStarts, MatchLeases, LeaseTo, OperationsTypeOK, Pending, Playing
 <2>3. LeasesCounted'
   BY <2>1, LeaseKeepsCount
 <2>4. mode = "normal" /\ UNCHANGED << mode, safe >>
   BY <1>2 DEF ReadyStarts, MatchLeases, LeaseTo
 <2>5. AdmissionsEnded' /\ QueueCancelled' /\ SafeBasis'
   BY <2>4 DEF AdmissionsEnded, QueueCancelled, SafeBasis
 <2> QED BY <2>2, <2>3, <2>5
<1> QED BY <1>1, <1>2 DEF OfConnection

LEMMA GamesKeepInv ==
  ASSUME OperationsInv, NEW g \in Games, OfGame(g)
  PROVE  OperationsInv'
<1> USE DEF OperationsInv
<1>1. UNCHANGED << mode, change, inside, queued, poll, safe >>
  BY DEF OfGame, MatchCommits, MatchAborts, EndGame, Settled
<1>2. AdmissionsEnded' /\ QueueCancelled'
  BY <1>1 DEF AdmissionsEnded, QueueCancelled
<1>3. CASE MatchCommits(g) \/ EndGame(g)
 <2>1. OperationsTypeOK'
   BY <1>1, <1>3 DEF MatchCommits, EndGame, OperationsTypeOK, Pending, Playing
 <2>2. Held' = Held
   BY <1>3 DEF MatchCommits, EndGame, Held, OperationsTypeOK, Playing
 <2>3. leases' = leases
   BY <1>3 DEF MatchCommits, EndGame
 <2> QED BY <1>1, <1>2, <2>1, <2>2, <2>3 DEF LeasesCounted, SafeBasis
<1>4. CASE MatchAborts(g) \/ Settled(g)
 <2>1. game[g] # "none" /\ Release(g)
   BY <1>4 DEF MatchAborts, Settled, Pending
 <2>2. LeasesCounted' /\ leases' \in Nat
   BY <2>1, ReleaseKeepsCount
 <2>3. OperationsTypeOK'
   BY <1>1, <2>1, <2>2 DEF Release, OperationsTypeOK
 <2>4. leases # 0
  <3>1. Held # {}
    BY <2>1 DEF Held
  <3> QED BY <3>1, HeldIsFinite, FS_EmptySet DEF LeasesCounted
 <2> QED BY <1>1, <1>2, <2>2, <2>3, <2>4 DEF SafeBasis
<1> QED BY <1>3, <1>4 DEF OfGame

LEMMA PollersKeepInv ==
  ASSUME OperationsInv, NEW r \in Pollers, OfPoller(r)
  PROVE  OperationsInv'
<1> USE DEF OperationsInv
<1>1. UNCHANGED << mode, inside, queued, game, leases >>
  BY DEF OfPoller, CountGames, Judge, Request
<1>2. LeasesCounted' /\ AdmissionsEnded'
  BY <1>1 DEF LeasesCounted, Held, AdmissionsEnded
<1>3. OperationsTypeOK'
 <2>1. CASE CountGames(r) \/ Judge(r)
  <3>1. poll' \in [Pollers -> {"none", "idle", "busy"}] /\ safe' \in BOOLEAN
    BY <2>1 DEF CountGames, Judge, OperationsTypeOK, SafeToRestart, Transitioning
  <3>2. change' = change
    BY <2>1 DEF CountGames, Judge
  <3> QED BY <1>1, <3>1, <3>2 DEF OperationsTypeOK
 <2>2. CASE \E to \in Modes : Request(r, to)
   BY <1>1, <2>2 DEF Request, OperationsTypeOK
 <2> QED BY <2>1, <2>2 DEF OfPoller
<1>4. QueueCancelled'
  BY <1>1 DEF OfPoller, CountGames, Judge, Request, NoChange, QueueCancelled
<1>5. SafeBasis'
  BY <1>1 DEF OfPoller, CountGames, Judge, Request, SafeBasis, SafeToRestart, Transitioning,
              QueueCancelled
<1> QED BY <1>2, <1>3, <1>4, <1>5

LEMMA TransitionsKeepInv ==
  ASSUME OperationsInv, Swap \/ CancelPending \/ Announce
  PROVE  OperationsInv'
<1> USE DEF OperationsInv
<1>1. CASE Swap
 <2>1. UNCHANGED << inside, queued, game, leases, poll >>
   BY <1>1 DEF Swap
 <2>2. OperationsTypeOK'
   BY <1>1 DEF Swap, OperationsTypeOK, NoChange, Modes
 <2>3. LeasesCounted'
   BY <2>1 DEF LeasesCounted, Held
 <2>4. AdmissionsEnded'
   BY <1>1 DEF Swap, AdmissionsEnded
 <2>5. QueueCancelled'
   BY <1>1 DEF Swap, QueueCancelled, OperationsTypeOK, NoChange
 <2>6. SafeBasis'
   BY <1>1 DEF Swap, SafeBasis
 <2> QED BY <2>2, <2>3, <2>4, <2>5, <2>6
<1>2. CASE CancelPending
 <2>1. OperationsTypeOK'
   BY <1>2 DEF CancelPending, OperationsTypeOK, Withdrawn, Pending
 <2>2. Held' = Held
   BY <1>2 DEF CancelPending, Held, Withdrawn, OperationsTypeOK
 <2>3. LeasesCounted'
   BY <1>2, <2>2 DEF CancelPending, LeasesCounted
 <2>4. AdmissionsEnded' /\ QueueCancelled' /\ SafeBasis'
   BY <1>2 DEF CancelPending, AdmissionsEnded, QueueCancelled, SafeBasis
 <2> QED BY <2>1, <2>3, <2>4
<1>3. CASE Announce
 <2>1. OperationsTypeOK'
   BY <1>3 DEF Announce, OperationsTypeOK, NoChange, Modes
 <2>2. LeasesCounted' /\ AdmissionsEnded' /\ SafeBasis'
   BY <1>3 DEF Announce, LeasesCounted, Held, AdmissionsEnded, SafeBasis
 <2>3. QueueCancelled'
   BY <1>3 DEF Announce, QueueCancelled
 <2> QED BY <2>1, <2>2, <2>3
<1> QED BY <1>1, <1>2, <1>3

LEMMA ClosingKeepsInv ==
  ASSUME OperationsInv, QueueMoves \/ MatcherCloses \/ RoomsClose
  PROVE  OperationsInv'
<1> USE DEF OperationsInv
<1>1. CASE QueueMoves
 <2>1. OperationsTypeOK' /\ LeasesCounted' /\ AdmissionsEnded'
   BY <1>1 DEF QueueMoves, OperationsTypeOK, LeasesCounted, Held, AdmissionsEnded
 <2>2. QueueCancelled' /\ SafeBasis'
   BY <1>1 DEF QueueMoves, QueueCancelled, SafeBasis
 <2> QED BY <2>1, <2>2
<1>2. ASSUME NEW stages, "none" \notin stages,
             Held' = Held \ In(stages), leases' = leases - Cardinality(In(stages)),
             game' \in [Games -> {"none", "over"} \cup Pending \cup Playing],
             queued' \subseteq queued, UNCHANGED << mode, change, inside, poll, safe >>
      PROVE  OperationsInv'
 <2>1. LeasesCounted' /\ leases' \in Nat
   BY <1>2, EndingKeepsCount
 <2>2. OperationsTypeOK'
   BY <1>2, <2>1 DEF OperationsTypeOK
 <2>3. AdmissionsEnded' /\ QueueCancelled'
   BY <1>2 DEF AdmissionsEnded, QueueCancelled
 <2>4. SafeBasis'
  <3>1. ASSUME leases = 0 PROVE leases' = 0
   <4>1. Held = {}
     BY <3>1, HeldIsFinite, FS_EmptySet DEF LeasesCounted
   <4>2. Held' = {}
     BY <1>2, <4>1
   <4> QED BY <2>1, <4>2, FS_EmptySet DEF LeasesCounted
  <3> QED BY <1>2, <3>1 DEF SafeBasis
 <2> QED BY <2>1, <2>2, <2>3, <2>4
<1>3. CASE MatcherCloses
 <2>1. Held' = Held \ In({"matched"})
   BY <1>3 DEF MatcherCloses, Held, In, Withdrawn, OperationsTypeOK
 <2>2. game' \in [Games -> {"none", "over"} \cup Pending \cup Playing]
   BY <1>3 DEF MatcherCloses, Withdrawn, OperationsTypeOK, Pending
 <2> QED BY <1>2, <1>3, <2>1, <2>2 DEF MatcherCloses
<1>4. CASE RoomsClose
 <2>1. Held' = Held \ In(Playing)
   BY <1>4 DEF RoomsClose, Held, In, OperationsTypeOK
 <2>2. game' \in [Games -> {"none", "over"} \cup Pending \cup Playing]
   BY <1>4 DEF RoomsClose, OperationsTypeOK
 <2>3. "none" \notin Playing
   BY DEF Playing
 <2> QED BY <1>2, <1>4, <2>1, <2>2, <2>3 DEF RoomsClose
<1> QED BY <1>1, <1>3, <1>4

LEMMA OperationsInvIsInductive ==
  ASSUME OperationsInv, [ServerNext]_serverVars
  PROVE  OperationsInv'
<1>1. CASE UNCHANGED operation
  BY <1>1 DEF operation, OperationsInv, OperationsTypeOK, LeasesCounted, Held, AdmissionsEnded,
              QueueCancelled, SafeBasis
<1>2. CASE OperationsStep
  BY <1>2, ConnectionsKeepInv, GamesKeepInv, PollersKeepInv, TransitionsKeepInv, ClosingKeepsInv
  DEF OperationsStep
<1> QED BY <1>1, <1>2, ServerTakesOperationsSteps

LEMMA OperationsInvAtFirst ==
  ASSUME ServerInit
  PROVE  OperationsInv
<1> USE DEF ServerInit, OperationsInit
<1>1. OperationsTypeOK
  BY DEF OperationsTypeOK, NoChange, Modes
<1>2. Held = {}
  BY DEF Held
<1>3. LeasesCounted
  BY <1>2, FS_EmptySet DEF LeasesCounted
<1>4. AdmissionsEnded /\ QueueCancelled /\ SafeBasis
  BY DEF AdmissionsEnded, QueueCancelled, SafeBasis
<1> QED BY <1>1, <1>3, <1>4 DEF OperationsInv

\* Once "safe to restart" was answered and until somebody resumes, no game is
\* played or waits to be settled, no match is under way and nobody can start
\* one: operationalQuiescence may count games and leases at two times, because
\* the leases alone decide.
THEOREM SafeToRestartIsFinal == ServerSpec => []SafeStaysSafe
<1>1. ServerInit => OperationsInv
  BY OperationsInvAtFirst
<1>2. OperationsInv /\ [ServerNext]_serverVars => OperationsInv'
  BY OperationsInvIsInductive
<1>3. OperationsInv => SafeStaysSafe
 <2> SUFFICES ASSUME OperationsInv, safe PROVE SafeStaysSafe
   BY DEF SafeStaysSafe
 <2> USE DEF OperationsInv
 <2>1. mode # "normal" /\ leases = 0 /\ queued = {}
   BY DEF SafeBasis
 <2>2. Held = {}
   BY <2>1, HeldIsFinite, FS_EmptySet DEF LeasesCounted
 <2>3. In({"none"}) = Games
   BY <2>2 DEF Held, In
 <2> QED BY <2>1, <2>3 DEF SafeStaysSafe, AdmissionsEnded
<1> QED BY <1>1, <1>2, <1>3, PTL DEF ServerSpec

\* The leases that are counted are always the games that hold one.
THEOREM LeasesAreCounted == ServerSpec => [](OperationsTypeOK /\ LeasesCounted)
<1>1. ServerInit => OperationsInv
  BY OperationsInvAtFirst
<1>2. OperationsInv /\ [ServerNext]_serverVars => OperationsInv'
  BY OperationsInvIsInductive
<1>3. OperationsInv => OperationsTypeOK /\ LeasesCounted
  BY DEF OperationsInv
<1> QED BY <1>1, <1>2, <1>3, PTL DEF ServerSpec-----------------------------------------------------------------------------
(* The places under the limit.                                             *)

\* The connections that hold a place: reserved, or active behind a socket.
Taken == {c \in Connections : slot[c] \in {"reserved", "active"}}

PlacesCounted ==
  IsFiniteSet(Taken) /\ reserved = Cardinality(Taken) /\ reserved <= scene.limit

\* How far a connection has come, and what its lease is.
SlotOf(c) ==
  /\ slot[c] = "reserved" <=> doing[c] = "knocked"
  /\ slot[c] = "active" <=> c \in sockets
  /\ doing[c] \in {"upgraded", "registered"} => slot[c] = "active"
  /\ doing[c] = "unborn" => slot[c] = "none"
  /\ c \in writing => doing[c] = "serving"

PlacesInv == PlacesCounted /\ \A c \in Connections : SlotOf(c)

-----------------------------------------------------------------------------
(* The players of the connections.                                         *)

\* Registered, and not closed since.
Live(c) == doing[c] \in {"registered", "serving"} /\ c \notin closed

\* A live connection is its player's, or a reconnect that has not finished
\* yet has taken the player over from it.
Owns(c) ==
  \/ clients[ident[c]] = c
  \/ authority # Nobody /\ previous[authority] = c /\ ident[c] = ident[authority]

KnownPlayers ==
  /\ \A c \in Connections :
       /\ doing[c] \in {"unborn", "knocked", "upgraded"} => ident[c] = Nobody
       /\ doing[c] \in {"registered", "serving"} => ident[c] # Nobody
       /\ reading[c] # "off" => doing[c] = "serving"
       /\ reading[c] = "leaving" => c \in closed
       /\ ident[c] # Nobody => Known(ident[c])
  /\ \A p \in sessions \cup banned : Known(p)

\* Who holds sessionAuthorityMu has taken a player over and given up its own.
AuthorityHeld ==
  authority # Nobody =>
    /\ doing[authority] = "serving" /\ reading[authority] = "on"
    /\ ident[authority] # authority
    /\ clients[ident[authority]] = authority /\ clients[authority] = Nobody

LiveOwn == \A c \in Connections : Live(c) => ident[c] \notin banned /\ Owns(c)

PlayersInv == KnownPlayers /\ AuthorityHeld /\ LiveOwn

-----------------------------------------------------------------------------
(* What is over once the shutdown has come past it.                        *)

EndedInv ==
  /\ Past("matcher") => queued = {}
  /\ Past("workers") => In(Pending) = {}
  /\ Past("pumps") => Pumping = {}
  /\ Past("rooms") => In(Playing) = {}
  /\ stage = "closed" => ~saving

ServerInv == OperationsInv /\ ServerTypeOK /\ PlacesInv /\ PlayersInv /\ EndedInv

-----------------------------------------------------------------------------
(* The stages of the shutdown, one after the other.                        *)

LEMMA NobodyConnects == Nobody \notin Connections
  BY ServerAssumption DEF Nobody

LEMMA StagesDiffer ==
  ASSUME NEW i \in 1..13, NEW j \in 1..13
  PROVE  DOMAIN Stages = 1..13 /\ (Stages[i] = Stages[j] <=> i = j)
  BY DEF Stages

LEMMA StageAfter ==
  ASSUME NEW i \in 1..12, Advances(Stages[i])
  PROVE  stage = Stages[i] /\ stage' = Stages[i + 1]
<1>1. DOMAIN Stages = 1..13
  BY StagesDiffer
<1>2. (CHOOSE n \in DOMAIN Stages : Stages[n] = Stages[i]) = i
  BY <1>1, StagesDiffer
<1> QED BY <1>2 DEF Advances

LEMMA StageNames ==
  /\ Stages[1] = "running" /\ Stages[2] = "maintain" /\ Stages[3] = "changing"
  /\ Stages[4] = "waiting" /\ Stages[5] = "stopping" /\ Stages[6] = "http"
  /\ Stages[7] = "matcher" /\ Stages[8] = "workers" /\ Stages[9] = "clients"
  /\ Stages[10] = "pumps" /\ Stages[11] = "rooms" /\ Stages[12] = "saves"
  /\ Stages[13] = "closed" /\ DOMAIN Stages = 1..13
  BY DEF Stages

LEMMA StagesPast ==
  /\ Past("rooms") <=> stage \in {"saves", "closed"}
  /\ Past("pumps") <=> stage \in {"rooms", "saves", "closed"}
  /\ Past("workers") <=> stage \in {"clients", "pumps", "rooms", "saves", "closed"}
  /\ Past("matcher") <=> stage \in {"workers", "clients", "pumps", "rooms", "saves", "closed"}
<1>1. ASSUME NEW i \in 1..13
      PROVE  Past(Stages[i]) <=> \E j \in 1..13 : Stages[j] = stage /\ i < j
  BY StagesDiffer DEF Past
<1>2. ASSUME NEW i \in 1..13
      PROVE  Past(Stages[i]) <=> \E j \in (i + 1)..13 : Stages[j] = stage
  BY <1>1
<1>3. Past(Stages[11]) <=> \E j \in 12..13 : Stages[j] = stage
  BY <1>2
<1>4. Past(Stages[10]) <=> \E j \in 11..13 : Stages[j] = stage
  BY <1>2
<1>5. Past(Stages[8]) <=> \E j \in 9..13 : Stages[j] = stage
  BY <1>2
<1>6. Past(Stages[7]) <=> \E j \in 8..13 : Stages[j] = stage
  BY <1>2
<1> QED BY <1>3, <1>4, <1>5, <1>6, StageNames

\* Every step leaves the shutdown where it is or takes it one stage on.
LEMMA ShutdownMoves ==
  ASSUME ShutdownStep \/ Signal
  PROVE  \/ UNCHANGED stage
         \/ \E i \in 1..12 : stage = Stages[i] /\ stage' = Stages[i + 1]
<1>1. \/ UNCHANGED stage
      \/ Advances("running") \/ Advances("maintain") \/ Advances("changing")
      \/ Advances("waiting") \/ Advances("stopping") \/ Advances("http")
      \/ Advances("matcher") \/ Advances("workers") \/ Advances("clients")
      \/ Advances("pumps") \/ Advances("rooms") \/ Advances("saves")
  BY DEF ShutdownStep, Signal, EnterMaintenance, InMaintenance, Wait, TimeOut,
         StopServing, CloseMatcher, MatcherDone, CloseClients, PumpsDone,
         CloseRooms, CloseRedis
<1>2. UNCHANGED stage \/ \E i \in 1..12 : Advances(Stages[i])
  BY <1>1, StageNames
<1> QED BY <1>2, StageAfter

-----------------------------------------------------------------------------
(* The places: who changes them.                                           *)

places == << scene, doing, slot, reserved, sockets, writing >>

\* Every step of the server that is one of a connection's own.
OwnStep(c) ==
  \/ Knock(c) \/ Refuse(c) \/ Upgrade(c) \/ HandshakeFails(c)
  \/ Register(c) \/ Activate(c) \/ Withdraw(c) \/ StopWriting(c)

LEMMA PlacesUntouched ==
  ASSUME [ServerNext]_serverVars, ~(\E c \in Connections : OwnStep(c))
  PROVE  UNCHANGED places
<1>1. CASE UNCHANGED serverVars
  BY <1>1 DEF serverVars, connection, places
<1>2. ASSUME NEW c \in Connections,
             \/ StopReading(c) \/ Disconnect(c) \/ Reconnecting(c)
             \/ CommandEnds(c) \/ MatchEnds(c)
             \/ \E p \in Connections : Rebind(c, p)
             \/ \E kind \in Kinds : Command(c, kind)
             \/ \E g \in Games : Starts(c, g)
      PROVE  UNCHANGED places
  BY <1>2 DEF StopReading, Disconnect, Reconnecting, Finish, RollBack, CommandEnds,
              MatchEnds, Rebind, Command, Starts, connection, places
<1>3. CASE \/ \E g \in Games : GameStep(g)
           \/ \E to \in Modes : ChangeMode(to)
           \/ \E p \in Connections : Ban(p) \/ AdminDisconnect(p) \/ Unban(p)
           \/ Persist \/ Status \/ ChangeStep \/ Signal
  BY <1>3 DEF GameStep, ChangeMode, Ban, AdminDisconnect, Unban, Persist, Status,
              ChangeStep, Signal, connection, places
<1>4. CASE ShutdownStep
  BY <1>4 DEF ShutdownStep, EnterMaintenance, InMaintenance, Wait, TimeOut,
              StopServing, CloseMatcher, MatcherDone, CloseClients, PumpsDone,
              CloseRooms, CloseRedis, connection, places
<1> QED BY <1>1, <1>2, <1>3, <1>4 DEF ServerNext, OwnStep

\* connectionLease.release counts a place once, whoever calls it and how often.
LEMMA FreesKeepsCount ==
  ASSUME ServerTypeOK, PlacesCounted, NEW c \in Connections, Frees(c), UNCHANGED scene
  PROVE  PlacesCounted' /\ reserved' \in Nat
<1>1. Taken' = Taken \ {c} /\ (c \in Taken <=> slot[c] \in {"reserved", "active"})
  BY DEF Frees, Taken, ServerTypeOK
<1>2. IsFiniteSet(Taken) /\ Cardinality(Taken) \in Nat
  BY FS_CardinalityType DEF PlacesCounted
<1>3. /\ IsFiniteSet(Taken \ {c})
      /\ Cardinality(Taken \ {c})
           = IF c \in Taken THEN Cardinality(Taken) - 1 ELSE Cardinality(Taken)
  BY <1>2, FS_RemoveElement
<1>4. Cardinality(Taken \ {c}) \in Nat
  BY <1>3, FS_CardinalityType
<1>5. reserved' = Cardinality(Taken')
  BY <1>1, <1>3 DEF Frees, PlacesCounted
<1>6. scene.limit \in Nat
  BY ServerAssumption DEF ServerTypeOK
<1> QED BY <1>1, <1>2, <1>3, <1>4, <1>5, <1>6 DEF PlacesCounted

LEMMA PlacesStep ==
  ASSUME ServerTypeOK, PlacesInv, [ServerNext]_serverVars
  PROVE  PlacesInv' /\ reserved' \in Nat
<1> USE DEF PlacesInv
<1>1. CASE UNCHANGED places
  BY <1>1 DEF places, PlacesCounted, Taken, SlotOf, ServerTypeOK
<1>2. ASSUME NEW c \in Connections, Knock(c)
      PROVE  PlacesInv' /\ reserved' \in Nat
 <2>1. Taken' = Taken \cup {c} /\ c \notin Taken
   BY <1>2 DEF Knock, Taken, SlotOf, ServerTypeOK
 <2>2. IsFiniteSet(Taken') /\ Cardinality(Taken') = Cardinality(Taken) + 1
   BY <2>1, FS_AddElement DEF PlacesCounted
 <2>3. scene.limit \in Nat /\ reserved' = reserved + 1 /\ reserved < scene.limit
       /\ UNCHANGED scene
   BY <1>2, ServerAssumption DEF Knock, ServerTypeOK
 <2>4. PlacesCounted' /\ reserved' \in Nat
   BY <2>2, <2>3 DEF PlacesCounted, ServerTypeOK
 <2>5. \A d \in Connections : SlotOf(d)'
   BY <1>2 DEF Knock, Goes, SlotOf, ServerTypeOK
 <2> QED BY <2>4, <2>5
<1>3. ASSUME NEW c \in Connections, Upgrade(c)
      PROVE  PlacesInv' /\ reserved' \in Nat
 <2>1. Taken' = Taken
   BY <1>3 DEF Upgrade, Taken, SlotOf, ServerTypeOK
 <2>2. PlacesCounted' /\ reserved' \in Nat
   BY <1>3, <2>1 DEF Upgrade, PlacesCounted, ServerTypeOK
 <2>3. \A d \in Connections : SlotOf(d)'
   BY <1>3 DEF Upgrade, Goes, SlotOf, ServerTypeOK
 <2> QED BY <2>2, <2>3
<1>4. ASSUME NEW c \in Connections, Register(c) \/ Activate(c)
      PROVE  PlacesInv' /\ reserved' \in Nat
 <2>1. UNCHANGED << scene, slot, reserved, sockets >>
   BY <1>4 DEF Register, Activate
 <2>2. PlacesCounted' /\ reserved' \in Nat
   BY <2>1 DEF PlacesCounted, Taken, ServerTypeOK
 <2>3. \A d \in Connections : SlotOf(d)'
   BY <1>4 DEF Register, Activate, Goes, SlotOf, ServerTypeOK
 <2> QED BY <2>2, <2>3
<1>5. ASSUME NEW c \in Connections,
             Refuse(c) \/ HandshakeFails(c) \/ Withdraw(c) \/ StopWriting(c)
      PROVE  PlacesInv' /\ reserved' \in Nat
 <2>1. Frees(c) /\ UNCHANGED scene
   BY <1>5 DEF Refuse, HandshakeFails, Withdraw, StopWriting
 <2>2. PlacesCounted' /\ reserved' \in Nat
   BY <2>1, FreesKeepsCount
 <2>3. \A d \in Connections : SlotOf(d)'
   BY <1>5 DEF Refuse, HandshakeFails, Withdraw, StopWriting, Goes, Frees, SlotOf,
               ServerTypeOK
 <2> QED BY <2>2, <2>3
<1> QED BY <1>1, <1>2, <1>3, <1>4, <1>5, PlacesUntouched DEF OwnStep


-----------------------------------------------------------------------------
(* The players: who changes them.                                          *)

players ==
  << doing, reading, clients, ident, closed, sessions, authority, previous, banned >>

\* The steps that change them.
PlayerStep(c) ==
  \/ Knock(c) \/ Refuse(c) \/ Upgrade(c) \/ HandshakeFails(c)
  \/ Register(c) \/ Activate(c) \/ Withdraw(c)
  \/ StopReading(c) \/ Disconnect(c) \/ StopWriting(c) \/ Finish(c) \/ RollBack(c)
  \/ \E p \in Connections : Rebind(c, p)
  \/ Ban(c) \/ AdminDisconnect(c) \/ Unban(c)

LEMMA PlayersUntouched ==
  ASSUME [ServerNext]_serverVars,
         ~(\E c \in Connections : PlayerStep(c)), ~CloseClients
  PROVE  UNCHANGED players
<1>1. CASE UNCHANGED serverVars
  BY <1>1 DEF serverVars, connection, players
<1>2. ASSUME NEW c \in Connections,
             \/ CommandEnds(c) \/ MatchEnds(c)
             \/ \E kind \in Kinds : Command(c, kind)
             \/ \E g \in Games : Starts(c, g)
      PROVE  UNCHANGED players
  BY <1>2 DEF CommandEnds, MatchEnds, Command, Starts, connection, players
<1>3. CASE \/ \E g \in Games : GameStep(g)
           \/ \E to \in Modes : ChangeMode(to)
           \/ Persist \/ Status \/ ChangeStep \/ Signal
  BY <1>3 DEF GameStep, ChangeMode, Persist, Status, ChangeStep, Signal, connection,
              players
<1>4. CASE ShutdownStep
  BY <1>4 DEF ShutdownStep, EnterMaintenance, InMaintenance, Wait, TimeOut,
              StopServing, CloseMatcher, MatcherDone, PumpsDone,
              CloseRooms, CloseRedis, connection, players
<1> QED BY <1>1, <1>2, <1>3, <1>4 DEF ServerNext, PlayerStep, Reconnecting

\* Before it is registered a connection has no player, and nobody has it.
LEMMA ComingStep ==
  ASSUME ServerTypeOK, PlayersInv, NEW c \in Connections,
         Knock(c) \/ Refuse(c) \/ Upgrade(c) \/ HandshakeFails(c)
  PROVE  PlayersInv'
<1>1. /\ UNCHANGED << reading, clients, ident, closed, sessions, authority, previous, banned >>
      /\ doing[c] \in {"unborn", "knocked", "upgraded"}
      /\ doing' \in {[doing EXCEPT ![c] = to] : to \in {"knocked", "upgraded", "gone"}}
  BY DEF Knock, Refuse, Upgrade, HandshakeFails, Goes
<1>2. KnownPlayers'
  BY <1>1 DEF PlayersInv, KnownPlayers, Known, ServerTypeOK
<1>3. AuthorityHeld'
  BY <1>1 DEF PlayersInv, AuthorityHeld, ServerTypeOK, Nobody
<1>4. LiveOwn'
  BY <1>1 DEF PlayersInv, LiveOwn, Live, Owns, ServerTypeOK
<1> QED BY <1>2, <1>3, <1>4 DEF PlayersInv

LEMMA RegisterStep ==
  ASSUME ServerTypeOK, PlayersInv, NEW c \in Connections, Register(c)
  PROVE  PlayersInv'
<1>1. c # Nobody /\ ident[c] = Nobody /\ \A d \in Connections : ident[d] # c
  BY NobodyConnects DEF Register, PlayersInv, KnownPlayers, Known
<1>2. KnownPlayers'
  BY <1>1 DEF Register, Goes, PlayersInv, KnownPlayers, Known, ServerTypeOK
<1>3. authority # c /\ (authority # Nobody => authority \in Connections)
  BY <1>1 DEF Register, PlayersInv, AuthorityHeld, ServerTypeOK
<1>4. AuthorityHeld'
 <2>1. authority # Nobody => ident[authority] # c /\ ident[authority] \in Connections
   BY <1>1, <1>3 DEF PlayersInv, KnownPlayers, AuthorityHeld, ServerTypeOK
 <2> QED BY <1>3, <2>1 DEF Register, Goes, PlayersInv, AuthorityHeld, ServerTypeOK
<1>5. LiveOwn'
 <2>1. c \notin banned
   BY <1>1 DEF PlayersInv, KnownPlayers, Known
 <2>2. \A d \in Connections \ {c} : Live(d)' => Live(d) /\ ident[d] \in Connections
   BY DEF Register, Goes, Live, PlayersInv, KnownPlayers, ServerTypeOK
 <2>3. \A d \in Connections \ {c} : Owns(d) /\ ident[d] \in Connections => Owns(d)'
   BY <1>1, <1>3 DEF Register, Owns, ServerTypeOK
 <2>4. Owns(c)' /\ ident'[c] = c
   BY DEF Register, Owns, ServerTypeOK
 <2> QED BY <2>1, <2>2, <2>3, <2>4 DEF PlayersInv, LiveOwn, Register, ServerTypeOK
<1> QED BY <1>2, <1>4, <1>5 DEF PlayersInv

LEMMA PumpSteps ==
  ASSUME ServerTypeOK, PlayersInv, NEW c \in Connections,
         Activate(c) \/ StopReading(c) \/ StopWriting(c)
  PROVE  PlayersInv'
<1>1. /\ UNCHANGED << clients, ident, sessions, authority, previous, banned >>
      /\ closed \subseteq closed'
  BY DEF Activate, StopReading, StopWriting
<1>2. KnownPlayers'
  BY <1>1 DEF Activate, StopReading, StopWriting, Idle, Goes, PlayersInv, KnownPlayers,
              Known, ServerTypeOK
<1>3. AuthorityHeld'
  BY <1>1 DEF Activate, StopReading, StopWriting, Idle, Goes, PlayersInv, AuthorityHeld,
              ServerTypeOK, Nobody
<1>4. \A d \in Connections : Live(d)' => Live(d)
  BY <1>1 DEF Activate, StopReading, StopWriting, Goes, Live, ServerTypeOK
<1>5. LiveOwn'
  BY <1>1, <1>4 DEF PlayersInv, LiveOwn, Owns
<1> QED BY <1>2, <1>3, <1>5 DEF PlayersInv

\* A connection that leaves takes only itself off the register.
LEMMA LeavingSteps ==
  ASSUME ServerTypeOK, PlayersInv, NEW c \in Connections,
         Withdraw(c) \/ Disconnect(c)
  PROVE  PlayersInv'
<1>1. /\ UNCHANGED << ident, authority, previous, banned >> /\ closed \subseteq closed'
      /\ sessions' \subseteq sessions
  BY DEF Withdraw, Disconnect
<1>2. c # authority /\ \E p : clients' = Without(p, c)
 <2>1. c # authority
   BY NobodyConnects DEF Withdraw, Disconnect, PlayersInv, AuthorityHeld
 <2>2. CASE Withdraw(c)
   BY <2>1, <2>2 DEF Withdraw
 <2>3. CASE Disconnect(c)
   BY <2>1, <2>3 DEF Disconnect
 <2> QED BY <2>2, <2>3
<1>3. \A q \in Connections : clients'[q] = clients[q] \/ (clients[q] = c /\ clients'[q] = Nobody)
  BY <1>2 DEF Without, ServerTypeOK
<1>4. KnownPlayers'
  BY <1>1 DEF Withdraw, Disconnect, Goes, PlayersInv, KnownPlayers, Known, ServerTypeOK
<1>5. AuthorityHeld'
 <2>1. authority # Nobody =>
         authority \in Connections /\ ident[authority] \in Connections
   BY DEF PlayersInv, AuthorityHeld, KnownPlayers, ServerTypeOK
 <2>2. authority # Nobody => doing'[authority] = "serving" /\ reading'[authority] = "on"
   BY <1>2, <2>1 DEF Withdraw, Disconnect, Goes, PlayersInv, AuthorityHeld, ServerTypeOK
 <2> QED BY <1>1, <1>2, <1>3, <2>1, <2>2 DEF PlayersInv, AuthorityHeld
<1>6. LiveOwn'
 <2>1. \A d \in Connections : Live(d)' => Live(d) /\ ident[d] \in Connections
   BY <1>1 DEF Withdraw, Disconnect, Goes, Live, PlayersInv, KnownPlayers, ServerTypeOK
 <2>2. c \in closed'
   BY DEF Withdraw, Disconnect, PlayersInv, KnownPlayers
 <2>3. \A d \in Connections \ {c} : Owns(d) /\ ident[d] \in Connections => Owns(d)'
   BY <1>1, <1>3 DEF Owns
 <2>4. ~Live(c)'
   BY <2>2 DEF Live
 <2> QED BY <1>1, <2>1, <2>3, <2>4 DEF PlayersInv, LiveOwn
<1> QED BY <1>4, <1>5, <1>6 DEF PlayersInv

\* RebindClient: the connection that had the player still does until the
\* reconnect has finished or was rolled back.
LEMMA RebindStep ==
  ASSUME ServerTypeOK, PlayersInv, NEW c \in Connections, NEW p \in Connections,
         Rebind(c, p)
  PROVE  PlayersInv'
<1>1. /\ doing[c] = "serving" /\ reading[c] = "on" /\ ident[c] = c /\ clients[c] = c
      /\ c # p /\ Known(p) /\ authority = Nobody
      /\ UNCHANGED << doing, reading, banned >>
  BY DEF Rebind, Reads, Idle, PlayersInv, KnownPlayers
<1>2. CASE p \in banned
 <2>1. /\ UNCHANGED << clients, ident, sessions, authority, previous >>
       /\ closed \subseteq closed'
   BY <1>2 DEF Rebind
 <2>2. KnownPlayers'
   BY <1>1, <2>1 DEF PlayersInv, KnownPlayers, Known
 <2>3. AuthorityHeld' /\ LiveOwn'
   BY <1>1, <2>1 DEF PlayersInv, AuthorityHeld, LiveOwn, Live, Owns
 <2> QED BY <2>2, <2>3 DEF PlayersInv
<1>3. CASE p \notin banned
 <2>1. /\ authority' = c /\ UNCHANGED closed /\ sessions' = sessions \ {c}
       /\ previous'[c] = clients[p]
       /\ clients'[p] = c /\ clients'[c] = Nobody
       /\ \A q \in Connections \ {c, p} : clients'[q] = clients[q]
       /\ ident'[c] = p /\ \A d \in Connections \ {c} : ident'[d] = ident[d]
   BY <1>1, <1>3 DEF Rebind, ServerTypeOK
 <2>2. c # Nobody /\ p # Nobody
   BY NobodyConnects
 <2>3. \A q : Known(q) /\ q \in Connections => Known(q)'
   BY <2>1, <2>2 DEF Known
 <2>4. KnownPlayers'
  <3>1. \A d \in Connections : ident'[d] # Nobody => ident'[ident'[d]] # Nobody
    BY <1>1, <2>1, <2>3 DEF PlayersInv, KnownPlayers, Known, ServerTypeOK
  <3>2. \A q \in sessions' \cup banned' : Known(q)'
    BY <1>1, <2>1, <2>3 DEF PlayersInv, KnownPlayers, ServerTypeOK
  <3>3. \A d \in Connections :
          /\ doing'[d] \in {"unborn", "knocked", "upgraded"} => ident'[d] = Nobody
          /\ doing'[d] \in {"registered", "serving"} => ident'[d] # Nobody
          /\ reading'[d] # "off" => doing'[d] = "serving"
          /\ reading'[d] = "leaving" => d \in closed'
    BY <1>1, <2>1, <2>2 DEF PlayersInv, KnownPlayers
  <3> QED BY <3>1, <3>2, <3>3 DEF KnownPlayers, Known
 <2>5. AuthorityHeld'
   BY <1>1, <2>1, <2>2 DEF AuthorityHeld
 <2>6. LiveOwn'
  <3>1. \A d \in Connections : Live(d)' <=> Live(d)
    BY <1>1, <2>1 DEF Live
  <3>2. \A d \in Connections : Live(d) =>
          ident[d] \in Connections /\ ident[d] \notin banned /\ clients[ident[d]] = d
    BY <1>1 DEF PlayersInv, LiveOwn, Owns, KnownPlayers, Live, ServerTypeOK
  <3>3. \A d \in Connections \ {c} : Live(d) => ident'[d] \notin banned' /\ Owns(d)'
    BY <1>1, <2>1, <2>2, <3>2 DEF Owns
  <3>4. ident'[c] \notin banned' /\ Owns(c)'
    BY <1>1, <1>3, <2>1 DEF Owns
  <3> QED BY <3>1, <3>3, <3>4 DEF LiveOwn
 <2> QED BY <2>4, <2>5, <2>6 DEF PlayersInv
<1> QED BY <1>2, <1>3

\* finishReconnectSuccess closes the connection that had the player.
LEMMA FinishStep ==
  ASSUME ServerTypeOK, PlayersInv, NEW c \in Connections, Finish(c)
  PROVE  PlayersInv'
<1>1. /\ UNCHANGED << doing, reading, clients, ident, sessions, banned >>
      /\ authority = c /\ authority' = Nobody
      /\ closed \subseteq closed' /\ {previous[c]} \ {Nobody} \subseteq closed'
  BY DEF Finish
<1>2. KnownPlayers'
  BY <1>1 DEF PlayersInv, KnownPlayers, Known
<1>3. AuthorityHeld'
  BY <1>1 DEF AuthorityHeld
<1>4. \A d \in Connections : Live(d)' => Live(d) /\ d # previous[c]
  BY <1>1, NobodyConnects DEF Live
<1>5. LiveOwn'
  BY <1>1, <1>4 DEF PlayersInv, LiveOwn, Owns
<1> QED BY <1>2, <1>3, <1>5 DEF PlayersInv

\* RollbackRebindClient gives both players back.
LEMMA RollBackStep ==
  ASSUME ServerTypeOK, PlayersInv, NEW c \in Connections, RollBack(c)
  PROVE  PlayersInv'
<1> DEFINE p == ident[c]
<1>1. /\ UNCHANGED << doing, reading, banned >>
      /\ authority = c /\ authority' = Nobody /\ closed' = closed \cup {c}
      /\ sessions' = sessions \cup {c} /\ c # Nobody
  BY NobodyConnects DEF RollBack
<1>2. /\ p \in Connections /\ p # c /\ clients[p] = c /\ clients[c] = Nobody
      /\ doing[c] = "serving"
  BY <1>1 DEF PlayersInv, AuthorityHeld, KnownPlayers, ServerTypeOK
<1>3. /\ clients'[p] = previous[c] /\ clients'[c] = c
      /\ \A q \in Connections \ {c, p} : clients'[q] = clients[q]
      /\ ident'[c] = c /\ \A d \in Connections \ {c} : ident'[d] = ident[d]
  BY <1>2 DEF RollBack, ServerTypeOK
<1>4. KnownPlayers'
 <2>1. \A q \in Connections : Known(q) => Known(q)'
   BY <1>1, <1>3 DEF Known
 <2>2. Known(c)'
   BY <1>1, <1>3 DEF Known
 <2>3. \A d \in Connections : ident'[d] # Nobody => ident'[ident'[d]] # Nobody
   BY <1>3, <2>1, <2>2 DEF PlayersInv, KnownPlayers, Known, ServerTypeOK
 <2>4. \A q \in sessions' \cup banned' : Known(q)'
   BY <1>1, <2>1, <2>2 DEF PlayersInv, KnownPlayers, ServerTypeOK
 <2>5. \A d \in Connections :
         /\ doing'[d] \in {"unborn", "knocked", "upgraded"} => ident'[d] = Nobody
         /\ doing'[d] \in {"registered", "serving"} => ident'[d] # Nobody
         /\ reading'[d] # "off" => doing'[d] = "serving"
         /\ reading'[d] = "leaving" => d \in closed'
   BY <1>1, <1>2, <1>3 DEF PlayersInv, KnownPlayers
 <2> QED BY <2>3, <2>4, <2>5 DEF KnownPlayers, Known
<1>5. AuthorityHeld'
  BY <1>1 DEF AuthorityHeld
<1>6. LiveOwn'
 <2>1. \A d \in Connections : Live(d)' => Live(d) /\ d # c
   BY <1>1 DEF Live
 <2>2. \A d \in Connections : Live(d) =>
         ident[d] \in Connections /\ ident[d] \notin banned /\ Owns(d)
   BY DEF PlayersInv, LiveOwn, KnownPlayers, Live, ServerTypeOK
 <2>3. ASSUME NEW d \in Connections, Live(d)'
       PROVE  ident'[d] \notin banned' /\ Owns(d)'
  <3>1. /\ d # c /\ ident'[d] = ident[d] /\ ident[d] \in Connections
        /\ ident[d] \notin banned /\ Owns(d)
    BY <1>3, <2>1, <2>2, <2>3
  <3>2. CASE clients[ident[d]] = d
   <4>1. ident[d] \notin {c, p}
     BY <1>1, <1>2, <3>1, <3>2, NobodyConnects
   <4> QED BY <1>1, <1>3, <3>1, <3>2, <4>1 DEF Owns
  <3>3. CASE previous[c] = d /\ ident[d] = p
    BY <1>1, <1>3, <3>1, <3>3 DEF Owns
  <3> QED BY <1>1, <3>1, <3>2, <3>3 DEF Owns
 <2> QED BY <2>3 DEF LiveOwn
<1> QED BY <1>4, <1>5, <1>6 DEF PlayersInv

\* A ban waits for the reconnect that is under way, so that the connection it
\* closes is the player's.
LEMMA ModerationSteps ==
  ASSUME ServerTypeOK, PlayersInv, NEW p \in Connections,
         Ban(p) \/ AdminDisconnect(p) \/ Unban(p)
  PROVE  PlayersInv'
<1>1. UNCHANGED << doing, reading, clients, ident, sessions, authority, previous >>
  BY DEF Ban, AdminDisconnect, Unban, connection
<1>2. closed \subseteq closed' /\ (p \in banned' \/ banned' \subseteq banned)
      /\ banned' \subseteq banned \cup {p} /\ (p \in banned' \ banned => Known(p))
  BY DEF Ban, AdminDisconnect, Unban, Closes, connection
<1>3. KnownPlayers'
  BY <1>1, <1>2 DEF PlayersInv, KnownPlayers, Known
<1>4. AuthorityHeld'
  BY <1>1 DEF PlayersInv, AuthorityHeld
<1>5. \A d \in Connections : Live(d)' => Live(d)
  BY <1>1, <1>2 DEF Live
<1>6. ASSUME NEW d \in Connections, Live(d)'
      PROVE  ident[d] \notin banned' /\ Owns(d)'
 <2>1. Live(d) /\ ident[d] \notin banned /\ Owns(d)
   BY <1>5, <1>6 DEF PlayersInv, LiveOwn
 <2>2. Owns(d)'
   BY <1>1, <2>1 DEF Owns
 <2>3. CASE Ban(p)
  <3>1. authority = Nobody /\ closed' = closed \cup ({clients[p]} \ {Nobody})
    BY <2>3 DEF Ban, Closes
  <3>2. clients[ident[d]] = d /\ d \notin closed'
    BY <1>6, <2>1, <3>1 DEF Owns, Live
  <3>3. ident[d] # p
    BY <3>1, <3>2, NobodyConnects
  <3> QED BY <1>2, <2>1, <2>2, <3>3
 <2>4. CASE AdminDisconnect(p) \/ Unban(p)
   BY <2>1, <2>2, <2>4 DEF AdminDisconnect, Unban
 <2> QED BY <2>3, <2>4
<1>7. LiveOwn'
  BY <1>1, <1>6 DEF LiveOwn
<1> QED BY <1>3, <1>4, <1>7 DEF PlayersInv

LEMMA PlayersStep ==
  ASSUME ServerTypeOK, PlayersInv, [ServerNext]_serverVars
  PROVE  PlayersInv'
<1>1. CASE UNCHANGED players
 <2>1. UNCHANGED << doing, reading, clients, ident, closed, sessions, authority,
                    previous, banned >>
   BY <1>1 DEF players
 <2>2. KnownPlayers' /\ AuthorityHeld'
   BY <2>1 DEF PlayersInv, KnownPlayers, Known, AuthorityHeld
 <2>3. LiveOwn'
   BY <2>1 DEF PlayersInv, LiveOwn, Live, Owns
 <2> QED BY <2>2, <2>3 DEF PlayersInv
<1>2. CASE CloseClients
 <2>1. UNCHANGED << doing, reading, clients, ident, sessions, authority,
                    previous, banned >> /\ closed \subseteq closed'
   BY <1>2 DEF CloseClients
 <2>2. KnownPlayers' /\ AuthorityHeld'
   BY <2>1 DEF PlayersInv, KnownPlayers, Known, AuthorityHeld
 <2>3. LiveOwn'
   BY <2>1 DEF PlayersInv, LiveOwn, Live, Owns
 <2> QED BY <2>2, <2>3 DEF PlayersInv
<1>3. ASSUME NEW c \in Connections, PlayerStep(c)
      PROVE  PlayersInv'
  BY <1>3, ComingStep, RegisterStep, PumpSteps, LeavingSteps, RebindStep, FinishStep,
     RollBackStep, ModerationSteps DEF PlayerStep
<1> QED BY <1>1, <1>2, <1>3, PlayersUntouched

-----------------------------------------------------------------------------
(* What is over stays over.                                                *)

\* Nothing but a shutdown's own step ends a stage.
LEMMA StageKept ==
  ASSUME [ServerNext]_serverVars, ~ShutdownStep, ~Signal
  PROVE  UNCHANGED stage
<1>1. CASE UNCHANGED serverVars
  BY <1>1 DEF serverVars
<1>2. ASSUME NEW c \in Connections,
             \/ OwnStep(c) \/ StopReading(c) \/ Disconnect(c) \/ Reconnecting(c)
             \/ CommandEnds(c) \/ MatchEnds(c)
             \/ \E p \in Connections : Rebind(c, p)
             \/ \E kind \in Kinds : Command(c, kind)
             \/ \E g \in Games : Starts(c, g)
      PROVE  UNCHANGED stage
  BY <1>2 DEF OwnStep, Knock, Refuse, Upgrade, HandshakeFails, Register, Activate,
              Withdraw, StopWriting, StopReading, Disconnect, Reconnecting, Finish,
              RollBack, CommandEnds, MatchEnds, Rebind, Command, Starts
<1>3. CASE \/ \E g \in Games : GameStep(g)
           \/ \E to \in Modes : ChangeMode(to)
           \/ \E p \in Connections : Ban(p) \/ AdminDisconnect(p) \/ Unban(p)
           \/ Persist \/ Status \/ ChangeStep
  BY <1>3 DEF GameStep, ChangeMode, Ban, AdminDisconnect, Unban, Persist, Status,
              ChangeStep
<1> QED BY <1>1, <1>2, <1>3 DEF ServerNext, OwnStep

\* Past a stage the shutdown stays past it.
LEMMA StagesGoOn ==
  ASSUME ServerTypeOK, [ServerNext]_serverVars
  PROVE  /\ \E i \in DOMAIN Stages : stage' = Stages[i]
         /\ stage' = "running" => stage = "running"
         /\ Past("rooms")' /\ ~Past("rooms") => stage = "rooms"
         /\ Past("pumps")' /\ ~Past("pumps") => stage = "pumps"
         /\ Past("workers")' /\ ~Past("workers") => stage = "workers"
         /\ Past("matcher")' /\ ~Past("matcher") => stage = "matcher"
         /\ stage' = "closed" /\ stage # "closed" => stage = "saves"
<1>1. CASE UNCHANGED stage
  BY <1>1, StagesPast DEF ServerTypeOK, Past
<1>2. ASSUME NEW i \in 1..12, stage = Stages[i], stage' = Stages[i + 1]
      PROVE  /\ stage' = "running" => stage = "running"
             /\ Past("rooms")' /\ ~Past("rooms") => stage = "rooms"
             /\ Past("pumps")' /\ ~Past("pumps") => stage = "pumps"
             /\ Past("workers")' /\ ~Past("workers") => stage = "workers"
             /\ Past("matcher")' /\ ~Past("matcher") => stage = "matcher"
             /\ stage' = "closed" /\ stage # "closed" => stage = "saves"
 <2>1. \A j \in 1..13 : Past(Stages[j])' <=> j < i + 1
   BY <1>2, StagesDiffer DEF Past
 <2>2. \A j \in 1..13 : Past(Stages[j]) <=> j < i
   BY <1>2, StagesDiffer DEF Past
 <2>3. \A j \in 1..13 : Past(Stages[j])' /\ ~Past(Stages[j]) => stage = Stages[j]
   BY <1>2, <2>1, <2>2
 <2>4. stage' = Stages[13] => stage = Stages[12]
  <3>1. i + 1 \in 1..13 /\ (i + 1 = 13 => i = 12)
    OBVIOUS
  <3>2. Stages[i + 1] = Stages[13] => i + 1 = 13
    BY <3>1, StagesDiffer
  <3> QED BY <1>2, <3>1, <3>2
 <2>5. stage' # Stages[1]
  <3>1. i + 1 \in 1..13 /\ i + 1 # 1
    OBVIOUS
  <3> QED BY <1>2, <3>1, StagesDiffer
 <2> QED BY <2>3, <2>4, <2>5, StageNames
<1> QED BY <1>1, <1>2, StageKept, ShutdownMoves, StageNames DEF ServerTypeOK

LEMMA InStages ==
  ASSUME NEW stages
  PROVE  In(stages) = {} <=> \A g \in Games : game[g] \notin stages
  BY DEF In

LEMMA AdvancesFrom ==
  /\ Advances("matcher") => stage = "matcher" /\ stage' = "workers"
  /\ Advances("workers") => stage = "workers" /\ stage' = "clients"
  /\ Advances("clients") => stage = "clients" /\ stage' = "pumps"
  /\ Advances("pumps") => stage = "pumps" /\ stage' = "rooms"
  /\ Advances("rooms") => stage = "rooms" /\ stage' = "saves"
  /\ Advances("saves") => stage = "saves" /\ stage' = "closed"
<1>1. \A i \in 1..12 : Advances(Stages[i]) => stage = Stages[i] /\ stage' = Stages[i + 1]
  BY StageAfter
<1>2. /\ Advances(Stages[7]) => stage = Stages[7] /\ stage' = Stages[8]
      /\ Advances(Stages[8]) => stage = Stages[8] /\ stage' = Stages[9]
      /\ Advances(Stages[9]) => stage = Stages[9] /\ stage' = Stages[10]
      /\ Advances(Stages[10]) => stage = Stages[10] /\ stage' = Stages[11]
      /\ Advances(Stages[11]) => stage = Stages[11] /\ stage' = Stages[12]
      /\ Advances(Stages[12]) => stage = Stages[12] /\ stage' = Stages[13]
  BY <1>1
<1> QED BY <1>2, StageNames

LEMMA StagesAfter ==
  /\ (Past("rooms") <=> stage \in {"saves", "closed"})'
  /\ (Past("pumps") <=> stage \in {"rooms", "saves", "closed"})'
  /\ (Past("workers") <=> stage \in {"clients", "pumps", "rooms", "saves", "closed"})'
  /\ (Past("matcher") <=> stage \in {"workers", "clients", "pumps", "rooms", "saves", "closed"})'
  BY StagesPast, PTL

\* A step that brings back nothing of what the shutdown has ended.
Ends ==
  /\ Past("matcher") => (queued = {} => queued' = {})
  /\ Past("workers") => \A g \in Games : game'[g] \in Pending => game[g] \in Pending
  /\ Past("pumps") => Pumping' \subseteq Pumping
  /\ Past("rooms") => /\ \A g \in Games : game'[g] \in Playing => game[g] \in Pending \cup Playing
                      /\ saving' => saving

LEMMA EndedWhileCalm ==
  ASSUME EndedInv, Ends, UNCHANGED stage
  PROVE  EndedInv'
<1>1. /\ Past("matcher")' <=> Past("matcher")
      /\ Past("workers")' <=> Past("workers")
      /\ Past("pumps")' <=> Past("pumps")
      /\ Past("rooms")' <=> Past("rooms")
  BY DEF Past
<1>2. Past("rooms") => Past("workers")
  BY StagesPast
<1>3. stage = "closed" => Past("rooms")
  BY StagesPast
<1>4. Past("matcher") => queued' = {}
  BY DEF Ends, EndedInv
<1>5. Past("workers") => In(Pending)' = {}
 <2>1. Past("workers") => \A g \in Games : game'[g] \notin Pending
   BY InStages DEF Ends, EndedInv
 <2> QED BY <2>1 DEF In
<1>6. Past("rooms") => In(Playing)' = {}
 <2>1. Past("rooms") => \A g \in Games : game'[g] \notin Playing
   BY <1>2, InStages DEF Ends, EndedInv
 <2> QED BY <2>1 DEF In
<1>7. Past("pumps") => Pumping' = {}
  BY DEF Ends, EndedInv
<1> QED BY <1>1, <1>3, <1>4, <1>5, <1>6, <1>7 DEF Ends, EndedInv

LEMMA ConnectionsEnd ==
  ASSUME ServerTypeOK, NEW c \in Connections,
         \/ OwnStep(c) \/ StopReading(c) \/ Disconnect(c) \/ Reconnecting(c)
         \/ MatchEnds(c) \/ CommandEnds(c)
         \/ \E p \in Connections : Rebind(c, p)
         \/ \E kind \in Kinds : Command(c, kind)
  PROVE  Ends
<1>1. CASE \/ Knock(c) \/ Refuse(c) \/ Upgrade(c) \/ HandshakeFails(c)
           \/ Register(c) \/ Withdraw(c) \/ RollBack(c) \/ \E p \in Connections : Rebind(c, p)
 <2>1. UNCHANGED << operation, writing, reading, saving >>
   BY <1>1 DEF Knock, Refuse, Upgrade, HandshakeFails, Register, Withdraw, RollBack, Rebind
 <2> QED BY <2>1 DEF Ends, operation, Pumping
<1>2. CASE StopWriting(c) \/ StopReading(c)
 <2>1. UNCHANGED << operation, saving >>
   BY <1>2 DEF StopWriting, StopReading
 <2>2. Pumping' \subseteq Pumping
   BY <1>2 DEF StopWriting, StopReading, Idle, Pumping, ServerTypeOK
 <2> QED BY <2>1, <2>2 DEF Ends, operation
<1>3. CASE Activate(c)
 <2>1. UNCHANGED << operation, saving >> /\ ~Past("pumps")
   BY <1>3, StagesPast DEF Activate, Serves, ShuttingDown
 <2> QED BY <2>1 DEF Ends, operation
<1>4. CASE Disconnect(c) \/ Finish(c)
 <2>1. UNCHANGED << game, saving >> /\ (queued = {} => queued' = {})
   BY <1>4 DEF Disconnect, Finish
 <2>2. Pumping' \subseteq Pumping
   BY <1>4 DEF Disconnect, Finish, Pumping, ServerTypeOK
 <2> QED BY <2>1, <2>2 DEF Ends
<1>5. CASE MatchEnds(c) \/ \E kind \in Kinds : Command(c, kind)
 <2>1. UNCHANGED << game, saving, writing, reading >> /\ (queued = {} => queued' = {})
   BY <1>5 DEF MatchEnds, MatchRefused, Command, Enter, connection
 <2> QED BY <2>1 DEF Ends, Pumping
<1>6. CASE CommandEnds(c)
 <2>1. UNCHANGED << game, writing, reading >>
   BY <1>6 DEF CommandEnds, Return, Enqueue, connection
 <2>2. Past("matcher") => UNCHANGED queued
   BY <1>6 DEF CommandEnds, Return, Enqueue, MatcherClosed
 <2>3. Past("rooms") => (saving' => saving)
   BY <1>6 DEF CommandEnds, Saves, RoomsClosed
 <2> QED BY <2>1, <2>2, <2>3 DEF Ends, Pumping
<1> QED BY <1>1, <1>2, <1>3, <1>4, <1>5, <1>6 DEF OwnStep, Reconnecting

LEMMA GamesEnd ==
  ASSUME ServerTypeOK,
         \/ \E c \in Connections, g \in Games : Starts(c, g)
         \/ \E g \in Games : GameStep(g)
  PROVE  Ends
<1>1. ASSUME NEW c \in Connections, NEW g \in Games, Starts(c, g)
      PROVE  Ends
 <2>1. UNCHANGED << writing, reading >> /\ (queued = {} => queued' = {})
   BY <1>1 DEF Starts, ReadyStarts, MatchLeases, connection
 <2>2. Past("rooms") => (saving' => saving)
   BY <1>1 DEF Starts, Saves, RoomsClosed
 <2>3. CASE ReadyStarts(c, g) /\ ~RoomsClosed
  <3>1. /\ \A h \in Games : game'[h] \in Pending => game[h] \in Pending
        /\ ~Past("rooms")
    BY <2>3 DEF ReadyStarts, LeaseTo, RoomsClosed, Pending, ServerTypeOK, OperationsTypeOK
  <3> QED BY <2>1, <3>1 DEF Ends, Pumping
 <2>4. CASE MatchLeases(c, g) /\ ~MatcherClosed
  <3>1. ~Past("workers") /\ ~Past("rooms")
    BY <2>4, StagesPast DEF MatcherClosed
  <3> QED BY <2>1, <3>1 DEF Ends, Pumping
 <2> QED BY <1>1, <2>3, <2>4 DEF Starts
<1>2. ASSUME NEW g \in Games, GameStep(g)
      PROVE  Ends
 <2>1. UNCHANGED << queued, writing, reading, saving >>
   BY <1>2 DEF GameStep, MatchCommits, MatchAborts, EndGame, Settled, connection
 <2>2. \A h \in Games : /\ game'[h] \in Pending => game[h] \in Pending
                        /\ game'[h] \in Playing => game[h] \in Pending \cup Playing
   BY <1>2 DEF GameStep, MatchCommits, MatchAborts, EndGame, Settled, Release, Pending,
               Playing, ServerTypeOK, OperationsTypeOK
 <2> QED BY <2>1, <2>2 DEF Ends, Pumping
<1> QED BY <1>1, <1>2

LEMMA OperatorEnds ==
  ASSUME ServerTypeOK,
         \/ UNCHANGED serverVars
         \/ \E to \in Modes : ChangeMode(to)
         \/ \E p \in Connections : Ban(p) \/ AdminDisconnect(p) \/ Unban(p)
         \/ Persist \/ Status \/ ChangeStep \/ Signal \/ Wait \/ EnterMaintenance
         \/ InMaintenance \/ TimeOut \/ StopServing
  PROVE  Ends
<1>1. UNCHANGED << writing, reading >> /\ (saving' => saving)
  BY DEF serverVars, connection, ChangeMode, Ban, AdminDisconnect, Unban, Persist, Status,
         ChangeStep, Signal, Wait, EnterMaintenance, InMaintenance, TimeOut, StopServing
<1>2. CASE CancelPending
 <2>1. queued' = {}
   BY <1>2 DEF CancelPending
 <2>2. \A g \in Games : /\ game'[g] \in Pending => game[g] \in Pending
                        /\ game'[g] \in Playing => game[g] \in Playing
   BY <1>2 DEF CancelPending, Withdrawn, Pending, Playing
 <2> QED BY <1>1, <2>1, <2>2 DEF Ends, Pumping
<1>3. CASE UNCHANGED << queued, game >>
  BY <1>1, <1>3 DEF Ends, Pumping
<1>4. CancelPending \/ UNCHANGED << queued, game >>
 <2>1. CASE \/ UNCHANGED serverVars
            \/ \E p \in Connections : Ban(p) \/ AdminDisconnect(p) \/ Unban(p)
            \/ Persist \/ Signal \/ InMaintenance \/ TimeOut \/ StopServing
   BY <2>1 DEF serverVars, operation, Ban, AdminDisconnect, Unban, Persist, Signal,
               InMaintenance, TimeOut, StopServing
 <2>2. CASE Status \/ Wait
   BY <2>2 DEF Status, Wait, CountGames, Judge
 <2>3. CASE EnterMaintenance \/ \E to \in Modes : ChangeMode(to)
   BY <2>3 DEF EnterMaintenance, ChangeMode, Request
 <2>4. CASE ChangeStep
   BY <2>4 DEF ChangeStep, Swap, Announce
 <2> QED BY <2>1, <2>2, <2>3, <2>4
<1> QED BY <1>2, <1>3, <1>4

\* What each closing step has ended when it takes the shutdown on.
LEMMA EndedAtStage ==
  ASSUME ServerTypeOK, EndedInv,
         CloseMatcher \/ MatcherDone \/ CloseClients \/ PumpsDone \/ CloseRooms \/ CloseRedis
  PROVE  EndedInv'
<1>1. CASE CloseMatcher
 <2>1. stage' = "workers" /\ queued' = {}
   BY <1>1, AdvancesFrom DEF CloseMatcher
 <2>2. ~Past("workers")' /\ ~Past("pumps")' /\ ~Past("rooms")' /\ stage' # "closed"
   BY <2>1, StagesAfter
 <2> QED BY <2>1, <2>2 DEF EndedInv
<1>2. CASE MatcherDone
 <2>1. /\ stage = "workers" /\ stage' = "clients"
       /\ In(Pending) = {} /\ UNCHANGED << queued, game >>
   BY <1>2, AdvancesFrom DEF MatcherDone, operation
 <2>2. Past("matcher") /\ ~Past("pumps")' /\ ~Past("rooms")' /\ stage' # "closed"
   BY <2>1, StagesAfter, StagesPast
 <2> QED BY <2>1, <2>2 DEF EndedInv, In
<1>3. CASE CloseClients
 <2>1. stage = "clients" /\ stage' = "pumps" /\ UNCHANGED << queued, game >>
   BY <1>3, AdvancesFrom DEF CloseClients, operation
 <2>2. /\ Past("matcher") /\ Past("workers")
       /\ ~Past("pumps")' /\ ~Past("rooms")' /\ stage' # "closed"
   BY <2>1, StagesAfter, StagesPast
 <2> QED BY <2>1, <2>2 DEF EndedInv, In
<1>4. CASE PumpsDone
 <2>1. /\ stage = "pumps" /\ stage' = "rooms" /\ Pumping = {}
       /\ UNCHANGED << queued, game, writing, reading >>
   BY <1>4, AdvancesFrom DEF PumpsDone, operation, connection
 <2>2. Past("matcher") /\ Past("workers") /\ ~Past("rooms")' /\ stage' # "closed"
   BY <2>1, StagesAfter, StagesPast
 <2> QED BY <2>1, <2>2 DEF EndedInv, In, Pumping
<1>5. CASE CloseRooms
 <2>1. stage = "rooms" /\ stage' = "saves" /\ UNCHANGED << queued, writing, reading >>
   BY <1>5, AdvancesFrom DEF CloseRooms, connection
 <2>2. Past("matcher") /\ Past("workers") /\ Past("pumps") /\ stage' # "closed"
   BY <2>1, StagesPast
 <2>3. \A g \in Games : game'[g] \notin Pending \cup Playing
  <3>1. \A g \in Games : game[g] \notin Pending
    BY <2>2, InStages DEF EndedInv
  <3> QED BY <1>5, <3>1 DEF CloseRooms, Pending, Playing
 <2> QED BY <2>1, <2>2, <2>3 DEF EndedInv, In, Pumping
<1>6. CASE CloseRedis
 <2>1. /\ stage = "saves" /\ ~saving'
       /\ UNCHANGED << queued, game, writing, reading >>
   BY <1>6, AdvancesFrom DEF CloseRedis, operation, connection
 <2>2. Past("matcher") /\ Past("workers") /\ Past("pumps") /\ Past("rooms")
   BY <2>1, StagesPast
 <2> QED BY <2>1, <2>2 DEF EndedInv, In, Pumping
<1> QED BY <1>1, <1>2, <1>3, <1>4, <1>5, <1>6

LEMMA EndedStep ==
  ASSUME ServerTypeOK, EndedInv, [ServerNext]_serverVars
  PROVE  EndedInv'
<1>1. CASE CloseMatcher \/ MatcherDone \/ CloseClients \/ PumpsDone \/ CloseRooms \/ CloseRedis
  BY <1>1, EndedAtStage
<1>2. CASE Ends /\ UNCHANGED stage
  BY <1>2, EndedWhileCalm
<1>3. CASE Signal \/ EnterMaintenance \/ InMaintenance \/ Wait \/ TimeOut \/ StopServing
 <2>1. Ends
   BY <1>3, OperatorEnds
 <2>2. CASE ~UNCHANGED stage
  <3>1. stage \in {"running", "maintain", "changing", "waiting", "stopping", "http"}
    BY <1>3, <2>2 DEF Signal, EnterMaintenance, InMaintenance, Wait, TimeOut, StopServing,
                      Advances
  <3>2. /\ ~Past("matcher") /\ ~Past("workers") /\ ~Past("pumps") /\ ~Past("rooms")
        /\ stage \notin {"matcher", "workers", "pumps", "rooms", "saves"}
    BY <3>1, StagesPast
  <3>3. /\ ~Past("matcher")' /\ ~Past("workers")' /\ ~Past("pumps")' /\ ~Past("rooms")'
        /\ stage' # "closed"
    BY <3>1, <3>2, StagesGoOn
  <3> QED BY <3>3 DEF EndedInv
 <2> QED BY <2>1, <2>2, EndedWhileCalm
<1>4. CASE UNCHANGED serverVars
  BY <1>2, <1>4, OperatorEnds DEF serverVars
<1>5. CASE ServerNext /\ ~ShutdownStep /\ ~Signal
 <2>1. UNCHANGED stage
   BY <1>5, StageKept
 <2>2. Ends
   BY <1>5, ConnectionsEnd, GamesEnd, OperatorEnds DEF ServerNext, OwnStep
 <2> QED BY <1>2, <2>1, <2>2
<1> QED BY <1>1, <1>3, <1>4, <1>5 DEF ShutdownStep

-----------------------------------------------------------------------------
(* The server's books: types, places, players and what has ended.          *)

ConnectionTypes ==
  /\ doing \in [Connections -> {"unborn", "knocked", "upgraded", "registered", "serving", "gone"}]
  /\ slot \in [Connections -> {"none", "reserved", "active", "released"}]
  /\ clients \in [Connections -> Connections \cup {Nobody}]
  /\ ident \in [Connections -> Connections \cup {Nobody}]
  /\ previous \in [Connections -> Connections \cup {Nobody}]
  /\ authority \in Connections \cup {Nobody}
  /\ reading \in [Connections -> {"off", "on", "leaving"}]
  /\ sockets \subseteq Connections /\ closed \subseteq Connections
  /\ writing \subseteq Connections /\ sessions \subseteq Connections
  /\ banned \subseteq Connections /\ missed \subseteq Connections

LEMMA TypesOfServer ==
  ServerTypeOK <=> /\ OperationsTypeOK /\ ConnectionTypes
                   /\ scene \in Scenes /\ \E i \in DOMAIN Stages : stage = Stages[i]
                   /\ reserved \in Nat /\ saving \in BOOLEAN
  BY DEF ServerTypeOK, ConnectionTypes

LEMMA TypesStep ==
  ASSUME ServerTypeOK, [ServerNext]_serverVars
  PROVE  ConnectionTypes' /\ UNCHANGED scene /\ saving' \in BOOLEAN
<1>1. ConnectionTypes
  BY TypesOfServer
<1>2. CASE UNCHANGED serverVars
  BY <1>1, <1>2 DEF serverVars, connection, ConnectionTypes, ServerTypeOK
<1>3. ASSUME NEW c \in Connections, OwnStep(c)
      PROVE  ConnectionTypes' /\ UNCHANGED scene /\ saving' \in BOOLEAN
 <2>1. UNCHANGED << scene, saving, previous, missed, authority, banned >>
   BY <1>3 DEF OwnStep, Knock, Refuse, Upgrade, HandshakeFails, Register, Activate,
               Withdraw, StopWriting
 <2>2. /\ doing' \in [Connections -> {"unborn", "knocked", "upgraded", "registered",
                                      "serving", "gone"}]
       /\ slot' \in [Connections -> {"none", "reserved", "active", "released"}]
       /\ reading' \in [Connections -> {"off", "on", "leaving"}]
   BY <1>1, <1>3 DEF OwnStep, Knock, Refuse, Upgrade, HandshakeFails, Register, Activate,
               Withdraw, StopWriting, Frees, Goes, ConnectionTypes
 <2>3. /\ clients' \in [Connections -> Connections \cup {Nobody}]
       /\ ident' \in [Connections -> Connections \cup {Nobody}]
   BY <1>1, <1>3 DEF OwnStep, Knock, Refuse, Upgrade, HandshakeFails, Register, Activate,
               Withdraw, StopWriting, Without, ConnectionTypes
 <2>4. /\ sockets' \subseteq Connections /\ closed' \subseteq Connections
       /\ writing' \subseteq Connections /\ sessions' \subseteq Connections
   BY <1>1, <1>3 DEF OwnStep, Knock, Refuse, Upgrade, HandshakeFails, Register, Activate,
               Withdraw, StopWriting, ConnectionTypes
 <2> QED BY <1>1, <2>1, <2>2, <2>3, <2>4 DEF ConnectionTypes, ServerTypeOK
<1>4. ASSUME NEW c \in Connections,
             \/ StopReading(c) \/ Disconnect(c) \/ Reconnecting(c)
             \/ \E p \in Connections : Rebind(c, p)
             \/ Ban(c) \/ AdminDisconnect(c) \/ Unban(c)
      PROVE  ConnectionTypes' /\ UNCHANGED scene /\ saving' \in BOOLEAN
 <2>1. UNCHANGED << scene, saving, doing, slot, sockets, writing, missed >>
   BY <1>4 DEF StopReading, Disconnect, Reconnecting, Finish, RollBack, Rebind, Ban,
               AdminDisconnect, Unban, connection
 <2>2. /\ clients' \in [Connections -> Connections \cup {Nobody}]
       /\ ident' \in [Connections -> Connections \cup {Nobody}]
  <3>1. CASE \/ StopReading(c) \/ Disconnect(c) \/ Finish(c) \/ Ban(c)
             \/ AdminDisconnect(c) \/ Unban(c)
    BY <1>1, <3>1 DEF StopReading, Disconnect, Finish, Ban, AdminDisconnect, Unban,
                      connection, Without, ConnectionTypes
  <3>2. CASE RollBack(c)
    BY <1>1, <3>2 DEF RollBack, ConnectionTypes
  <3>3. CASE \E p \in Connections : Rebind(c, p)
    BY <1>1, <3>3 DEF Rebind, ConnectionTypes
  <3> QED BY <1>4, <3>1, <3>2, <3>3 DEF Reconnecting
 <2>3. /\ previous' \in [Connections -> Connections \cup {Nobody}]
       /\ authority' \in Connections \cup {Nobody}
       /\ reading' \in [Connections -> {"off", "on", "leaving"}]
   BY <1>1, <1>4 DEF StopReading, Disconnect, Reconnecting, Finish, RollBack, Rebind, Ban,
               AdminDisconnect, Unban, connection, ConnectionTypes
 <2>4. /\ closed' \subseteq Connections /\ sessions' \subseteq Connections
       /\ banned' \subseteq Connections
  <3>1. /\ \A p \in Connections : clients[p] \in Connections \cup {Nobody}
        /\ previous[c] \in Connections \cup {Nobody}
    BY <1>1 DEF ConnectionTypes
  <3> QED BY <1>1, <1>4, <3>1
          DEF StopReading, Disconnect, Reconnecting, Finish, RollBack, Rebind, Ban,
              AdminDisconnect, Unban, connection, Closes, ConnectionTypes
 <2> QED BY <1>1, <2>1, <2>2, <2>3, <2>4 DEF ConnectionTypes, ServerTypeOK
<1>5. CASE \/ \E c \in Connections :
                \/ CommandEnds(c) \/ MatchEnds(c)
                \/ \E kind \in Kinds : Command(c, kind)
                \/ \E g \in Games : Starts(c, g)
           \/ \E g \in Games : GameStep(g)
           \/ \E to \in Modes : ChangeMode(to)
           \/ Persist \/ Status \/ ChangeStep \/ Signal
           \/ ShutdownStep /\ ~CloseClients
 <2>1. UNCHANGED << scene, connection, banned >>
   BY <1>5 DEF CommandEnds, MatchEnds, Command, Starts, GameStep, ChangeMode, Persist,
               Status, ChangeStep, Signal, ShutdownStep, EnterMaintenance, InMaintenance,
               Wait, TimeOut, StopServing, CloseMatcher, MatcherDone, PumpsDone,
               CloseRooms, CloseRedis
 <2>2. saving' = saving \/ saving' = FALSE \/ Saves
   BY <1>5 DEF CommandEnds, MatchEnds, Command, Starts, GameStep, ChangeMode, Persist,
               Status, ChangeStep, Signal, ShutdownStep, EnterMaintenance, InMaintenance,
               Wait, TimeOut, StopServing, CloseMatcher, MatcherDone, PumpsDone,
               CloseRooms, CloseRedis
 <2>3. Saves => saving' \in BOOLEAN
   BY Zenon DEF Saves
 <2>4. saving' \in BOOLEAN
   BY <2>2, <2>3 DEF ServerTypeOK
 <2> QED BY <1>1, <2>1, <2>4 DEF connection, ConnectionTypes
<1>6. CASE CloseClients
 <2>1. \A p \in Connections : {clients[p], previous[p]} \subseteq Connections \cup {Nobody}
   BY <1>1 DEF ConnectionTypes
 <2> QED BY <1>1, <1>6, <2>1 DEF CloseClients, ConnectionTypes, ServerTypeOK
<1> QED BY <1>2, <1>3, <1>4, <1>5, <1>6 DEF ServerNext, OwnStep, ShutdownStep

LEMMA ServerInvAtFirst ==
  ASSUME ServerInit
  PROVE  ServerInv
<1>1. OperationsInv
  BY OperationsInvAtFirst
<1>2. ServerTypeOK
 <2>1. ConnectionTypes /\ scene \in Scenes /\ reserved \in Nat /\ saving \in BOOLEAN
   BY DEF ServerInit, ConnectionTypes
 <2>2. stage = Stages[1] /\ 1 \in DOMAIN Stages
   BY StageNames DEF ServerInit
 <2> QED BY <1>1, <2>1, <2>2, TypesOfServer DEF OperationsInv
<1>3. PlacesInv
 <2>1. Taken = {} /\ IsFiniteSet(Taken) /\ Cardinality(Taken) = 0
   BY FS_EmptySet DEF ServerInit, Taken
 <2>2. scene.limit \in Nat
   BY <1>2, ServerAssumption DEF ServerTypeOK
 <2>3. \A c \in Connections : SlotOf(c)
   BY DEF ServerInit, SlotOf
 <2> QED BY <2>1, <2>2, <2>3 DEF ServerInit, PlacesInv, PlacesCounted
<1>4. PlayersInv
  BY DEF ServerInit, PlayersInv, KnownPlayers, AuthorityHeld, LiveOwn, Live
<1>5. EndedInv
 <2>1. stage = "running" /\ stage # "closed"
   BY DEF ServerInit
 <2>2. ~Past("matcher") /\ ~Past("workers") /\ ~Past("pumps") /\ ~Past("rooms")
   BY <2>1, StagesPast
 <2> QED BY <2>1, <2>2 DEF EndedInv
<1> QED BY <1>1, <1>2, <1>3, <1>4, <1>5 DEF ServerInv

LEMMA ServerInvIsInductive ==
  ASSUME ServerInv, [ServerNext]_serverVars
  PROVE  ServerInv'
<1>1. OperationsInv'
  BY OperationsInvIsInductive DEF ServerInv
<1>2. PlacesInv' /\ reserved' \in Nat
  BY PlacesStep DEF ServerInv
<1>3. PlayersInv' /\ EndedInv'
  BY PlayersStep, EndedStep DEF ServerInv
<1>4. ConnectionTypes' /\ UNCHANGED scene /\ saving' \in BOOLEAN
  BY TypesStep DEF ServerInv
<1>5. \E i \in DOMAIN Stages : stage' = Stages[i]
  BY StagesGoOn DEF ServerInv
<1>6. ServerTypeOK'
  BY <1>1, <1>2, <1>4, <1>5 DEF OperationsInv, ServerInv, ServerTypeOK, ConnectionTypes
<1> QED BY <1>1, <1>2, <1>3, <1>6 DEF ServerInv

LEMMA ServerInvariant == ServerSpec => []ServerInv
  BY ServerInvAtFirst, ServerInvIsInductive, PTL DEF ServerSpec

\* However a connection ends - refused, its hello missing, withdrawn by the
\* shutdown or by either pump - its place is given back once and not before
\* its socket is closed; and no open connection is ever that of a banned
\* player, whatever reconnect the ban meets (connectionLease, RebindClient,
\* handleAdminBan).
THEOREM ServerKeepsItsBooks == ServerSpec => []SocketsAreAccounted
<1>1. ServerInv => SocketsAreAccounted
 <2> SUFFICES ASSUME ServerInv PROVE SocketsAreAccounted
   OBVIOUS
 <2> USE DEF ServerInv
 <2>1. Taken = sockets \cup {c \in Connections : doing[c] = "knocked"}
   BY DEF PlacesInv, SlotOf, Taken, ServerTypeOK
 <2>2. sockets \subseteq Taken
   BY <2>1
 <2>3. /\ IsFiniteSet(Taken) /\ reserved = Cardinality(Taken) /\ reserved <= scene.limit
       /\ scene.limit \in Nat
   BY ServerAssumption DEF PlacesInv, PlacesCounted, ServerTypeOK
 <2>4. IsFiniteSet(sockets) /\ Cardinality(sockets) <= Cardinality(Taken)
   BY <2>2, <2>3, FS_Subset
 <2>5. Cardinality(sockets) \in Nat /\ Cardinality(Taken) \in Nat
   BY <2>3, <2>4, FS_CardinalityType
 <2>6. SlotsFollowSockets
   BY <2>1, <2>3, <2>4, <2>5 DEF SlotsFollowSockets
 <2>7. BannedStayOut
   BY DEF PlayersInv, LiveOwn, Live, BannedStayOut
 <2> QED BY <2>6, <2>7 DEF SocketsAreAccounted
<1> QED BY <1>1, ServerInvariant, PTL

\* When Redis is closed the pumps, the room saves, the matches and the games
\* are over, and so is every settlement if the shutdown was told that it was
\* safe (closeRuntimeManagers, closeRedis).
THEOREM RedisOutlivesItsUsers == ServerSpec => []NothingAfterRedis
<1>1. ServerInv => NothingAfterRedis
 <2> SUFFICES ASSUME ServerInv, stage = "closed" PROVE NothingAfterRedis
   BY DEF NothingAfterRedis
 <2> USE DEF ServerInv
 <2>1. Past("matcher") /\ Past("workers") /\ Past("pumps") /\ Past("rooms")
   BY StagesPast
 <2>2. Pumping = {} /\ ~saving /\ queued = {} /\ In(Pending) = {} /\ In(Playing) = {}
   BY <2>1 DEF EndedInv
 <2>3. In(Pending \cup Playing) = {}
   BY <2>2 DEF In
 <2>4. safe => In({"over"}) = {}
  <3>1. safe => Held = {}
    BY HeldIsFinite, FS_EmptySet DEF OperationsInv, SafeBasis, LeasesCounted
  <3> QED BY <3>1 DEF Held, In
 <2> QED BY <2>2, <2>3, <2>4 DEF NothingAfterRedis
<1> QED BY <1>1, ServerInvariant, PTL

=============================================================================
