----------------------------- MODULE Operations -----------------------------
(***************************************************************************)
(* The operator's state of the server (server/operational.go): what it     *)
(* admits, the start leases that games hold until they are settled, and    *)
(* the answer "safe to restart" an operator or a shutdown acts upon.       *)
(*                                                                         *)
(* A game is known by the lease it holds.  Matches are Matcher's matter    *)
(* and rooms are Rooms'; here they only ask for admission and for leases.  *)
(***************************************************************************)
EXTENDS Naturals, FiniteSets

CONSTANTS
  Connections,  \* physical connections, each of which runs one command at a time
  Games         \* bound: games and match attempts at one time

ASSUME OperationsAssumption == IsFiniteSet(Games)

Modes == {"normal", "draining", "maintenance"}
Kinds == {"create", "match", "ready", "join"}  \* commands that ask for admission
Pollers == {"admin", "shutdown"}

VARIABLES
  mode,     \* operationalState
  change,   \* setOperationalState under way: who asked for what, and its step
  inside,   \* the admission a connection's command holds
  queued,   \* connections that wait in the matcher
  game,     \* where the holder of a lease has come to
  leases,   \* gameStartLeases
  poll,     \* operationalQuiescence under way: what it counted of active games
  safe      \* history: "safe to restart" was answered and nobody resumed since

operation == << mode, change, inside, queued, game, leases, poll, safe >>

NoChange == [by |-> "nobody", to |-> "normal", step |-> "none"]
Playing == {"matched", "readied"}   \* RoomStateBidding or RoomStatePlaying
Pending == {"leased", "cancelled"}  \* a match attempt that has its lease
In(stages) == {g \in Games : game[g] \in stages}

OperationsInit ==
  /\ mode = "normal" /\ change = NoChange
  /\ inside = [c \in Connections |-> "none"]
  /\ queued = {}
  /\ game = [g \in Games |-> "none"] /\ leases = 0
  /\ poll = [r \in Pollers |-> "none"]
  /\ safe = FALSE

-----------------------------------------------------------------------------
(* setOperationalState, one at a time (operationalTransitionMu).           *)

Request(by, to) ==
  /\ change = NoChange
  /\ change' = [by |-> by, to |-> to, step |-> "waiting"]
  /\ UNCHANGED << mode, inside, queued, game, leases, poll, safe >>

\* operationalAdmissionMu: every command admitted before has ended.
Swap ==
  /\ change.step = "waiting" /\ \A c \in Connections : inside[c] = "none"
  /\ mode' = change.to
  /\ safe' = (safe /\ change.to # "normal")
  /\ change' = CASE mode = change.to       -> NoChange
                 [] change.to = "normal"   -> [change EXCEPT !.step = "announcing"]
                 [] OTHER                  -> [change EXCEPT !.step = "cancelling"]
  /\ UNCHANGED << inside, queued, game, leases, poll >>

Withdrawn == [g \in Games |-> IF game[g] = "leased" THEN "cancelled" ELSE game[g]]

CancelPending ==
  /\ change.step = "cancelling"
  /\ queued' = {} /\ game' = Withdrawn
  /\ change' = [change EXCEPT !.step = "announcing"]
  /\ UNCHANGED << mode, inside, leases, poll, safe >>

Announce ==
  /\ change.step = "announcing" /\ change' = NoChange
  /\ UNCHANGED << mode, inside, queued, game, leases, poll, safe >>

-----------------------------------------------------------------------------
(* AcquireOperationalAdmission.  A writer that waits keeps new readers out.*)

Admitted(kind) == mode = "normal" \/ (kind = "join" /\ mode = "draining")

Enter(c, kind) ==
  /\ inside[c] = "none" /\ change.step # "waiting" /\ Admitted(kind)
  /\ inside' = [inside EXCEPT ![c] = kind]
  /\ UNCHANGED << mode, change, queued, game, leases, poll, safe >>

\* The guard is released as the handler returns, with or without success.
Return(c) ==
  /\ inside[c] # "none" /\ inside' = [inside EXCEPT ![c] = "none"]
  /\ UNCHANGED << mode, change, queued, game, leases, poll, safe >>

Enqueue(c) ==
  /\ inside[c] = "match" /\ c \notin queued
  /\ inside' = [inside EXCEPT ![c] = "none"] /\ queued' = queued \cup {c}
  /\ UNCHANGED << mode, change, game, leases, poll, safe >>

-----------------------------------------------------------------------------
(* AcquireGameStartLease, and what becomes of the lease.                   *)

LeaseTo(g, stage) == /\ game[g] = "none" /\ mode = "normal"
                     /\ game' = [game EXCEPT ![g] = stage] /\ leases' = leases + 1

\* The release of a lease is idempotent (sync.Once).
Release(g) == game' = [game EXCEPT ![g] = "none"] /\ leases' = leases - 1

\* startReadyRoomLocked: the lease and the start under the room's lock.
ReadyStarts(c, g) ==
  /\ inside[c] = "ready" /\ LeaseTo(g, "readied")
  /\ inside' = [inside EXCEPT ![c] = "none"]
  /\ UNCHANGED << mode, change, queued, poll, safe >>

MatchLeases(c, g) ==
  /\ c \in queued /\ queued' = queued \ {c} /\ LeaseTo(g, "leased")
  /\ UNCHANGED << mode, change, inside, poll, safe >>

\* The attempt is rolled back: the server drains, or a player has left.
MatchRefused(c) ==
  /\ c \in queued /\ queued' = queued \ {c}
  /\ UNCHANGED << mode, change, inside, game, leases, poll, safe >>

MatchCommits(g) ==
  /\ game[g] = "leased" /\ game' = [game EXCEPT ![g] = "matched"]
  /\ UNCHANGED << mode, change, inside, queued, leases, poll, safe >>

MatchAborts(g) ==
  /\ game[g] \in Pending /\ Release(g)
  /\ UNCHANGED << mode, change, inside, queued, poll, safe >>

\* The room no longer plays; its last events are still to be delivered and
\* its result to be written to Redis.
EndGame(g) ==
  /\ game[g] \in Playing
  /\ game' = [game EXCEPT ![g] = "over"] /\ UNCHANGED leases
  /\ UNCHANGED << mode, change, inside, queued, poll, safe >>

Settled(g) ==
  /\ game[g] = "over" /\ Release(g)
  /\ UNCHANGED << mode, change, inside, queued, poll, safe >>

-----------------------------------------------------------------------------
(* operationalQuiescence: the games are counted before the leases are.     *)

CountGames(r) ==
  /\ poll[r] = "none"
  /\ poll' = [poll EXCEPT ![r] = IF In(Playing) = {} THEN "idle" ELSE "busy"]
  /\ UNCHANGED << mode, change, inside, queued, game, leases, safe >>

Transitioning == change.step \in {"cancelling", "announcing"}

\* Fault: the cancellation of the queue is not waited for.
FaultSafeToRestart(counted) == counted = "idle" /\ mode # "normal" /\ leases = 0

SafeToRestart(counted) ==
  counted = "idle" /\ mode # "normal" /\ leases = 0 /\ ~Transitioning

Judge(r) ==
  /\ poll[r] # "none"
  /\ safe' = (safe \/ SafeToRestart(poll[r])) /\ poll' = [poll EXCEPT ![r] = "none"]
  /\ UNCHANGED << mode, change, inside, queued, game, leases >>

-----------------------------------------------------------------------------
OperationsTypeOK ==
  /\ mode \in Modes /\ leases \in Nat /\ safe \in BOOLEAN /\ queued \subseteq Connections
  /\ change \in [by : Pollers \cup {"nobody"}, to : Modes,
                 step : {"none", "waiting", "cancelling", "announcing"}]
  /\ inside \in [Connections -> Kinds \cup {"none"}]
  /\ game \in [Games -> {"none", "over"} \cup Pending \cup Playing]
  /\ poll \in [Pollers -> {"none", "idle", "busy"}]

\* Once told that it is safe to restart, until somebody resumes: no game is
\* played or waits to be settled, no lease is out, no match is under way and
\* nobody can start one (docs/public-test-maintenance.md:63-72; the games and
\* the leases are counted at two different times).
SafeStaysSafe ==
  safe => /\ In({"none"}) = Games /\ leases = 0 /\ queued = {}
          /\ \A c \in Connections : inside[c] \in {"none", "join"}
=============================================================================
