--------------------------- MODULE MCGameSession ---------------------------
(***************************************************************************)
(* GameSession on four cards, one to a hand and one at the bottom: the     *)
(* smallest game in which somebody can pass, beat, lead twice and win.     *)
(***************************************************************************)
EXTENDS GameSession, TLC

MCRank == {3, 4, 5}
MCDeck == 3 :> 2 @@ 4 :> 1 @@ 5 :> 1
MCDeals == { 0 :> One(3) @@ 1 :> One(4) @@ 2 :> One(5) }

-----------------------------------------------------------------------------
(* What comments and documents say and the session does not do; each has a *)
(* run of its own that finds a counterexample.                             *)

\* docs/deployment.md:118: when it is an offline player's turn the game waits
\* for a configured number of seconds, so something bounds the wait.
OfflineTurnIsBounded ==
  \A seat \in Seat :
    isOffline[seat] /\ IsCurrent(seat) /\ ~retired =>
      \/ \E d \in TurnDrivers : DrivesTurn(d)
      \/ \E m \in autoMoves : m.turn = turnID /\ m.player = seat

\* game.go:105 and payloads.go:105: turnDeadline is the server's absolute
\* deadline of the current turn, so no other timer runs out for that turn.
DeadlineIsAbsolute ==
  state \in {"Bidding", "Playing"} /\ ~retired /\ turnTimer # NoTimer =>
    \A timer \in lostTimers : timer.turn # turnID
=============================================================================
