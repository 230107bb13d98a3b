----------------------------- MODULE GameSession -----------------------------
(***************************************************************************)
(* A live game session (internal/server/session): the game of LandlordGame *)
(* driven by client commands, turn timers, offline timers, disconnects,    *)
(* reconnects and retirement, all of which run in goroutines of their own. *)
(*                                                                         *)
(* actionMu serialises Start, commands, automatic moves and Retire, and is *)
(* kept while the events of an action are delivered; mu and timerMu make   *)
(* one step of a presence change or of a timer callback atomic.  A step of *)
(* this specification is one critical section of mu.  dispatch says what   *)
(* the holder of actionMu still has to do; delivery that is followed by    *)
(* nothing else is not a step of its own, for it only delays the others.   *)
(*                                                                         *)
(* Time is abstract: an armed timer may fire in any state, and of the      *)
(* remaining time only its sign is kept.                                   *)
(***************************************************************************)
EXTENDS LandlordGame

CONSTANTS
  Flaky,           \* seats whose connection may break
  Bots,            \* seats a bot of the server plays
  Takeover,        \* TRUE: a connection may be replaced while still attached
  StopMayBeLate,   \* TRUE: a timer may be stopped just past its deadline
  MaxPending,      \* bound: callbacks and automatic moves under way at a time
  MaxCommands      \* bound: commands under way at a time

ASSUME EnvironmentAssumption ==
  /\ Flaky \subseteq Seat /\ Bots \subseteq Seat \ Flaky
  /\ Takeover \in BOOLEAN /\ StopMayBeLate \in BOOLEAN
  /\ MaxPending \in Nat \ {0} /\ MaxCommands \in Nat \ {0}

VARIABLES
  isOffline,           \* presence as the session sees it
  retired,
  turnTimer,           \* the turn timer the session refers to, or NoTimer
  offlineWaitTimer,    \* the offline timer the session refers to, or NoTimer
  lostTimers,          \* running turn timers the session no longer refers to
  remainingTime,       \* whether any time was left when the turn was paused
  callbacks,           \* timers that fired, their callback not yet in mu
  autoMoves,           \* moves chosen by a callback, waiting for actionMu
  inbox,               \* client commands not yet in actionMu
  dispatch,            \* what the holder of actionMu still has to do
  recorded,            \* whether the results reached the leaderboard
  quiescenceRelease,   \* whether a start lease is attached
  quiescenceDone,
  retireReleases,      \* a Retire that has left actionMu but not released yet
  leaseReleases        \* how often the start lease was given back

timerVars == << turnTimer, offlineWaitTimer, lostTimers, remainingTime >>
queueVars == << callbacks, autoMoves, inbox >>
leaseVars == << recorded, quiescenceRelease, quiescenceDone, retireReleases,
                leaseReleases >>
sessionVars == << gameVars, isOffline, retired, timerVars, queueVars, dispatch,
                  leaseVars >>

Timer == [kind : {"bid", "play", "offline"}, player : Seat, turn : Nat]
NoTimer == [kind |-> "none"]
Running(timer) == timer # NoTimer /\ ~timer.fired
Content(timer) ==
  [kind |-> timer.kind, player |-> timer.player, turn |-> timer.turn]
ArmedTimer(kind, player, turn) ==
  [kind |-> kind, player |-> player, turn |-> turn, fired |-> FALSE]

SessionInit ==
  /\ Init
  /\ isOffline = [s \in Seat |-> FALSE]
  /\ retired = FALSE
  /\ turnTimer = NoTimer /\ offlineWaitTimer = NoTimer
  /\ lostTimers = {} /\ remainingTime = FALSE
  /\ callbacks = {} /\ autoMoves = {} /\ inbox = {}
  /\ dispatch = "idle"
  /\ recorded = FALSE /\ quiescenceRelease = FALSE /\ quiescenceDone = FALSE
  /\ retireReleases = FALSE /\ leaseReleases = 0

\* The seat whose turn it is, while there are turns.
SeatToMove == IF state = "Bidding" THEN currentBidder ELSE currentPlayer
IsCurrent(seat) == state \in {"Bidding", "Playing"} /\ seat = SeatToMove

-----------------------------------------------------------------------------
(* Timers around a move                                                    *)

\* stopTimer, then startBidTimer or startPlayTimer if the move asks a seat.
TimersAfterMove ==
  /\ offlineWaitTimer' = NoTimer
  /\ UNCHANGED lostTimers
  /\ IF turnID' # turnID
     THEN /\ turnTimer' = IF state' = "Bidding"
                          THEN ArmedTimer("bid", currentBidder', turnID')
                          ELSE ArmedTimer("play", currentPlayer', turnID')
          /\ remainingTime' = TRUE
     ELSE /\ turnTimer' = NoTimer
          /\ remainingTime' = FALSE

\* The locked part of an accepted move. endGame leaves terminal delivery, room
\* reset, settlement and lease release to the holder of actionMu.
CommitMove(move) ==
  /\ move
  /\ TimersAfterMove
  /\ dispatch' = IF state' = "Ended" THEN "gameOver" ELSE "idle"
  /\ UNCHANGED << isOffline, retired, leaseVars >>

Rejected ==
  UNCHANGED << gameVars, timerVars, dispatch, isOffline, retired, leaseVars >>

\* A move that does not say which turn, or which game, it was made for.
Unversioned == 0

\* Fault: the turn a move was made for is not checked.
ForAnyTurn(turn) == TRUE

\* Fault: a retired session still accepts moves.
MayMoveRetired(player, turn) ==
  turn \in {Unversioned, turnID} /\ IsCurrent(player)

\* The guards every move shares: not retired, the turn it was made for, and
\* the seat that is asked. actionMu is free.
ForThisTurn(turn) == turn \in {Unversioned, turnID}
MayMove(player, turn) == ~retired /\ ForThisTurn(turn) /\ IsCurrent(player)

\* handleBidAt, handlePlayCardsAt or handlePassAt.
Move(op, player, cards, turn) ==
  /\ dispatch = "idle"
  /\ \/ /\ MayMove(player, turn)
        /\ \/ op = "bid" /\ state = "Bidding" /\ CommitMove(Bid(TRUE))
           \/ op = "noBid" /\ state = "Bidding" /\ CommitMove(Bid(FALSE))
           \/ op = "play" /\ state = "Playing" /\ CommitMove(PlayCards(cards))
           \/ op = "pass" /\ state = "Playing" /\ CommitMove(Pass)
     \/ /\ \/ ~MayMove(player, turn)
           \/ op \in {"bid", "noBid"} /\ state # "Bidding"
           \/ op = "play" /\ (state # "Playing" \/ ~AcceptsPlay(cards))
           \/ op = "pass" /\ (state # "Playing" \/ MustPlay)
        /\ Rejected

-----------------------------------------------------------------------------
(* Client and bot commands                                                 *)

Command == [op : {"bid", "noBid", "play", "pass"}, player : Seat,
            cards : CardSet, game : Nat, turn : Nat]

Pending == Cardinality(callbacks) + Cardinality(autoMoves)

\* Commands carry the game and the turn they were made in, except that a bot
\* bids through HandleBid, which takes neither.
Version(player, op, number) ==
  IF player \in Bots /\ op \in {"bid", "noBid"} THEN Unversioned ELSE number

\* A client or bot that is asked to move answers, sooner or later; one command
\* per seat is under way at a time.
Send(player) ==
  /\ IsCurrent(player) /\ ~isOffline[player] /\ ~retired
  /\ \A c \in inbox : c.player # player
  /\ Cardinality(inbox) < MaxCommands
  /\ \E op \in {"bid", "noBid", "play", "pass"},
        cards \in SubHands(hands[player]) :
       /\ (op # "play") => cards = NoCards
       /\ IF op \in {"bid", "noBid"} THEN state = "Bidding"
          ELSE /\ state = "Playing"
               /\ IF op = "play" THEN AcceptsPlay(cards) ELSE ~MustPlay
       /\ inbox' = inbox \cup
            {[op |-> op, player |-> player, cards |-> cards,
              game |-> Version(player, op, gameID),
              turn |-> Version(player, op, turnID)]}
  /\ UNCHANGED << gameVars, isOffline, retired, timerVars, callbacks,
                  autoMoves, dispatch, leaseVars >>

\* HandleBidAt, HandlePlayCardsAt, HandlePassAt: the game is checked as well.
HandleCommand(c) ==
  /\ c \in inbox
  /\ inbox' = inbox \ {c}
  /\ IF c.game \in {Unversioned, gameID}
     THEN Move(c.op, c.player, c.cards, c.turn)
     ELSE dispatch = "idle" /\ Rejected
  /\ UNCHANGED << callbacks, autoMoves >>

-----------------------------------------------------------------------------
(* Timers firing and their callbacks                                       *)

FireTurnTimer ==
  /\ Running(turnTimer) /\ Pending < MaxPending
  /\ turnTimer' = [turnTimer EXCEPT !.fired = TRUE]
  /\ callbacks' = callbacks \cup {Content(turnTimer)}
  /\ UNCHANGED << gameVars, isOffline, retired, offlineWaitTimer, lostTimers,
                  remainingTime, autoMoves, inbox, dispatch, leaseVars >>

FireLostTimer ==
  /\ Pending < MaxPending
  /\ \E timer \in lostTimers :
       /\ lostTimers' = lostTimers \ {timer}
       /\ callbacks' = callbacks \cup {timer}
  /\ UNCHANGED << gameVars, isOffline, retired, turnTimer, offlineWaitTimer,
                  remainingTime, autoMoves, inbox, dispatch, leaseVars >>

FireOfflineTimer ==
  /\ Running(offlineWaitTimer) /\ Pending < MaxPending
  /\ offlineWaitTimer' = [offlineWaitTimer EXCEPT !.fired = TRUE]
  /\ callbacks' = callbacks \cup {Content(offlineWaitTimer)}
  /\ UNCHANGED << gameVars, isOffline, retired, turnTimer, lostTimers,
                  remainingTime, autoMoves, inbox, dispatch, leaseVars >>

\* The bid timer's callback is handleBid itself.
BidTimeout(c) ==
  /\ c \in callbacks /\ c.kind = "bid"
  /\ callbacks' = callbacks \ {c}
  /\ Move("noBid", c.player, NoCards, c.turn)
  /\ UNCHANGED << autoMoves, inbox >>

\* Callback c hands over a move chosen under mu, to be made under actionMu: for
\* the turn that is on when it has mu. timer and armed are history: the timer
\* that fired and the turn it was armed in.
AutoMove(c, op, cards) ==
  [op |-> op, player |-> SeatToMove, cards |-> cards, turn |-> turnID,
   timer |-> c.kind, armed |-> c.turn]

\* handlePlayTimeout, the part under mu.
PlayTimeout(c) ==
  LET auto == FindSmallestBeatingCards(hands[currentPlayer], lastPlayedHand)
  IN  /\ c \in callbacks /\ c.kind = "play"
      /\ callbacks' = callbacks \ {c}
      /\ autoMoves' =
           IF retired \/ state # "Playing" \/ ~ForThisTurn(c.turn) THEN autoMoves
           ELSE autoMoves \cup
                { IF auto # NoCards THEN AutoMove(c, "play", auto)
                                  ELSE AutoMove(c, "pass", NoCards) }
      /\ UNCHANGED << gameVars, isOffline, retired, timerVars, inbox, dispatch,
                      leaseVars >>

\* handleOfflineTimeout, the part under mu. It is given a player and no turn: a
\* callback that was late for mu acts on whichever turn of that player is on
\* now. The last card of the hand, which is sorted from high to low, is led.
OfflineTimeout(c) ==
  LET mine   == hands[c.player]
      lowest == One(Min({r \in Rank : mine[r] > 0}))
      chosen == IF state = "Bidding" THEN AutoMove(c, "noBid", NoCards)
                ELSE IF MustPlay /\ mine # NoCards
                THEN AutoMove(c, "play", lowest)
                ELSE AutoMove(c, "pass", NoCards)
  IN  /\ c \in callbacks /\ c.kind = "offline"
      /\ callbacks' = callbacks \ {c}
      /\ autoMoves' = IF ~retired /\ IsCurrent(c.player)
                      THEN autoMoves \cup {chosen} ELSE autoMoves
      /\ UNCHANGED << gameVars, isOffline, retired, timerVars, inbox, dispatch,
                      leaseVars >>

\* The part of both callbacks under actionMu.
MakeAutoMove(m) ==
  /\ m \in autoMoves
  /\ autoMoves' = autoMoves \ {m}
  /\ Move(m.op, m.player, m.cards, m.turn)
  /\ UNCHANGED << callbacks, inbox >>

-----------------------------------------------------------------------------
(* Presence                                                                *)

\* Fault: the remaining time is computed after the deadline was cleared.
PauseAndForget(seat) ==
  IF offlineWaitTimer # NoTimer
  THEN UNCHANGED timerVars
  ELSE /\ offlineWaitTimer' = ArmedTimer("offline", seat, turnID)
       /\ turnTimer' = NoTimer /\ remainingTime' = FALSE
       /\ UNCHANGED lostTimers

\* pauseOfflineTurnLocked on the current turn.
PauseOfflineTurn(seat) ==
  IF offlineWaitTimer # NoTimer
  THEN UNCHANGED timerVars
  ELSE /\ offlineWaitTimer' = ArmedTimer("offline", seat, turnID)
       /\ IF turnTimer = NoTimer
          THEN UNCHANGED << turnTimer, remainingTime >>
          ELSE /\ turnTimer' = NoTimer
               /\ remainingTime' \in
                    { ~turnTimer.fired, ~turnTimer.fired /\ ~StopMayBeLate }
       /\ UNCHANGED lostTimers

PlayerOffline(seat) ==
  /\ seat \in Flaky /\ ~isOffline[seat] /\ ~retired
  /\ isOffline' = [isOffline EXCEPT ![seat] = TRUE]
  /\ IF IsCurrent(seat) THEN PauseOfflineTurn(seat) ELSE UNCHANGED timerVars
  /\ UNCHANGED << gameVars, retired, queueVars, dispatch, leaseVars >>

\* The offline timer is cancelled whoever it is for; a running turn timer is
\* not stopped when another one replaces it.
ResumeTurn(seat) ==
  /\ offlineWaitTimer' = NoTimer
  /\ UNCHANGED remainingTime
  /\ IF IsCurrent(seat) /\ remainingTime
     THEN /\ turnTimer' = IF state = "Bidding"
                          THEN ArmedTimer("bid", seat, turnID)
                          ELSE ArmedTimer("play", seat, turnID)
          /\ lostTimers' = IF Running(turnTimer)
                           THEN lostTimers \cup {Content(turnTimer)}
                           ELSE lostTimers
     ELSE UNCHANGED << turnTimer, lostTimers >>

PlayerOnline(seat) ==
  /\ seat \in Flaky /\ ~retired
  /\ isOffline[seat] \/ Takeover
  /\ isOffline' = [isOffline EXCEPT ![seat] = FALSE]
  /\ ResumeTurn(seat)
  /\ UNCHANGED << gameVars, retired, queueVars, dispatch, leaseVars >>

-----------------------------------------------------------------------------
(* Start, settlement and retirement                                        *)

\* Fault: a lease attached after retirement is kept.
KeepLateLease ==
  /\ ~quiescenceRelease /\ state = "Init" /\ leaseReleases = 0
  /\ quiescenceRelease' = TRUE
  /\ UNCHANGED << gameVars, isOffline, retired, timerVars, queueVars, dispatch,
                  recorded, quiescenceDone, retireReleases, leaseReleases >>

\* SetQuiescenceRelease: the server attaches one start lease; too late, it is
\* given back at once.
SetQuiescenceRelease ==
  /\ ~quiescenceRelease /\ state = "Init" /\ leaseReleases = 0
  /\ IF quiescenceDone
     THEN leaseReleases' = leaseReleases + 1 /\ UNCHANGED quiescenceRelease
     ELSE quiescenceRelease' = TRUE /\ UNCHANGED leaseReleases
  /\ UNCHANGED << gameVars, isOffline, retired, timerVars, queueVars, dispatch,
                  recorded, quiescenceDone, retireReleases >>

\* Start up to the delivery of the deal; actionMu stays locked.
StartSession ==
  /\ dispatch = "idle" /\ ~retired
  /\ quiescenceRelease \/ leaseReleases > 0
  /\ Start
  /\ TimersAfterMove
  /\ dispatch' = "starting"
  /\ UNCHANGED << isOffline, retired, queueVars, leaseVars >>

\* A seat that went offline before the first turn existed is paused now.
PauseInitialOfflineTurn ==
  /\ dispatch = "starting"
  /\ dispatch' = "idle"
  /\ IF state = "Bidding" /\ isOffline[currentBidder]
     THEN PauseOfflineTurn(currentBidder) ELSE UNCHANGED timerVars
  /\ UNCHANGED << gameVars, isOffline, retired, queueVars, leaseVars >>

\* dispatchPendingWork after endGame: GameOver is delivered and the room
\* reopened, then the results are recorded, then the lease is released.
ReopenRoom ==
  /\ dispatch = "gameOver"
  /\ ResetAfterGame
  /\ dispatch' = "settling"
  /\ UNCHANGED << isOffline, retired, timerVars, queueVars, leaseVars >>

RecordResults ==
  /\ dispatch = "settling"
  /\ recorded' = TRUE
  /\ dispatch' = "releasing"
  /\ UNCHANGED << gameVars, isOffline, retired, timerVars, queueVars,
                  quiescenceRelease, quiescenceDone, retireReleases,
                  leaseReleases >>

\* releaseQuiescence: whoever comes first gives the attached lease back.
ReleaseQuiescence ==
  /\ quiescenceDone' = TRUE
  /\ quiescenceRelease' = FALSE
  /\ leaseReleases' = IF ~quiescenceDone /\ quiescenceRelease
                      THEN leaseReleases + 1 ELSE leaseReleases

\* Fault: the lease is given back before the results are recorded.
ReleaseBeforeRecording ==
  /\ dispatch = "settling"
  /\ dispatch' = "idle"
  /\ ReleaseQuiescence
  /\ UNCHANGED << gameVars, isOffline, retired, timerVars, queueVars, recorded,
                  retireReleases >>

ReleaseAfterGame ==
  /\ dispatch = "releasing"
  /\ dispatch' = "idle"
  /\ ReleaseQuiescence
  /\ UNCHANGED << gameVars, isOffline, retired, timerVars, queueVars, recorded,
                  retireReleases >>

\* Fault: retirement ends the game without a settlement.
RetireAsEnded ==
  /\ dispatch = "idle" /\ ~retired
  /\ retired' = TRUE /\ state' = "Ended"
  /\ UNCHANGED << gameID, turnID, redealCount, bidVars, cardVars, playVars,
                  tallyVars, roomState, roomLandlord, isOffline, timerVars,
                  queueVars, dispatch, leaseVars >>

\* Retire: under actionMu the session is frozen and its timers are stopped; the
\* lease is released after the lock.
Retire ==
  /\ dispatch = "idle" /\ ~retired
  /\ retired' = TRUE
  /\ turnTimer' = NoTimer /\ offlineWaitTimer' = NoTimer
  /\ remainingTime' = FALSE
  /\ retireReleases' = TRUE
  /\ UNCHANGED << gameVars, isOffline, lostTimers, queueVars, dispatch,
                  recorded, quiescenceRelease, quiescenceDone, leaseReleases >>

ReleaseAfterRetire ==
  /\ retireReleases
  /\ retireReleases' = FALSE
  /\ ReleaseQuiescence
  /\ UNCHANGED << gameVars, isOffline, retired, timerVars, queueVars, dispatch,
                  recorded >>

Callback ==
  \/ \E c \in callbacks : BidTimeout(c) \/ PlayTimeout(c) \/ OfflineTimeout(c)
  \/ \E m \in autoMoves : MakeAutoMove(m)

Dispatch ==
  PauseInitialOfflineTurn \/ ReopenRoom \/ RecordResults \/ ReleaseAfterGame
    \/ ReleaseAfterRetire

SessionNext ==
  \/ SetQuiescenceRelease
  \/ StartSession
  \/ \E seat \in Seat : Send(seat) \/ PlayerOffline(seat) \/ PlayerOnline(seat)
  \/ \E c \in inbox : HandleCommand(c)
  \/ FireTurnTimer \/ FireLostTimer \/ FireOfflineTimer
  \/ Callback
  \/ Dispatch
  \/ Retire

SessionSpec == SessionInit /\ [][SessionNext]_sessionVars

\* Goroutines that hold or wait for a lock get it; armed timers fire. The turn
\* timer may be paused again and again, but every pause keeps what it has used
\* up (timer.go:147-155), so it fires if it is armed again and again.
SessionFairness ==
  /\ WF_sessionVars(Dispatch)
  /\ WF_sessionVars(\E c \in inbox : HandleCommand(c))
  /\ WF_sessionVars(\E c \in callbacks : BidTimeout(c))
  /\ WF_sessionVars(\E c \in callbacks : PlayTimeout(c))
  /\ WF_sessionVars(\E c \in callbacks : OfflineTimeout(c))
  /\ WF_sessionVars(\E m \in autoMoves : MakeAutoMove(m))
  /\ WF_sessionVars(FireOfflineTimer)
  /\ SF_sessionVars(FireTurnTimer)

FairSessionSpec == SessionSpec /\ SessionFairness

-----------------------------------------------------------------------------
(* Properties                                                              *)

\* Types of the session's own state.
SessionTypeOK ==
  /\ isOffline \in [Seat -> BOOLEAN] /\ retired \in BOOLEAN
  /\ turnTimer = NoTimer \/ Content(turnTimer) \in Timer
  /\ offlineWaitTimer = NoTimer \/ Content(offlineWaitTimer) \in Timer
  /\ lostTimers \subseteq Timer /\ callbacks \subseteq Timer
  /\ remainingTime \in BOOLEAN
  /\ \A m \in autoMoves : m.player \in Seat /\ m.cards \in CardSet
  /\ \A c \in inbox : c \in Command
  /\ dispatch \in {"idle", "starting", "gameOver", "settling", "releasing"}
  /\ {recorded, quiescenceRelease, quiescenceDone, retireReleases}
       \subseteq BOOLEAN
  /\ leaseReleases \in Nat

\* What can still end the turn of the seat to move without a client: a timer
\* armed for it, a callback on its way, a move waiting for actionMu.
DrivesTurn(d) ==
  IF d.kind = "offline" THEN d.player = SeatToMove ELSE d.turn = turnID

TurnDrivers ==
  {Content(t) : t \in {u \in {turnTimer, offlineWaitTimer} : Running(u)}}
    \cup lostTimers \cup callbacks

\* Whatever disconnects and reconnects do to the timers, a turn of a live game
\* is never left to the goodwill of its player alone: something is under way
\* that ends it (timer.go:97-233), and every timer, callback and automatic move
\* is one of the session's.
TurnHasDriver ==
  /\ SessionTypeOK
  /\ state \in {"Bidding", "Playing"} /\ ~retired =>
       \/ \E d \in TurnDrivers : DrivesTurn(d)
       \/ \E m \in autoMoves : m.turn = turnID /\ m.player = SeatToMove

\* A turn is ended by a move that was made for this very turn and seat, never
\* by a late, repeated or stale one (the turn and seat checks of bid.go:44-69,
\* play.go:126-146 and 185-210, timer.go:48), with two exceptions the code has:
\* a bid of a bot does not say what turn it was made for (bot.go:407) and may
\* act in a later turn of that bot; and the offline timer's callback is given
\* only a player (timer.go:166-168), so one that fired in an earlier turn of
\* that player may end a later one, after a reconnect too. Even then its move
\* was chosen in the turn that it ends.
Consumed == (callbacks \ callbacks') \cup (autoMoves \ autoMoves')
              \cup (inbox \ inbox')
MoveMade == state \in {"Bidding", "Playing"} /\ ~(UNCHANGED << turnID, state >>)
MadeForThisTurn ==
  \E m \in Consumed :
    /\ m.player = SeatToMove
    /\ m.turn = turnID \/ (m.player \in Bots /\ state = "Bidding")
    /\ m \in autoMoves => m.armed = turnID \/ m.timer = "offline"
MovesAreForThisTurn == [][MoveMade => MadeForThisTurn]_sessionVars

\* The session plays the game of LandlordGame and nothing else: whatever
\* commands, timers, presence changes and retirement do, every step is a step
\* of the game or leaves it alone.
PlaysLandlord == Spec

\* Retire is final (lifecycle.go:38-53): no command, timer callback, reconnect
\* or late Start moves the game of a retired session or arms a timer for it.
RetiredForGood ==
  [][ retired => /\ retired' /\ UNCHANGED gameVars
                 /\ turnTimer' = NoTimer /\ offlineWaitTimer' = NoTimer
    ]_sessionVars

\* The start lease is given back at most once, and not before the session is
\* retired or its game is settled: results recorded and the room reopened
\* (delivery.go:67-98), so that a restart is not declared safe too early.
LeaseReleasedOnceSettled ==
  /\ leaseReleases <= 1
  /\ quiescenceRelease => leaseReleases = 0
  /\ leaseReleases = 1 => retired \/ (recorded /\ roomState = "Waiting")

\* Nobody can stall a game with one unreliable seat: once started it is played
\* to its end, or the session is retired; and then an attached start lease
\* comes back, so that a drained server can restart.
SessionGetsOver ==
  /\ state \in {"Bidding", "Playing"} ~> (state = "Ended" \/ retired)
  /\ quiescenceRelease /\ (state = "Ended" \/ retired) ~> leaseReleases = 1
=============================================================================
