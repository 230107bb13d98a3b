--------------------------- MODULE SessionProofs ----------------------------
(***************************************************************************)
(* Who commands a player, when a logout is over and which tokens a device  *)
(* may still hold, for any connections and devices.                        *)
(*                                                                         *)
(* First a browser's server: what a step may do to one player's session    *)
(* and rotation (Turn), to connections, registrations, tickets and command *)
(* locks (WebMove), what is kept by such moves (Deep), and that every step *)
(* is one.                                                                 *)
(*                                                                         *)
(* Then what a logout waits for: whoever still runs a command of a player  *)
(* whose session it ended is waited for, through the drains of those who   *)
(* moved off that player in time (Finals); terminal clients never log out. *)
(*                                                                         *)
(* And what a device may still hold: every token a browser might show is   *)
(* of its open rotation or the last it was given (HeldMove), and a         *)
(* terminal client's is its session's or about to be put back (Holdings).  *)
(***************************************************************************)
EXTENDS ReconnectProofs

-----------------------------------------------------------------------------
(* What an operation does to one player's session and rotation             *)

\* Nothing that matters; the end of it; its token presented, of two; a
\* rotation taken back, or left to whichever token is presented first.
Kept(cr, now, p) ==
  /\ now.rotation[p] = cr.rotation[p]
  /\ HasSession(now, p) <=> HasSession(cr, p)
  /\ now.session[p].token = cr.session[p].token
  /\ Usable(now, p) => Usable(cr, p)

Ended(cr, now, p) == ~HasSession(now, p) /\ now.rotation[p] = NoRotation

SettledFor(cr, now, p, t) ==
  /\ cr.rotation[p].by # Nobody /\ now.rotation[p] = NoRotation
  /\ HasSession(cr, p) /\ HasSession(now, p) /\ now.session[p].token = t
  /\ Usable(now, p) => Usable(cr, p)
  /\ \/ t = New(cr.rotation[p].by)
     \/ t = cr.restored[cr.rotation[p].by].previous /\ cr.rotation[p].orphaned

TakenBack(cr, now, p, c) ==
  /\ cr.restored[c].player = p /\ cr.rotation[p] = [by |-> c, orphaned |-> FALSE]
  /\ HasSession(cr, p) /\ HasSession(now, p)
  /\ now.rotation[p] = NoRotation /\ now.session[p].token = cr.restored[c].previous

LeftOpen(cr, now, p, c) ==
  /\ cr.restored[c].player = p
  /\ cr.rotation[p].by = c /\ now.rotation[p] = [by |-> c, orphaned |-> TRUE]
  /\ HasSession(cr, p) /\ HasSession(now, p) /\ now.session[p].token = cr.session[p].token
  /\ Usable(now, p) => Usable(cr, p)

\* c has a ticket for a rotation of p that it could still take back.
Undecided(now, p, c) == now.rotation[p] = [by |-> c, orphaned |-> FALSE] /\ Usable(now, p)

LEMMA KeptItself == ASSUME NEW cr, NEW p PROVE Kept(cr, cr, p)
  BY DEF Kept

LEMMA KeptTwice ==
  ASSUME NEW a, NEW b, NEW d, NEW p, Kept(a, b, p), Kept(b, d, p)
  PROVE  Kept(a, d, p)
  BY DEF Kept

LEMMA KeptThenTakenBack ==
  ASSUME NEW a, NEW b, NEW d, NEW p, NEW c, b.restored = a.restored, Kept(a, b, p), TakenBack(b, d, p, c)
  PROVE  TakenBack(a, d, p, c)
  BY DEF Kept, TakenBack

LEMMA KeptThenLeftOpen ==
  ASSUME NEW a, NEW b, NEW d, NEW p, NEW c, b.restored = a.restored, Kept(a, b, p), LeftOpen(b, d, p, c)
  PROVE  LeftOpen(a, d, p, c)
  BY DEF Kept, LeftOpen

LEMMA EndedStaysEnded ==
  ASSUME NEW a, NEW b, NEW d, NEW p, Ended(a, b, p), Kept(b, d, p)
  PROVE  Ended(a, d, p)
  BY DEF Kept, Ended

LEMMA OfflineTurn ==
  ASSUME NEW cr \in Credentials, NEW A, Books(cr, A), NEW p \in Connection
  PROVE  \A q \in Connection : Kept(cr, WentOffline(cr, p), q)
  BY OfflineIs DEF Kept, Usable, Books

LEMMA OnlineTurn ==
  ASSUME NEW cr \in Credentials, NEW A, Books(cr, A), NEW p \in Connection, HasSession(cr, p) => Valid(cr, p)
  PROVE  \A q \in Connection : Kept(cr, WentOnline(cr, p), q)
<1>1. PICK now : now = WentOnline(cr, p)
  OBVIOUS
<1>2. /\ \A q \in Connection :
           /\ now.session[q].token = cr.session[q].token
           /\ q # p => now.session[q] = cr.session[q]
           /\ HasSession(now, q) <=> HasSession(cr, q)
      /\ now.rotation = cr.rotation
  BY <1>1, OnlineIs DEF Books
<1> QED BY <1>1, <1>2 DEF Kept, Usable, Valid

LEMMA LapsedTurn ==
  ASSUME NEW cr \in Credentials, NEW A, Books(cr, A), NEW p \in Connection, HasSession(cr, p)
  PROVE  \A q \in Connection : Kept(cr, Lapsed(cr, p), q)
<1>1. PICK now : now = Lapsed(cr, p)
  OBVIOUS
<1>2. /\ \A q \in Connection :
           /\ now.session[q].token = cr.session[q].token
           /\ now.session[q].online = cr.session[q].online
           /\ q # p => now.session[q] = cr.session[q]
           /\ HasSession(cr, q) => HasSession(now, q)
           /\ q # p => (HasSession(now, q) <=> HasSession(cr, q))
      /\ now.session[p].lapsed
      /\ now.rotation = cr.rotation
  BY <1>1, LapsedIs DEF Books
<1> QED BY <1>1, <1>2 DEF Kept, Usable, Valid

LEMMA AliasExpiredTurn ==
  ASSUME NEW cr \in Credentials, NEW t \in Token
  PROVE  \A q \in Connection : Kept(cr, AliasExpired(cr, t), q)
<1>1. AliasExpired(cr, t).session = cr.session /\ AliasExpired(cr, t).rotation = cr.rotation
  BY AliasExpiredIs
<1> QED BY <1>1 DEF Kept, Usable, HasSession, Valid

LEMMA ForgottenTurn ==
  ASSUME NEW cr \in Credentials, NEW A, Books(cr, A), NEW p \in Connection
  PROVE  \A q \in Connection : Kept(cr, Forgotten(cr, p), q)
<1>1. Forgotten(cr, p).session = cr.session /\ Forgotten(cr, p).rotation = cr.rotation
  BY ForgottenIs
<1> QED BY <1>1 DEF Kept, Usable, HasSession, Valid

LEMMA DeletedTurn ==
  ASSUME NEW cr \in Credentials, NEW A, Books(cr, A), NEW p \in Connection
  PROVE  \A q \in Connection : IF q = p THEN Ended(cr, Deleted(cr, p), q) ELSE Kept(cr, Deleted(cr, p), q)
<1>1. PICK now : now = Deleted(cr, p)
  OBVIOUS
<1>2. /\ ~HasSession(now, p) /\ now.rotation[p] = NoRotation
      /\ \A q \in Connection : q # p =>
           /\ now.session[q] = cr.session[q] /\ now.rotation[q] = cr.rotation[q]
           /\ HasSession(now, q) <=> HasSession(cr, q)
  BY <1>1, DeletedIs
<1> QED BY <1>1, <1>2 DEF Kept, Ended, Usable, Valid

LEMMA ResolvedTurn ==
  ASSUME NEW cr \in Credentials, NEW A, Books(cr, A), NEW t \in TokenOrNone
  PROVE  \A q \in Connection :
           \/ Kept(cr, Resolved(cr, t), q)
           \/ SettledFor(cr, Resolved(cr, t), q, t) /\ t \in Token /\ cr.index[t] = q
<1>1. CASE Resolved(cr, t) = cr
  BY <1>1, KeptItself
<1>2. CASE \E p, by \in Connection, loser \in Token : SettledTo(cr, Resolved(cr, t), p, by, t, loser)
 <2>1. PICK now : now = Resolved(cr, t)
   OBVIOUS
 <2>2. PICK p \in Connection, by \in Connection, loser \in Token : SettledTo(cr, now, p, by, t, loser)
   BY <1>2, <2>1
 <2>3. /\ HasSession(cr, p) /\ cr.index[t] = p /\ cr.rotation[p].by = by /\ t \in Token
       /\ t = New(by) \/ (t = cr.restored[by].previous /\ cr.rotation[p].orphaned)
       /\ \A q \in Connection : q # p =>
            /\ now.session[q] = cr.session[q] /\ now.rotation[q] = cr.rotation[q]
       /\ \A q \in Connection : (HasSession(now, q) <=> HasSession(cr, q)) /\ (Valid(now, q) <=> Valid(cr, q))
       /\ now.session[p].token = t /\ now.rotation[p] = NoRotation
   BY <2>2 DEF SettledTo
 <2>4. by # Nobody
   BY ConnectionsAreNumbers
 <2>5. SettledFor(cr, now, p, t)
   BY <2>3, <2>4 DEF SettledFor, Usable
 <2>6. ASSUME NEW q \in Connection, q # p
       PROVE  Kept(cr, now, q)
   BY <2>3, <2>6 DEF Kept, Usable
 <2> QED BY <2>1, <2>3, <2>5, <2>6
<1> QED BY <1>1, <1>2, ResolvedCases

\* Whose ticket is invalidated has its rotation taken back, or left open.
LEMMA InvalidatedTurn ==
  ASSUME NEW cr \in Credentials, NEW A, Books(cr, A), NEW c \in Connection
  PROVE  \A q \in Connection :
           \/ /\ Kept(cr, Invalidated(cr, c), q)
              /\ ticket[New(c)] \in {"issued", "committed"} /\ cr.restored[c].player = q =>
                   ~Undecided(Invalidated(cr, c), q, c)
           \/ ticket[New(c)] = "issued" /\ TakenBack(cr, Invalidated(cr, c), q, c)
           \/ ticket[New(c)] = "committed" /\ LeftOpen(cr, Invalidated(cr, c), q, c)
<1>1. CASE ticket[New(c)] = "issued"
 <2>1. PICK now : now = RolledBack(cr, c, TRUE)
   OBVIOUS
 <2>2. Invalidated(cr, c) = now
   BY <1>1, <2>1 DEF Invalidated
 <2>3. PICK p : p = cr.restored[c].player
   OBVIOUS
 <2>4. CASE ~CanRollBack(cr, c, TRUE)
  <3>1. \A q \in Connection : Kept(cr, now, q)
    BY <2>1, <2>4, RolledBackCases, OfflineTurn, KeptItself
  <3>2. ~Undecided(now, p, c)
   <4>1. SUFFICES ASSUME Undecided(now, p, c), p \in Connection
                  PROVE  FALSE
    <5>1. p = Nobody => ~Undecided(now, p, c)
      BY DEF Undecided, Usable, HasSession
    <5>2. p \in ConnectionOrNone
      BY <2>3, CredentialTypes
    <5> QED BY <4>1, <5>1, <5>2 DEF ConnectionOrNone
   <4>2. cr.rotation[p] = [by |-> c, orphaned |-> FALSE] /\ Usable(cr, p)
     BY <3>1, <4>1 DEF Kept, Undecided
   <4>3. cr.rotation[p].by = c
     BY <4>2
   <4>4. cr.session[p].token = New(c) /\ HasSession(cr, p)
     BY <4>1, <4>3, OpenRotationBy
   <4>5. cr.index[New(c)] = p
     BY <4>1, <4>2, <4>4, TokenSessionFacts DEF Books, Usable
   <4> QED BY <2>3, <2>4, <4>2, <4>4, <4>5 DEF CanRollBack
  <3> QED BY <2>2, <2>3, <3>1, <3>2
 <2>5. CASE CanRollBack(cr, c, TRUE)
  <3>1. RolledBackTo(cr, now, c, TRUE)
    BY <2>1, <2>5, RolledBackCases
  <3>2. /\ p \in Connection /\ HasSession(cr, p) /\ cr.rotation[p] = [by |-> c, orphaned |-> FALSE]
        /\ now.session[p].token = cr.restored[c].previous /\ HasSession(now, p) /\ now.rotation[p] = NoRotation
        /\ \A q \in Connection : q # p =>
             /\ now.session[q] = cr.session[q] /\ now.rotation[q] = cr.rotation[q]
             /\ HasSession(now, q) <=> HasSession(cr, q)
             /\ Valid(now, q) <=> Valid(cr, q)
    BY <2>3, <3>1 DEF RolledBackTo
  <3>3. TakenBack(cr, now, p, c)
    BY <2>3, <3>2 DEF TakenBack
  <3>4. ASSUME NEW q \in Connection, q # p
        PROVE  Kept(cr, now, q)
    BY <3>2, <3>4 DEF Kept, Usable
  <3> QED BY <1>1, <2>2, <2>3, <3>3, <3>4
 <2> QED BY <2>4, <2>5
<1>2. CASE ticket[New(c)] = "committed"
 <2>1. PICK now : now = Orphaned(cr, c)
   OBVIOUS
 <2>2. Invalidated(cr, c) = now
   BY <1>2, <2>1 DEF Invalidated
 <2>3. /\ now.session = cr.session
       /\ \A q \in Connection :
            /\ cr.rotation[q].by = Nobody \/ cr.rotation[q].by # c => now.rotation[q] = cr.rotation[q]
            /\ cr.rotation[q].by = c => now.rotation[q] = [by |-> c, orphaned |-> TRUE]
   BY <2>1, OrphanedIs
 <2>4. ASSUME NEW q \in Connection, cr.rotation[q].by = c
       PROVE  LeftOpen(cr, now, q, c)
  <3>1. HasSession(cr, q) /\ cr.restored[c].player = q
    BY <2>4, OpenRotationBy
  <3> QED BY <2>3, <2>4, <3>1 DEF LeftOpen, Usable, HasSession, Valid
 <2>5. ASSUME NEW q \in Connection, cr.rotation[q].by # c
       PROVE  Kept(cr, now, q) /\ ~Undecided(now, q, c)
  <3>1. now.rotation[q] = cr.rotation[q]
    BY <2>3, <2>5
  <3> QED BY <2>3, <2>5, <3>1 DEF Kept, Undecided, Usable, HasSession, Valid
 <2> QED BY <1>2, <2>2, <2>4, <2>5
<1>3. CASE ticket[New(c)] \notin {"issued", "committed"}
 <2>1. Invalidated(cr, c) = cr
   BY <1>3 DEF Invalidated
 <2> QED BY <1>3, <2>1, KeptItself
<1> QED BY <1>1, <1>2, <1>3

-----------------------------------------------------------------------------
(* What a step does to one player's session and rotation                   *)

\* Who asks to come back has never shown a token, has no session of his own any
\* more once he is back, and what the device may show is not waiting for him.
AskersInv ==
  /\ \A t \in Token : ticket[t] = "committed" => ~Asker(t[1])
  /\ \A c \in Connection : ticket[Own(c)] = "committed" => cred.restored[c].player = Nobody
  /\ \A t \in Shown : t # NoToken => ticket[t] # "issued" /\ ~Asker(t[1]) /\ ~Asker(TokenPlayer(cred, t))
  /\ \A c \in Connection : seen[c] # NoToken => ticket[seen[c]] = "none"
  /\ \A c \in Connection : cred.restored[c].player # Nobody => ~Asker(cred.restored[c].player) /\ ~HasSession(cred, c)
  /\ closed \subseteq Admitted /\ \A t \in Token : ticket[t] # "none" => t[1] \notin closed
  /\ \A c \in Connection : cred.restored[c].player # Nobody /\ ~Window(c) => ticket[Own(c)] = "none"

\* A ticket for a restored token is for a rotation that can go either way, and
\* such a rotation has its ticket.
RotatingInv ==
  /\ \A c \in Connection : ticket[New(c)] # "none" =>
       \/ cred.rotation[cred.restored[c].player] = [by |-> c, orphaned |-> FALSE]
       \/ ~Usable(cred, cred.restored[c].player)
  /\ OneRotationTicket /\ RotationEnds

Lost(c) == ticket[New(c)] # "none" /\ ticket'[New(c)] = "none"

\* c has come back as p: its token is new, and the rotation that makes it so
\* is c's to decide.
Reborn(p, c) ==
  /\ doing[c] = "restoring" /\ Window(c)' /\ ~(\E d \in Connection : Window(d))
  /\ c \notin closed /\ closed' = closed
  /\ p = TokenPlayer(cred, seen[c]) /\ seen[c] \in Token
  /\ cred.restored[c].player = Nobody /\ cred'.restored[c].player = p
  /\ cred.rotation[p].by = Nobody \/ cred.rotation[p].orphaned
  /\ cred.session[p].token = seen[c] \/ cred.rotation[p].orphaned
  /\ Usable(cred, p) /\ HasSession(cred', p)
  /\ cred'.session[p].token = New(c) /\ cred'.rotation[p] = [by |-> c, orphaned |-> FALSE]
  /\ ticket[New(c)] = "none" /\ ticket'[New(c)] = "issued"
  /\ \A t \in Token : t # New(c) => ticket'[t] = ticket[t]

Begun(p) ==
  /\ p \notin Admitted /\ HasSession(cred', p)
  /\ cred'.session[p].token = Own(p) /\ cred'.rotation[p] = NoRotation

Turn(p) ==
  \/ /\ Kept(cred, cred', p)
     /\ \A c \in Connection : Lost(c) /\ cred.restored[c].player = p => ~Undecided(cred', p, c)
  \/ Ended(cred, cred', p)
  \/ \E t \in Token :
       /\ SettledFor(cred, cred', p, t) /\ ~(\E d \in Connection : Window(d))
       /\ Usable(cred', p) => ticket'[t] = "none"
  \/ \E c \in closed' : ticket[New(c)] = "issued" /\ Lost(c) /\ TakenBack(cred, cred', p, c)
  \/ \E c \in closed' : ticket[New(c)] = "committed" /\ Lost(c) /\ LeftOpen(cred, cred', p, c)
  \/ Begun(p)
  \/ \E c \in Connection : Reborn(p, c)

Turns == \A p \in Connection : Turn(p)

\* No two of those that go have a ticket for a rotation.
Alone(gone) == \A c, d \in gone : ticket[New(c)] # "none" /\ ticket[New(d)] # "none" => c = d

LEMMA TicketWords ==
  ASSUME Core, NEW c \in Connection
  PROVE  ticket[New(c)] \in {"none", "issued", "committed"} /\ ticket[Own(c)] \in {"none", "issued", "committed"}
  BY TokenFacts DEF Core, Shapes

LEMMA AllInvalidatedTurn ==
  ASSUME Core, NEW cr \in Credentials, NEW A, Books(cr, A), NEW gone \in SUBSET Connection, Alone(gone)
  PROVE  \A q \in Connection :
           \/ /\ Kept(cr, AllInvalidated(cr, gone), q)
              /\ \A c \in gone : ticket[New(c)] # "none" /\ cr.restored[c].player = q =>
                   ~Undecided(AllInvalidated(cr, gone), q, c)
           \/ \E c \in gone : ticket[New(c)] = "issued" /\ TakenBack(cr, AllInvalidated(cr, gone), q, c)
           \/ \E c \in gone : ticket[New(c)] = "committed" /\ LeftOpen(cr, AllInvalidated(cr, gone), q, c)
<1> DEFINE turning == {c \in gone : ticket[New(c)] # "none"}
<1>1. CASE turning = {}
 <2>1. AllInvalidated(cr, gone) = cr
   BY <1>1 DEF AllInvalidated
 <2> QED BY <1>1, <2>1, KeptItself
<1>2. CASE turning # {}
 <2>1. PICK x \in turning : x = (CHOOSE c \in turning : TRUE)
   BY <1>2
 <2>2. AllInvalidated(cr, gone) = Invalidated(cr, x)
   BY <1>2, <2>1 DEF AllInvalidated
 <2>3. x \in gone /\ x \in Connection /\ ticket[New(x)] \in {"issued", "committed"}
   BY TicketWords
 <2>4. \A c \in gone : ticket[New(c)] # "none" => c = x
   BY <2>3 DEF Alone
 <2>5. PICK now : now = Invalidated(cr, x)
   OBVIOUS
 <2>6. ASSUME NEW q \in Connection
       PROVE  \/ /\ Kept(cr, now, q)
                 /\ \A c \in gone : ticket[New(c)] # "none" /\ cr.restored[c].player = q => ~Undecided(now, q, c)
              \/ \E c \in gone : ticket[New(c)] = "issued" /\ TakenBack(cr, now, q, c)
              \/ \E c \in gone : ticket[New(c)] = "committed" /\ LeftOpen(cr, now, q, c)
  <3>1. \/ /\ Kept(cr, now, q)
           /\ ticket[New(x)] \in {"issued", "committed"} /\ cr.restored[x].player = q => ~Undecided(now, q, x)
        \/ ticket[New(x)] = "issued" /\ TakenBack(cr, now, q, x)
        \/ ticket[New(x)] = "committed" /\ LeftOpen(cr, now, q, x)
    BY <2>3, <2>5, InvalidatedTurn
  <3> QED BY <2>3, <2>4, <3>1
 <2> QED BY <2>2, <2>5, <2>6
<1> QED BY <1>1, <1>2

\* Connections are closed that have one ticket at most for a rotation, after
\* something else was done that ended, or did not matter to, each player.
LEMMA ClosingTurn ==
  ASSUME Core, NEW cr \in Credentials, NEW A, Books(cr, A), cr.restored = cred.restored,
         NEW gone \in SUBSET Connection, Alone(gone),
         \A q \in Connection : Kept(cred, cr, q) \/ Ended(cred, cr, q),
         cred' = AllInvalidated(cr, gone), gone \subseteq closed',
         \A t \in Token : ticket'[t] \in {"none", IF t[1] \in gone THEN "none" ELSE ticket[t]},
         \A t \in Token : t[2] = "new" /\ t[1] \notin gone => ticket'[t] = ticket[t]
  PROVE  Turns
<1>1. SUFFICES ASSUME NEW p \in Connection
               PROVE  Turn(p)
  BY DEF Turns
<1>2. \A c \in Connection : Lost(c) => c \in gone
  BY TokenFacts DEF Lost
<1>3. \A c \in gone : ticket[New(c)] # "none" => Lost(c)
  BY TokenFacts DEF Lost
<1>4. CASE /\ Kept(cr, cred', p)
           /\ \A c \in gone : ticket[New(c)] # "none" /\ cr.restored[c].player = p => ~Undecided(cred', p, c)
 <2>1. CASE Kept(cred, cr, p)
  <3>1. Kept(cred, cred', p)
    BY <1>4, <2>1, KeptTwice
  <3> QED BY <1>2, <1>4, <3>1 DEF Turn, Lost
 <2>2. CASE Ended(cred, cr, p)
   BY <1>4, <2>2, EndedStaysEnded DEF Turn
 <2> QED BY <2>1, <2>2
<1>5. CASE \E c \in gone : ticket[New(c)] = "issued" /\ TakenBack(cr, cred', p, c)
 <2>1. PICK c \in gone : ticket[New(c)] = "issued" /\ TakenBack(cr, cred', p, c)
   BY <1>5
 <2>2. Kept(cred, cr, p)
   BY <2>1 DEF TakenBack, Ended
 <2>3. TakenBack(cred, cred', p, c)
   BY <2>1, <2>2, KeptThenTakenBack
 <2>4. c \in closed' /\ Lost(c)
   BY <1>3, <2>1
 <2> QED BY <2>1, <2>3, <2>4 DEF Turn
<1>6. CASE \E c \in gone : ticket[New(c)] = "committed" /\ LeftOpen(cr, cred', p, c)
 <2>1. PICK c \in gone : ticket[New(c)] = "committed" /\ LeftOpen(cr, cred', p, c)
   BY <1>6
 <2>2. Kept(cred, cr, p)
   BY <2>1 DEF LeftOpen, Ended
 <2>3. LeftOpen(cred, cred', p, c)
   BY <2>1, <2>2, KeptThenLeftOpen
 <2>4. c \in closed' /\ Lost(c)
   BY <1>3, <2>1
 <2> QED BY <2>1, <2>3, <2>4 DEF Turn
<1> QED BY <1>4, <1>5, <1>6, AllInvalidatedTurn

LEMMA CloseTurns ==
  ASSUME Core, NEW c \in Connection, Closes({c}, cred)
  PROVE  Turns
<1>1. /\ cred' = AllInvalidated(cred, {c}) /\ {c} \subseteq closed' /\ Alone({c})
      /\ \A t \in Token : ticket'[t] \in {"none", IF t[1] \in {c} THEN "none" ELSE ticket[t]}
      /\ \A t \in Token : t[2] = "new" /\ t[1] \notin {c} => ticket'[t] = ticket[t]
  BY DEF Closes, Alone, WithoutTicketsOf
<1>2. \A q \in Connection : Kept(cred, cred, q)
  BY KeptItself
<1> QED BY <1>1, <1>2, ClosingTurn DEF Core

LEMMA QuietTurns ==
  ASSUME \A q \in Connection : Kept(cred, cred', q) \/ Ended(cred, cred', q),
         \A c \in Connection : ~Lost(c)
  PROVE  Turns
  BY DEF Turns, Turn

LEMMA StillTurns ==
  ASSUME UNCHANGED cred, \A c \in Connection : ~Lost(c)
  PROVE  Turns
  BY QuietTurns, KeptItself

\* A token is presented, after which its ticket is gone.
LEMMA PresentTurns ==
  ASSUME Core, NEW t \in TokenOrNone, cred' = Resolved(cred, t), ~(\E d \in Connection : Window(d)),
         \A c \in Connection : Lost(c) => New(c) = t,
         t \in Token => ticket'[t] = "none" \/ PlayerOf(cred', t) = Nobody
  PROVE  Turns
<1>1. SUFFICES ASSUME NEW p \in Connection
               PROVE  Turn(p)
  BY DEF Turns
<1>2. CASE SettledFor(cred, cred', p, t) /\ t \in Token /\ cred.index[t] = p
 <2>1. Usable(cred', p) => ticket'[t] = "none"
  <3>1. SUFFICES ASSUME Usable(cred', p)
                 PROVE  PlayerOf(cred', t) # Nobody
    BY <1>2
  <3>2. cred' \in Credentials /\ Books(cred', Admitted)
    BY ResolvedBooks DEF Core
  <3>3. cred'.session[p].token = t
    BY <1>2 DEF SettledFor
  <3>4. cred'.index[t] = p
    BY <3>1, <3>2, <3>3, TokenSessionFacts DEF Usable, Books
  <3> QED BY <1>2, <3>1, <3>3, <3>4, TokenFacts, ConnectionsAreNumbers DEF PlayerOf, HolderOf, Usable
 <2> QED BY <1>2, <2>1 DEF Turn
<1>3. CASE Kept(cred, cred', p)
 <2>1. ASSUME NEW c \in Connection, Lost(c), cred.restored[c].player = p, Undecided(cred', p, c)
       PROVE  FALSE
  <3>1. t = New(c) /\ t \in Token
    BY <2>1, TokenFacts
  <3>2. cred.rotation[p].by = c /\ HasSession(cred, p) /\ Usable(cred, p)
    BY <1>3, <2>1 DEF Kept, Undecided, Usable
  <3>3. cred.session[p].token = New(c)
    BY <3>2, OpenRotationBy DEF Core
  <3>4. cred.index[t] = p
    BY <3>1, <3>2, <3>3, TokenSessionFacts DEF Core, Books, Usable
  <3>5. Resolved(cred, t) = Settled(cred, p, t, cred.restored[c].previous)
    BY <3>1, <3>2, <3>4, TokenFacts, ConnectionsAreNumbers DEF Resolved, HolderOf
  <3>6. cred.restored[c].previous \in Token /\ cred.restored[c].previous # New(c)
    BY <3>2, OpenRotationBy DEF Core
  <3>7. SettledTo(cred, cred', p, c, t, cred.restored[c].previous)
    BY <3>1, <3>2, <3>4, <3>5, <3>6, SettledIs DEF Core
  <3>8. cred'.rotation[p] = NoRotation
    BY <3>7 DEF SettledTo
  <3> QED BY <2>1, <3>8, ConnectionsAreNumbers DEF Undecided, NoRotation
 <2> QED BY <1>3, <2>1 DEF Turn
<1> QED BY <1>2, <1>3, ResolvedTurn DEF Core

-----------------------------------------------------------------------------
(* What a step of a browser's server does, one piece of state at a time.   *)

NoWindow == ~(\E d \in Connection : Window(d))
NoTicket(c) == ticket[Own(c)] = "none" /\ ticket[New(c)] = "none"
Has(x, t) == x \notin closed => t \in {Own(x), New(x)}

\* Only who has just been admitted starts to ask.
AskMove == \A c \in Connection : Asker(c)' => Asker(c) \/ c \notin Admitted
CloseMove ==
  /\ closed \subseteq closed'
  /\ \A c \in closed' \ closed : c \in Admitted /\ ticket'[Own(c)] = "none" /\ ticket'[New(c)] = "none"
SeenMove == \A c \in Connection : seen'[c] # seen[c] => seen'[c] \in Token /\ ticket'[seen'[c]] = "none"
RestoredMove ==
  \A c \in Connection : cred'.restored[c] # cred.restored[c] =>
    /\ doing[c] = "restoring" /\ cred'.restored[c].player = TokenPlayer(cred, seen[c])
    /\ seen[c] \in Token /\ ~HasSession(cred', c)
    /\ Window(c)' \/ NoTicket(c)'
\* A window closes with the ticket for the identity that its connection had.
WindowEnd ==
  \A c \in Connection : Window(c) /\ ~Window(c)' =>
    ticket'[Own(c)] = "none" /\ (doing[c] = "undone" => c \in closed')

\* A connection is confirmed: its committed ticket has been presented.
Confirms(c) ==
  /\ NoWindow /\ closed' = closed
  /\ \E t \in {Own(c), New(c)} :
       /\ ticket[t] = "committed" /\ ticket'[t] = "none" /\ authorized'[c] = t
       /\ t = New(c) => cred.restored[c].player # Nobody
  /\ \A p \in Connection : cred'.rotation[p].by # c
AuthorizedMove == \A c \in Connection : authorized'[c] \in {authorized[c], NoToken} \/ Confirms(c)
Commands(c) ==
  /\ MayCommand(c) /\ c \in Admitted /\ NoWindow /\ Free
  /\ UNCHANGED << cred, ticket, clients, ident, doing, seen, closed, authorized, moving, previous, request >>
RunningMove == \A c \in running' : c \in running \/ Commands(c)

Enrols(c) ==
  /\ c \notin Admitted /\ NoWindow
  /\ clients' = [clients EXCEPT ![c] = c] /\ ident' = [ident EXCEPT ![c] = c]
  /\ previous' = previous
Leaves(c) ==
  /\ doing[c] = "idle" /\ c \notin running /\ Registered(c)
  /\ clients' = [clients EXCEPT ![ident[c]] = Nobody]
  /\ ident' = ident /\ previous' = previous
Rebinds(c) ==
  /\ doing'[c] = "delivering"
  /\ LET p == cred'.restored[c].player IN
     /\ p \in Admitted /\ Reborn(p, c)
     /\ clients' = [clients EXCEPT ![c] = Nobody, ![p] = c]
     /\ ident' = [ident EXCEPT ![c] = p]
     /\ previous' = [previous EXCEPT ![c] = clients[p]]
  /\ running' = running
UndoesRebind(c) ==
  /\ doing[c] = "undoing" /\ doing'[c] = "undone"
  /\ clients' = [clients EXCEPT ![cred.restored[c].player] = previous[c], ![c] = c]
  /\ ident' = [ident EXCEPT ![c] = c]
  /\ previous' = [previous EXCEPT ![c] = Nobody]
Bound ==
  /\ UNCHANGED << clients, ident >>
  /\ \A c \in Connection : previous'[c] \in {previous[c], Nobody}
RegisterMove ==
  Bound \/ \E c \in Connection : Enrols(c) \/ Leaves(c) \/ Rebinds(c) \/ UndoesRebind(c)

\* How the handler of a reconnect goes on.
PhaseMove ==
  \A c \in Connection :
    /\ doing'[c] \in {"delivering", "undoing"} =>
         doing[c] = "delivering" \/ doing[c] = doing'[c] \/ Rebinds(c)
    /\ doing'[c] = "undone" => doing[c] = "undone" \/ UndoesRebind(c)

\* It starts to drain whom it will replace ...
Drains(d) ==
  /\ NoWindow /\ Asker(d) /\ doing'[d] = "draining"
  /\ LET p == PlayerOf(cred, seen[d]) IN
     /\ p # Nobody /\ moving'[d] = clients[p] /\ clients[p] # Nobody
     /\ authorized[clients[p]] \in {NoToken, seen[d]}
\* ... and it restores when it has, or has found nobody to drain.
Starts(c) ==
  /\ NoWindow /\ Asker(c)
  /\ LET p == PlayerOf(cred, seen[c]) IN p # Nobody => clients[p] \notin running
  /\ UNCHANGED << cred, clients, running, seen >>
MovingMove ==
  \A d \in Connection :
    /\ moving'[d] \in {moving[d], Nobody} \/ Drains(d)
    /\ moving'[d] # Nobody /\ doing'[d] # "draining" =>
         moving'[d] = moving[d] /\ (doing[d] # "draining" \/ (moving[d] \notin running /\ running' = running))
    /\ doing'[d] = "restoring" => doing[d] = "restoring" \/ Starts(d)

\* Whom a logout drains has been admitted.
DrainMove == \A d \in Connection : drains'[d].left \subseteq drains[d].left \cup Admitted

WebMove ==
  /\ Turns /\ AskMove /\ CloseMove /\ SeenMove /\ RestoredMove /\ WindowEnd
  /\ AuthorizedMove /\ RunningMove /\ RegisterMove /\ PhaseMove /\ MovingMove /\ DrainMove

-----------------------------------------------------------------------------
(* What holds of a browser's server.                                       *)

IdentInv ==
  \A c \in Connection :
    /\ clients[c] # Nobody => ident[clients[c]] = c
    /\ previous[c] # Nobody => ident[previous[c]] = cred.restored[c].player /\ previous[c] # c
AuthorizedInv ==
  \A c \in Connection : authorized[c] # NoToken => c \in Admitted /\ NoTicket(c) /\ ~Asker(c)
RunningInv == \A c \in running : c \in Admitted /\ Registered(c) /\ NoTicket(c) /\ ~Asker(c)
MovingInv ==
  \A d \in Connection : moving[d] # Nobody =>
    /\ moving[d] \in Admitted /\ NoTicket(moving[d]) /\ ~Asker(moving[d])
    /\ doing[d] # "draining" => moving[d] \notin running
RotationsInv ==
  \A p \in Connection, c \in Connection : cred.rotation[p].by = c =>
    /\ c \notin running /\ authorized[c] = NoToken
    /\ ~Window(c) => clients[p] \in {c, Nobody}
    /\ cred.rotation[p].orphaned => c \in closed
WindowInv ==
  \A c \in Connection : Window(c) =>
    LET p == cred.restored[c].player IN
    /\ c \in closed => cred.rotation[p] = NoRotation /\ cred.session[p].token = seen[c]
    /\ c \notin closed => cred.rotation[p] = [by |-> c, orphaned |-> FALSE] /\ ticket[New(c)] = "issued"
    /\ previous[c] # Nobody => Has(previous[c], seen[c])
    /\ doing[c] = "undone" /\ clients[p] # Nobody => Has(clients[p], seen[c])
    /\ doing[c] # "undone" => clients[p] = c
RegisteredInv ==
  \A p \in Connection :
    /\ HasSession(cred, p) /\ clients[p] # Nobody
    /\ ~(\E c \in Connection : Window(c) /\ cred.restored[c].player = p)
    => Has(clients[p], cred.session[p].token)
RestoringInv ==
  \A c \in Connection : doing[c] = "restoring" =>
    LET t == seen[c]  p == TokenPlayer(cred, t) IN
    \/ clients[p] \notin running
    \/ ~HasSession(cred, p)
    \/ cred.rotation[p].by = Nobody /\ (~Usable(cred, p) \/ cred.session[p].token # t)

DrainedInv == \A d \in Connection : drains[d].left \subseteq Admitted

Deep ==
  /\ AskersInv /\ RotatingInv /\ IdentInv /\ AuthorizedInv /\ RunningInv /\ MovingInv
  /\ RotationsInv /\ WindowInv /\ RegisteredInv /\ RestoringInv /\ DrainedInv

-----------------------------------------------------------------------------
(* What holds of a browser's server stays so.                              *)

\* The player that a connection has come back as.
LEMMA PlayerOfRestored ==
  ASSUME Core, NEW c \in Connection, cred.restored[c].player # Nobody
  PROVE  /\ cred.restored[c].player \in Connection /\ cred.restored[c].player \in Admitted
         /\ c \in Admitted /\ cred.restored[c].player # c /\ cred.restored[c].previous = seen[c]
         /\ seen[c] \in Token
<1>1. /\ c \in Admitted /\ cred.restored[c].player \in Admitted /\ cred.restored[c].player \in Connection
      /\ cred.restored[c].player # c /\ cred.restored[c].previous \in Token
  BY RestoreFacts DEF Core, Books
<1> QED BY <1>1, HandlingFacts DEF HandlingOf

\* Who asks has been admitted, and has not come back unless it is just doing so.
LEMMA AskerFacts ==
  ASSUME Core, NEW c \in Connection, Asker(c)
  PROVE  /\ c \in Admitted /\ seen[c] \in Token
         /\ ~Window(c) => ident[c] = c /\ cred.restored[c].player = Nobody
<1>1. HandlingOf(c)
  BY HandlingFacts
<1>2. ident[c] # Nobody
  BY <1>1 DEF HandlingOf, Asker
<1>3. seen[c] \in Token
  BY <1>1 DEF HandlingOf, Core, Shapes, TokenOrNone
<1> QED BY <1>1, <1>2, <1>3 DEF HandlingOf, Asker, Asks, Busy, Holding, Admitted

LEMMA TicketFacts ==
  ASSUME Core, NEW c \in Connection
  PROVE  /\ ticket[Own(c)] # "none" => c \in Admitted
         /\ ticket[New(c)] # "none" => c \in Admitted /\ cred.restored[c].player # Nobody
         /\ \A t \in Token : ticket[t] # "none" => t[1] \in Admitted
<1>1. Own(c) \in Token /\ New(c) \in Token /\ Own(c)[1] = c /\ Own(c)[2] = "own" /\ New(c)[1] = c /\ New(c)[2] = "new"
  BY TokenFacts
<1>2. \A t \in Token : ticket[t] # "none" => Drawn(cred, Admitted, t)
  BY DEF Core, TicketsAreDrawn
<1>3. ticket[New(c)] # "none" => cred.restored[c].player # Nobody
  BY <1>1, <1>2 DEF Drawn
<1> QED BY <1>1, <1>2, <1>3, NotDrawnYet

\* Who does not ask in the next state.
NotAsking(x) == request'[x].what \notin {"ask", "asked"}

LEMMA StillNotAsking ==
  ASSUME WebMove, NEW x \in Connection, ~Asker(x), x \in Admitted
  PROVE  NotAsking(x)
BY DEF WebMove, AskMove, Asker, NotAsking

LEMMA AskersKept ==
  ASSUME Core, StepFacts, AskersInv, WebMove
  PROVE  AskersInv'
<1> USE ConnectionsAreNumbers
<1>1. ASSUME NEW t \in Token, ticket'[t] = "committed"
      PROVE  NotAsking(t[1])
 <2>1. t[1] \in Connection
   BY TokenFacts
 <2>2. ticket[t] = "committed" \/ (ticket[t] # "none" /\ Asks(t[1], "commit"))
   BY <1>1 DEF StepFacts, TicketMove, TicketCommits, TicketOpens
 <2>3. ~Asker(t[1])
   BY <2>2 DEF AskersInv, Asks, Asker
 <2>4. t[1] \in Admitted
   BY <2>1, <2>2, TicketFacts
 <2> QED BY <2>1, <2>3, <2>4, StillNotAsking
<1>2. ASSUME NEW c \in Connection, ticket'[Own(c)] = "committed"
      PROVE  cred'.restored[c].player = Nobody
 <2>1. Own(c) \in Token /\ Own(c)[1] = c /\ Own(c)[2] = "own"
   BY TokenFacts
 <2>2. \/ ticket[Own(c)] = "committed"
       \/ cred' = cred /\ cred.restored[c].player = Nobody
   BY <1>2, <2>1 DEF StepFacts, TicketMove, TicketCommits, TicketOpens
 <2>3. CASE ticket[Own(c)] = "committed"
  <3>1. cred.restored[c].player = Nobody /\ ~Asker(c)
    BY <2>1, <2>3 DEF AskersInv
  <3>2. doing[c] # "restoring"
    BY <3>1, HandlingFacts DEF HandlingOf, Asker, Asks, Busy, Holding
  <3> QED BY <3>1, <3>2 DEF WebMove, RestoredMove
 <2> QED BY <2>2, <2>3
<1>3. ASSUME NEW t \in Shown', t # NoToken
      PROVE  ticket'[t] # "issued" /\ NotAsking(t[1]) /\ NotAsking(TokenPlayer(cred', t))
 <2>1. CASE t \in Shown
  <3>1. t \in Token /\ Drawn(cred, Admitted, t)
    BY <1>3, <2>1, ShownAre
  <3>2. t[1] \in Admitted /\ TokenPlayer(cred, t) \in Admitted /\ TokenPlayer(cred', t) = TokenPlayer(cred, t)
    BY <3>1, NotDrawnYet, DrawnStays
  <3>3. ticket[t] # "issued" /\ ~Asker(t[1]) /\ ~Asker(TokenPlayer(cred, t))
    BY <1>3, <2>1 DEF AskersInv
  <3>4. t[1] \in Connection /\ TokenPlayer(cred, t) \in Connection
    BY <3>2, AdmittedAre
  <3>5. NotAsking(t[1]) /\ NotAsking(TokenPlayer(cred, t))
    BY <3>2, <3>3, <3>4, StillNotAsking
  <3>6. ~TicketOpens(t)
   <4>1. CASE t = Own(t[1]) /\ doing[t[1]] = "upgraded"
     BY <3>2, <3>4, <4>1, HandlingFacts DEF HandlingOf, Admitted
   <4>2. CASE t = New(t[1]) /\ doing[t[1]] = "restoring"
     BY <3>1, <3>4, <4>2, HandlingFacts, TokenFacts DEF HandlingOf, Drawn
   <4> QED BY <4>1, <4>2 DEF TicketOpens
  <3>7. ticket'[t] # "issued"
    BY <3>1, <3>3, <3>6 DEF StepFacts, TicketMove, TicketCommits
  <3> QED BY <3>2, <3>5, <3>7
 <2>2. CASE FirstShown(t)
  <3>1. t \in Token /\ ticket'[t] # "issued" /\ request'[t[1]].what \notin {"ask", "asked"} /\ t[1] \in Connection
    BY <2>2, TokenFacts DEF FirstShown
  <3>2. NotAsking(t[1])
    BY <3>1 DEF NotAsking
  <3>3. CASE t[2] = "own"
    BY <3>1, <3>2, <3>3 DEF TokenPlayer
  <3>4. CASE t[2] = "new"
   <4>1. cred.restored[t[1]].player # Nobody
     BY <2>2, <3>4 DEF FirstShown
   <4>2. cred'.restored[t[1]] = cred.restored[t[1]]
     BY <3>1, <4>1 DEF StepFacts, CredMove
   <4>3. ~Asker(cred.restored[t[1]].player) /\ cred.restored[t[1]].player \in Admitted
         /\ cred.restored[t[1]].player \in Connection
     BY <3>1, <4>1, PlayerOfRestored DEF AskersInv
   <4>4. NotAsking(cred.restored[t[1]].player)
     BY <4>1, <4>2, <4>3, StillNotAsking
   <4>5. TokenPlayer(cred', t) = cred.restored[t[1]].player
     BY <3>4, <4>2 DEF TokenPlayer
   <4> QED BY <3>1, <3>2, <4>2, <4>4, <4>5
  <3> QED BY <3>1, <3>3, <3>4, TokenFacts
 <2> QED BY <1>3, <2>1, <2>2 DEF StepFacts, ShownMove
<1>4. ASSUME NEW c \in Connection, seen'[c] # NoToken
      PROVE  ticket'[seen'[c]] = "none"
 <2>1. CASE seen'[c] # seen[c]
   BY <2>1 DEF WebMove, SeenMove
 <2>2. CASE seen'[c] = seen[c]
  <3>1. seen[c] \in Shown
    BY ShownAre
  <3>2. seen[c] \in Token /\ Drawn(cred, Admitted, seen[c]) /\ ticket[seen[c]] = "none"
    BY <1>4, <2>2, <3>1, ShownAre DEF AskersInv
  <3>3. seen[c][1] \in Admitted /\ seen[c][1] \in Connection
    BY <3>2, NotDrawnYet, AdmittedAre
  <3>4. ~TicketOpens(seen[c])
   <4>1. CASE seen[c] = Own(seen[c][1]) /\ doing[seen[c][1]] = "upgraded"
     BY <3>3, <4>1, HandlingFacts DEF HandlingOf, Admitted
   <4>2. CASE seen[c] = New(seen[c][1]) /\ doing[seen[c][1]] = "restoring"
     BY <3>2, <3>3, <4>2, HandlingFacts, TokenFacts DEF HandlingOf, Drawn
   <4> QED BY <4>1, <4>2 DEF TicketOpens
  <3> QED BY <2>2, <3>2, <3>4 DEF StepFacts, TicketMove, TicketCommits
 <2> QED BY <2>1, <2>2
<1>5. ASSUME NEW c \in Connection, cred'.restored[c].player # Nobody
      PROVE  NotAsking(cred'.restored[c].player) /\ ~HasSession(cred', c)
 <2>1. CASE cred'.restored[c] # cred.restored[c]
  <3>1. doing[c] = "restoring" /\ cred'.restored[c].player = TokenPlayer(cred, seen[c])
        /\ seen[c] \in Token /\ ~HasSession(cred', c)
    BY <2>1 DEF WebMove, RestoredMove
  <3>2. seen[c] \in Shown /\ seen[c] # NoToken
    BY <3>1, ShownAre, TokenFacts
  <3>3. ~Asker(TokenPlayer(cred, seen[c])) /\ TokenPlayer(cred, seen[c]) \in Admitted
    BY <3>2, ShownAre, NotDrawnYet DEF AskersInv
  <3>4. TokenPlayer(cred, seen[c]) \in Connection
    BY <3>3, AdmittedAre
  <3>5. NotAsking(TokenPlayer(cred, seen[c]))
    BY <3>3, <3>4, StillNotAsking
  <3> QED BY <3>1, <3>5
 <2>2. CASE cred'.restored[c] = cred.restored[c]
  <3>1. ~Asker(cred.restored[c].player) /\ ~HasSession(cred, c) /\ c \in Admitted
        /\ cred.restored[c].player \in Admitted /\ cred.restored[c].player \in Connection
    BY <1>5, <2>2, PlayerOfRestored DEF AskersInv
  <3>2. NotAsking(cred.restored[c].player)
    BY <3>1, <2>2, StillNotAsking
  <3>3. Turn(c)
    BY DEF WebMove, Turns
  <3>4. ~HasSession(cred', c)
    BY <3>1, <3>3 DEF Turn, Kept, Ended, SettledFor, TakenBack, LeftOpen, Begun, Reborn, Usable
  <3> QED BY <2>2, <3>2, <3>4
 <2> QED BY <2>1, <2>2
<1>6. closed' \subseteq Admitted'
 <2>1. Admitted \subseteq Admitted'
   BY DEF StepFacts, CredMove
 <2> QED BY <2>1 DEF WebMove, CloseMove, AskersInv
<1>7. ASSUME NEW t \in Token, ticket'[t] # "none"
      PROVE  t[1] \notin closed'
 <2>1. t[1] \in Connection /\ (t = Own(t[1]) \/ t = New(t[1]))
   BY TokenFacts
 <2>2. t[1] \notin closed
  <3>1. CASE ticket[t] # "none"
    BY <3>1 DEF AskersInv
  <3>2. CASE ticket[t] = "none"
   <4>1. TicketOpens(t)
     BY <1>7, <3>2 DEF StepFacts, TicketMove, TicketCommits
   <4>2. CASE doing[t[1]] = "upgraded"
     BY <2>1, <4>2, HandlingFacts DEF HandlingOf, Admitted, AskersInv
   <4> QED BY <4>1, <4>2 DEF TicketOpens
  <3> QED BY <3>1, <3>2
 <2> QED BY <1>7, <2>1, <2>2 DEF WebMove, CloseMove
<1>8. ASSUME NEW c \in Connection, cred'.restored[c].player # Nobody, ~Window(c)'
      PROVE  ticket'[Own(c)] = "none"
 <2>0. Own(c) \in Token /\ Own(c)[1] = c /\ Own(c)[2] = "own" /\ Own(c) # New(c)
   BY TokenFacts
 <2>1. CASE cred'.restored[c] # cred.restored[c]
   BY <1>8, <2>1 DEF WebMove, RestoredMove, NoTicket
 <2>2. CASE cred'.restored[c] = cred.restored[c] /\ Window(c)
   BY <1>8, <2>2 DEF WebMove, WindowEnd
 <2>3. CASE cred'.restored[c] = cred.restored[c] /\ ~Window(c)
  <3>1. cred.restored[c].player # Nobody /\ ticket[Own(c)] = "none"
    BY <1>8, <2>3 DEF AskersInv
  <3>2. ident[c] # Nobody
    BY <3>1, PlayerOfRestored DEF Admitted
  <3>3. doing[c] # "upgraded"
    BY <3>2, HandlingFacts DEF HandlingOf
  <3> QED BY <2>0, <3>1, <3>3 DEF StepFacts, TicketMove, TicketCommits, TicketOpens
 <2> QED BY <2>1, <2>2, <2>3
<1> QED BY <1>1, <1>2, <1>3, <1>4, <1>5, <1>6, <1>7, <1>8 DEF AskersInv, NotAsking, Asker

-----------------------------------------------------------------------------
(* Rotations and their tickets.                                            *)

\* A window opens when its connection has come back.
LEMMA WindowOpens ==
  ASSUME WebMove, NEW c \in Connection, Window(c)', ~Window(c)
  PROVE  Rebinds(c) /\ Reborn(cred'.restored[c].player, c) /\ cred'.restored[c].player \in Admitted
<1>1. Rebinds(c)
  BY DEF WebMove, PhaseMove, Window, UndoesRebind
<1> QED BY <1>1 DEF Rebinds

\* A ticket that is there was there, or its connection has just come back.
LEMMA NewTickets ==
  ASSUME Core, StepFacts, WebMove, NEW c \in Connection, ticket'[New(c)] # "none"
  PROVE  \/ /\ ticket[New(c)] # "none" /\ cred'.restored[c] = cred.restored[c]
            /\ cred.restored[c].player \in Connection /\ cred.restored[c].player \in Admitted
         \/ /\ ticket[New(c)] = "none" /\ Reborn(cred'.restored[c].player, c)
            /\ cred'.restored[c].player \in Connection
<1>1. New(c) \in Token /\ New(c)[1] = c /\ \A d \in Connection : New(c) # Own(d)
  BY TokenFacts
<1>2. CASE ticket[New(c)] # "none"
 <2>1. cred.restored[c].player # Nobody
   BY <1>2, TicketFacts
 <2> QED BY <1>2, <2>1, PlayerOfRestored DEF StepFacts, CredMove
<1>3. CASE ticket[New(c)] = "none"
 <2>1. TicketOpens(New(c))
   BY <1>1, <1>3 DEF StepFacts, TicketMove, TicketCommits
 <2>2. doing[c] = "restoring" /\ cred'.restored[c].player # Nobody
   BY <1>1, <2>1 DEF TicketOpens
 <2>3. cred.restored[c].player = Nobody
   BY <2>2, HandlingFacts DEF HandlingOf
 <2>4. Window(c)'
   BY <2>2, <2>3 DEF WebMove, RestoredMove, NoTicket
 <2>5. Reborn(cred'.restored[c].player, c) /\ cred'.restored[c].player \in Admitted
   BY <2>2, <2>4, WindowOpens DEF Window
 <2> QED BY <1>3, <2>5, AdmittedAre
<1> QED BY <1>2, <1>3

LEMMA TicketHasRotation ==
  ASSUME Core, StepFacts, RotatingInv, WebMove, NEW c \in Connection, ticket'[New(c)] # "none"
  PROVE  \/ cred'.rotation[cred'.restored[c].player] = [by |-> c, orphaned |-> FALSE]
         \/ ~Usable(cred', cred'.restored[c].player)
<1> USE ConnectionsAreNumbers
<1>1. CASE Reborn(cred'.restored[c].player, c)
  BY <1>1 DEF Reborn
<1>2. CASE /\ ticket[New(c)] # "none" /\ cred'.restored[c] = cred.restored[c]
           /\ cred.restored[c].player \in Connection /\ cred.restored[c].player \in Admitted
 <2> DEFINE p == cred.restored[c].player
 <2>1. p \in Connection /\ p \in Admitted /\ cred'.restored[c].player = p
   BY <1>2
 <2>2. cred.rotation[p] = [by |-> c, orphaned |-> FALSE] \/ ~Usable(cred, p)
   BY <1>2 DEF RotatingInv
 <2>3. Turn(p)
   BY <2>1 DEF WebMove, Turns
 <2>4. SUFFICES ASSUME Usable(cred', p)
                PROVE  cred'.rotation[p] = [by |-> c, orphaned |-> FALSE]
   BY <2>1
 <2>5. ~Lost(c)
   BY <1>2 DEF Lost
 <2> HIDE DEF p
 <2>6. CASE Kept(cred, cred', p)
   BY <2>2, <2>4, <2>6 DEF Kept
 <2>7. CASE Ended(cred, cred', p)
   BY <2>4, <2>7 DEF Ended, Usable
 <2>8. ASSUME NEW t \in Token, SettledFor(cred, cred', p, t), Usable(cred', p) => ticket'[t] = "none"
       PROVE  FALSE
  <3>1. cred.rotation[p] = [by |-> c, orphaned |-> FALSE]
    BY <2>2, <2>4, <2>8 DEF SettledFor
  <3>2. t = New(c)
    BY <2>8, <3>1 DEF SettledFor
  <3> QED BY <2>4, <2>8, <3>2
 <2>9. ASSUME NEW d \in closed', ticket[New(d)] = "issued", Lost(d), TakenBack(cred, cred', p, d)
       PROVE  FALSE
  <3>1. d \in Connection
    BY DEF StepFacts, Shapes
  <3>2. d = c
    BY <1>2, <2>1, <2>9, <3>1 DEF TakenBack, RotatingInv, OneRotationTicket, p
  <3> QED BY <2>5, <2>9, <3>2
 <2>10. ASSUME NEW d \in closed', ticket[New(d)] = "committed", Lost(d), LeftOpen(cred, cred', p, d)
        PROVE  FALSE
  <3>1. d \in Connection
    BY DEF StepFacts, Shapes
  <3>2. d = c
    BY <1>2, <2>1, <2>10, <3>1 DEF LeftOpen, RotatingInv, OneRotationTicket, p
  <3> QED BY <2>5, <2>10, <3>2
 <2>11. ~Begun(p)
   BY <2>1 DEF Begun
 <2>12. ASSUME NEW d \in Connection, Reborn(p, d)
        PROVE  FALSE
  <3>1. Usable(cred, p) /\ (cred.rotation[p].by = Nobody \/ cred.rotation[p].orphaned)
    BY <2>12 DEF Reborn
  <3> QED BY <2>2, <3>1
 <2> QED BY <2>3, <2>6, <2>7, <2>8, <2>9, <2>10, <2>11, <2>12 DEF Turn
<1> QED BY <1>1, <1>2, NewTickets

LEMMA TicketsStayApart ==
  ASSUME Core, StepFacts, RotatingInv, WebMove
  PROVE  OneRotationTicket'
<1>1. SUFFICES ASSUME NEW c \in Connection, NEW d \in Connection,
                      ticket'[New(c)] # "none", ticket'[New(d)] # "none",
                      cred'.restored[c].player = cred'.restored[d].player
               PROVE  c = d
  BY DEF OneRotationTicket
<1>2. ASSUME NEW a \in Connection, NEW b \in Connection,
             Reborn(cred'.restored[a].player, a), ticket[New(b)] # "none",
             cred'.restored[b] = cred.restored[b], cred'.restored[a].player = cred'.restored[b].player
      PROVE  FALSE
 <2> DEFINE p == cred.restored[b].player
 <2>1. cred.rotation[p] = [by |-> b, orphaned |-> FALSE] \/ ~Usable(cred, p)
   BY <1>2 DEF RotatingInv
 <2>2. Reborn(p, a)
   BY <1>2
 <2> HIDE DEF p
 <2> QED BY <2>1, <2>2, ConnectionsAreNumbers DEF Reborn
<1>3. CASE Reborn(cred'.restored[c].player, c) /\ Reborn(cred'.restored[d].player, d)
 <2>1. New(c) # New(d) => ticket'[New(d)] = ticket[New(d)]
   BY <1>3, TokenFacts DEF Reborn
 <2> QED BY <1>1, <1>3, <2>1, TokenFacts DEF Reborn
<1> QED BY <1>1, <1>2, <1>3, NewTickets DEF RotatingInv, OneRotationTicket

\* A rotation that can still go either way has its ticket.
LEMMA RotationsStillEnd ==
  ASSUME Core, Core', StepFacts, RotatingInv, WebMove
  PROVE  RotationEnds'
<1> USE ConnectionsAreNumbers
<1>1. SUFFICES ASSUME NEW p \in Connection, cred'.rotation[p].by # Nobody,
                      ~cred'.rotation[p].orphaned, Valid(cred', p)
               PROVE  ticket'[New(cred'.rotation[p].by)] # "none"
  BY DEF RotationEnds
<1>2. Turn(p)
  BY DEF WebMove, Turns
<1>3. CASE /\ Kept(cred, cred', p)
           /\ \A c \in Connection : Lost(c) /\ cred.restored[c].player = p => ~Undecided(cred', p, c)
 <2> DEFINE c == cred.rotation[p].by
 <2>1. cred'.rotation[p] = cred.rotation[p] /\ c # Nobody
   BY <1>1, <1>3 DEF Kept
 <2>2. c \in Connection /\ HasSession(cred, p) /\ cred.restored[c].player = p
   BY <2>1, OpenRotation DEF Core
 <2>3. Usable(cred', p) /\ Usable(cred, p)
   BY <1>1, <1>3, <2>2 DEF Kept, Usable
 <2>4. ticket[New(c)] # "none"
   BY <1>1, <2>1, <2>3 DEF RotatingInv, RotationEnds, Usable
 <2>5. Undecided(cred', p, c)
  <3>1. cred.rotation[p] \in [by : ConnectionOrNone, orphaned : BOOLEAN]
    BY CredentialTypes DEF Core
  <3>2. cred.rotation[p] = [by |-> c, orphaned |-> FALSE]
    BY <1>1, <2>1, <3>1
  <3> QED BY <2>1, <2>3, <3>2 DEF Undecided
 <2> QED BY <1>3, <2>1, <2>2, <2>4, <2>5 DEF Lost
<1>4. CASE Ended(cred, cred', p)
  BY <1>1, <1>4 DEF Ended, NoRotation
<1>5. ASSUME NEW t \in Token, SettledFor(cred, cred', p, t)
      PROVE  FALSE
  BY <1>1, <1>5 DEF SettledFor, NoRotation
<1>6. ASSUME NEW c \in closed', TakenBack(cred, cred', p, c)
      PROVE  FALSE
  BY <1>1, <1>6 DEF TakenBack, NoRotation
<1>7. ASSUME NEW c \in closed', LeftOpen(cred, cred', p, c)
      PROVE  FALSE
  BY <1>1, <1>7 DEF LeftOpen
<1>8. CASE Begun(p)
  BY <1>1, <1>8 DEF Begun, NoRotation
<1>9. ASSUME NEW c \in Connection, Reborn(p, c)
      PROVE  ticket'[New(cred'.rotation[p].by)] # "none"
  BY <1>9 DEF Reborn
<1> QED BY <1>2, <1>3, <1>4, <1>5, <1>6, <1>7, <1>8, <1>9 DEF Turn

LEMMA RotatingKept ==
  ASSUME Core, Core', StepFacts, RotatingInv, WebMove
  PROVE  RotatingInv'
BY TicketHasRotation, TicketsStayApart, RotationsStillEnd DEF RotatingInv

-----------------------------------------------------------------------------
(* Who is registered, who runs commands and who is drained.                *)

\* Whoever is in a window is there alone, and has come back.
LEMMA WindowFacts ==
  ASSUME Core, NEW c \in Connection, Window(c)
  PROVE  /\ \A d \in Connection : Window(d) => d = c
         /\ cred.restored[c].player \in Connection /\ cred.restored[c].player \in Admitted
         /\ cred.restored[c].player # c /\ cred.restored[c].player # Nobody
         /\ cred.restored[c].previous = seen[c] /\ seen[c] \in Token /\ Usable(cred, cred.restored[c].player)
         /\ Asker(c) /\ c \in Admitted
<1>1. cred.restored[c].player \in Connection /\ Usable(cred, cred.restored[c].player)
  BY DEF Core, WindowsAreOpen
<1>2. Asker(c)
  BY HandlingFacts DEF HandlingOf, Asker, Asks, Busy, Holding
<1> QED BY <1>1, <1>2, WindowHolds, PlayerOfRestored, ConnectionsAreNumbers

\* What a connection may have replaced it has only in its window.
LEMMA PreviousFacts ==
  ASSUME Core, NEW c \in Connection, previous[c] # Nobody
  PROVE  Window(c) /\ previous[c] \in Connection
<1>1. previous[c] \in ConnectionOrNone
  BY DEF Core, Shapes
<1> QED BY <1>1, HandlingFacts DEF HandlingOf, Window, ConnectionOrNone

LEMMA ClientFacts ==
  ASSUME Core, IdentInv, NEW p \in Connection, clients[p] # Nobody
  PROVE  clients[p] \in Connection /\ clients[p] \in Admitted /\ ident[clients[p]] = p
<1>1. clients[p] \in ConnectionOrNone
  BY DEF Core, Shapes
<1>2. clients[p] \in Connection /\ ident[clients[p]] = p
  BY <1>1 DEF IdentInv, ConnectionOrNone
<1> QED BY <1>2, ConnectionsAreNumbers DEF Admitted

\* What a rebinding of c to p is made of.
LEMMA RebindFacts ==
  ASSUME Core, NEW c \in Connection, Rebinds(c)
  PROVE  LET p == cred'.restored[c].player IN
         /\ p \in Connection /\ p \in Admitted /\ p # c /\ p # Nobody /\ Reborn(p, c) /\ NoWindow
         /\ ident[c] = c /\ c \in Admitted /\ Asker(c)
         /\ clients' = [clients EXCEPT ![c] = Nobody, ![p] = c]
         /\ ident' = [ident EXCEPT ![c] = p]
         /\ previous' = [previous EXCEPT ![c] = clients[p]]
         /\ running' = running /\ p = TokenPlayer(cred, seen[c]) /\ seen[c] \in Token
<1> DEFINE p == cred'.restored[c].player
<1>1. p \in Admitted /\ Reborn(p, c)
  BY DEF Rebinds
<1>2. p \in Connection /\ p # Nobody
  BY <1>1, AdmittedAre, ConnectionsAreNumbers
<1>3. doing[c] = "restoring" /\ p = TokenPlayer(cred, seen[c]) /\ seen[c] \in Token /\ NoWindow
  BY <1>1 DEF Reborn, NoWindow
<1>4. p # c
  BY <1>3, TokenFacts DEF Core, SeenIsDrawn
<1>5. Asker(c)
  BY <1>3, HandlingFacts DEF HandlingOf, Asker, Asks, Busy, Holding
<1>6. ident[c] = c /\ c \in Admitted
  BY <1>3, <1>5, AskerFacts DEF NoWindow
<1> QED BY <1>1, <1>2, <1>3, <1>4, <1>5, <1>6 DEF Rebinds

LEMMA UndoFacts ==
  ASSUME Core, NEW c \in Connection, UndoesRebind(c)
  PROVE  LET p == cred.restored[c].player IN
         /\ p \in Connection /\ p \in Admitted /\ p # c /\ p # Nobody /\ Window(c)
         /\ ident[c] = p /\ c \in Admitted /\ Asker(c)
<1>1. Window(c) /\ doing[c] = "undoing"
  BY DEF UndoesRebind, Window
<1> QED BY <1>1, WindowFacts, HandlingFacts DEF HandlingOf

LEMMA IdentKept ==
  ASSUME Core, StepFacts, IdentInv, WebMove
  PROVE  IdentInv'
<1> USE ConnectionsAreNumbers
<1>0. /\ clients \in [Connection -> ConnectionOrNone] /\ ident \in [Connection -> ConnectionOrNone]
      /\ previous \in [Connection -> ConnectionOrNone]
  BY DEF Core, Shapes
<1>1. ASSUME NEW q \in Connection, clients'[q] # Nobody
      PROVE  ident'[clients'[q]] = q
 <2>1. CASE Bound
   BY <1>1, <2>1 DEF Bound, IdentInv
 <2>2. ASSUME NEW c \in Connection, Enrols(c)
       PROVE  ident'[clients'[q]] = q
  <3>1. ident[c] = Nobody
    BY <1>0, <2>2 DEF Enrols, Admitted
  <3>2. clients[q] # Nobody => clients[q] \in Connection /\ ident[clients[q]] = q
    BY <1>0 DEF IdentInv, ConnectionOrNone
  <3> QED BY <1>0, <1>1, <2>2, <3>1, <3>2 DEF Enrols
 <2>3. ASSUME NEW c \in Connection, Leaves(c)
       PROVE  ident'[clients'[q]] = q
  <3>1. clients'[q] = clients[q]
    BY <1>0, <1>1, <2>3 DEF Leaves
  <3> QED BY <1>1, <2>3, <3>1 DEF Leaves, IdentInv
 <2>4. ASSUME NEW c \in Connection, Rebinds(c)
       PROVE  ident'[clients'[q]] = q
  <3> DEFINE p == cred'.restored[c].player
  <3>1. /\ p \in Connection /\ p # c /\ ident[c] = c
        /\ clients' = [clients EXCEPT ![c] = Nobody, ![p] = c] /\ ident' = [ident EXCEPT ![c] = p]
    BY <2>4, RebindFacts
  <3> HIDE DEF p
  <3>2. clients[q] # Nobody => clients[q] \in Connection /\ ident[clients[q]] = q
    BY <1>0 DEF IdentInv, ConnectionOrNone
  <3> QED BY <1>0, <1>1, <3>1, <3>2
 <2>5. ASSUME NEW c \in Connection, UndoesRebind(c)
       PROVE  ident'[clients'[q]] = q
  <3> DEFINE p == cred.restored[c].player
  <3>1. /\ p \in Connection /\ p # c /\ ident[c] = p
        /\ clients' = [clients EXCEPT ![p] = previous[c], ![c] = c] /\ ident' = [ident EXCEPT ![c] = c]
    BY <2>5, UndoFacts DEF UndoesRebind
  <3>2. previous[c] # Nobody => previous[c] \in Connection /\ ident[previous[c]] = p /\ previous[c] # c
    BY <1>0 DEF IdentInv, ConnectionOrNone
  <3> HIDE DEF p
  <3>3. clients[q] # Nobody => clients[q] \in Connection /\ ident[clients[q]] = q
    BY <1>0 DEF IdentInv, ConnectionOrNone
  <3> QED BY <1>0, <1>1, <3>1, <3>2, <3>3
 <2> QED BY <2>1, <2>2, <2>3, <2>4, <2>5 DEF WebMove, RegisterMove
<1>2. ASSUME NEW d \in Connection, previous'[d] # Nobody
      PROVE  ident'[previous'[d]] = cred'.restored[d].player /\ previous'[d] # d
 <2>1. ASSUME previous'[d] = previous[d], \A x \in Connection : x # d => ident'[x] = ident[x] \/ ident[x] = Nobody
       PROVE  ident'[previous'[d]] = cred'.restored[d].player /\ previous'[d] # d
  <3>1. previous[d] \in Connection /\ Window(d)
    BY <1>2, <2>1, PreviousFacts
  <3>2. ident[previous[d]] = cred.restored[d].player /\ previous[d] # d
    BY <1>2, <2>1 DEF IdentInv
  <3>3. cred.restored[d].player # Nobody
    BY <3>1, WindowFacts
  <3>4. cred'.restored[d] = cred.restored[d]
    BY <3>3 DEF StepFacts, CredMove
  <3> QED BY <2>1, <3>1, <3>2, <3>3, <3>4
 <2>2. CASE Bound
   BY <1>2, <2>1, <2>2 DEF Bound
 <2>3. ASSUME NEW c \in Connection, Enrols(c)
       PROVE  ident'[previous'[d]] = cred'.restored[d].player /\ previous'[d] # d
  <3>1. ident[c] = Nobody
    BY <1>0, <2>3 DEF Enrols, Admitted
  <3> QED BY <1>0, <1>2, <2>1, <2>3, <3>1 DEF Enrols
 <2>4. ASSUME NEW c \in Connection, Leaves(c)
       PROVE  ident'[previous'[d]] = cred'.restored[d].player /\ previous'[d] # d
   BY <1>2, <2>1, <2>4 DEF Leaves
 <2>5. ASSUME NEW c \in Connection, Rebinds(c)
       PROVE  ident'[previous'[d]] = cred'.restored[d].player /\ previous'[d] # d
  <3> DEFINE p == cred'.restored[c].player
  <3>1. /\ p \in Connection /\ p # c /\ ident[c] = c /\ NoWindow
        /\ previous' = [previous EXCEPT ![c] = clients[p]] /\ ident' = [ident EXCEPT ![c] = p]
    BY <2>5, RebindFacts
  <3>2. clients[p] # Nobody => clients[p] \in Connection /\ ident[clients[p]] = p
    BY <1>0, <3>1 DEF IdentInv, ConnectionOrNone
  <3>3. CASE d = c
   <4>1. previous'[d] = clients[p]
     BY <1>0, <3>1, <3>3
   <4> QED BY <1>0, <1>2, <3>1, <3>2, <3>3, <4>1
  <3>4. CASE d # c
    BY <1>0, <1>2, <3>1, <3>4, PreviousFacts DEF NoWindow
  <3> QED BY <3>3, <3>4
 <2>6. ASSUME NEW c \in Connection, UndoesRebind(c)
       PROVE  ident'[previous'[d]] = cred'.restored[d].player /\ previous'[d] # d
  <3>1. Window(c) /\ previous' = [previous EXCEPT ![c] = Nobody]
    BY <2>6, UndoFacts DEF UndoesRebind
  <3>2. d # c /\ previous'[d] = previous[d]
    BY <1>0, <1>2, <3>1
  <3> QED BY <1>2, <3>1, <3>2, PreviousFacts, WindowFacts
 <2> QED BY <2>2, <2>3, <2>4, <2>5, <2>6 DEF WebMove, RegisterMove
<1> QED BY <1>1, <1>2 DEF IdentInv

-----------------------------------------------------------------------------
LEMMA NoTicketKept ==
  ASSUME Core, StepFacts, WebMove, NEW x \in Connection, x \in Admitted, ~Asker(x)
  PROVE  /\ x \in Admitted' /\ NotAsking(x)
         /\ ticket[Own(x)] = "none" => ticket'[Own(x)] = "none"
         /\ ticket[New(x)] = "none" => ticket'[New(x)] = "none"
<1>1. NotAsking(x)
  BY StillNotAsking
<1>2. x \in Admitted'
  BY DEF StepFacts, CredMove
<1>3. doing[x] # "upgraded" /\ doing[x] # "restoring"
  BY HandlingFacts DEF HandlingOf, Admitted, Asker, Asks, Busy, Holding
<1>4. /\ Own(x) \in Token /\ New(x) \in Token /\ Own(x)[1] = x /\ New(x)[1] = x
  BY TokenFacts
<1>5. ~TicketOpens(Own(x)) /\ ~TicketOpens(New(x))
  BY <1>3, <1>4 DEF TicketOpens
<1>6. \A t \in Token : ticket[t] = "none" => ticket'[t] = "none" \/ TicketOpens(t)
  BY DEF StepFacts, TicketMove, TicketCommits
<1> QED BY <1>1, <1>2, <1>4, <1>5, <1>6

LEMMA AuthorizedKept ==
  ASSUME Core, StepFacts, AskersInv, AuthorizedInv, WebMove
  PROVE  AuthorizedInv'
<1>1. SUFFICES ASSUME NEW c \in Connection, authorized'[c] # NoToken
               PROVE  c \in Admitted' /\ NoTicket(c)' /\ NotAsking(c)
  BY DEF AuthorizedInv, Asker, NotAsking
<1>2. CASE authorized[c] # NoToken
 <2>1. c \in Admitted /\ NoTicket(c) /\ ~Asker(c)
   BY <1>2 DEF AuthorizedInv
 <2> QED BY <2>1, NoTicketKept DEF NoTicket
<1>3. CASE Confirms(c)
 <2>1. PICK t \in {Own(c), New(c)} :
         /\ ticket[t] = "committed" /\ ticket'[t] = "none" /\ authorized'[c] = t
         /\ t = New(c) => cred.restored[c].player # Nobody
   BY <1>3 DEF Confirms
 <2>2. t \in Token /\ t[1] = c
   BY <2>1, TokenFacts
 <2>3. ~Asker(c) /\ c \in Admitted
   BY <2>1, <2>2, TicketFacts DEF AskersInv
 <2>4. CASE t = Own(c)
  <3>1. ticket[New(c)] = "none"
    BY <2>1, <2>4, TicketFacts DEF AskersInv
  <3> QED BY <2>1, <2>3, <2>4, <3>1, NoTicketKept DEF NoTicket
 <2>5. CASE t = New(c)
  <3>1. ticket[Own(c)] = "none"
    BY <1>3, <2>1, <2>5 DEF AskersInv, Confirms, NoWindow
  <3> QED BY <2>1, <2>3, <2>5, <3>1, NoTicketKept DEF NoTicket
 <2> QED BY <2>1, <2>4, <2>5
<1> QED BY <1>1, <1>2, <1>3 DEF WebMove, AuthorizedMove

\* Whom a restore replaces runs no command.
LEMMA ReplacedIsIdle ==
  ASSUME Core, RestoringInv, NEW c \in Connection, NEW p \in Connection, Reborn(p, c)
  PROVE  clients[p] \notin running
<1>1. /\ doing[c] = "restoring" /\ p = TokenPlayer(cred, seen[c])
      /\ cred.session[p].token = seen[c] \/ cred.rotation[p].orphaned
      /\ Usable(cred, p)
  BY DEF Reborn
<1>2. cred.rotation[p].by = Nobody => ~cred.rotation[p].orphaned
  BY DEF Core, Books, RotationsAreOpen, NoRotation
<1>3. \/ clients[p] \notin running \/ ~HasSession(cred, p)
      \/ cred.rotation[p].by = Nobody /\ (~Usable(cred, p) \/ cred.session[p].token # seen[c])
  BY <1>1 DEF RestoringInv
<1> QED BY <1>1, <1>2, <1>3 DEF Usable

LEMMA RunningKept ==
  ASSUME Core, StepFacts, AskersInv, AuthorizedInv, RunningInv, IdentInv, WindowInv, RestoringInv, WebMove
  PROVE  RunningInv'
<1> USE ConnectionsAreNumbers
<1>0. /\ clients \in [Connection -> ConnectionOrNone] /\ ident \in [Connection -> ConnectionOrNone]
      /\ running \subseteq Connection /\ running' \subseteq Connection
  BY DEF Core, StepFacts, Shapes
<1>1. SUFFICES ASSUME NEW c \in Connection, c \in running'
               PROVE  c \in Admitted' /\ Registered(c)' /\ NoTicket(c)' /\ NotAsking(c)
  BY <1>0 DEF RunningInv, Asker, NotAsking
<1>2. CASE c \in running
 <2>1. c \in Admitted /\ Registered(c) /\ NoTicket(c) /\ ~Asker(c)
   BY <1>2 DEF RunningInv
 <2>2. c \in Admitted' /\ NoTicket(c)' /\ NotAsking(c)
   BY <2>1, NoTicketKept DEF NoTicket
 <2>3. clients[ident[c]] = c /\ ident[c] \in {c, cred.restored[c].player} /\ ident[c] # Nobody
   BY <2>1, HandlingFacts DEF HandlingOf, Registered, Admitted
 <2>4. ident[c] \in Connection /\ ident[c] \in Admitted
   BY <1>0, <2>1, <2>3, PlayerOfRestored
 <2>5. ASSUME Bound
       PROVE  clients'[ident'[c]] = c
   BY <2>3, <2>5 DEF Bound
 <2>6. ASSUME NEW e \in Connection, Enrols(e)
       PROVE  clients'[ident'[c]] = c
   BY <1>0, <2>1, <2>3, <2>4, <2>6 DEF Enrols
 <2>7. ASSUME NEW e \in Connection, Leaves(e)
       PROVE  clients'[ident'[c]] = c
   BY <1>0, <1>2, <2>3, <2>4, <2>7 DEF Leaves, Registered
 <2>8. \A e \in Connection : Asker(e) => e # c /\ ident[c] # e
   BY <2>1, <2>3 DEF AskersInv
 <2>9. ASSUME NEW e \in Connection, Rebinds(e)
       PROVE  clients'[ident'[c]] = c
  <3> DEFINE p == cred'.restored[e].player
  <3>1. /\ p \in Connection /\ p # e /\ Asker(e) /\ Reborn(p, e)
        /\ clients' = [clients EXCEPT ![e] = Nobody, ![p] = e] /\ ident' = [ident EXCEPT ![e] = p]
    BY <2>9, RebindFacts
  <3> HIDE DEF p
  <3>2. clients[p] # c
    BY <1>2, <3>1, ReplacedIsIdle
  <3> QED BY <1>0, <2>3, <2>4, <2>8, <3>1, <3>2
 <2>10. ASSUME NEW e \in Connection, UndoesRebind(e)
        PROVE  clients'[ident'[c]] = c
  <3> DEFINE p == cred.restored[e].player
  <3>1. /\ p \in Connection /\ p # e /\ Asker(e) /\ Window(e) /\ doing[e] # "undone"
        /\ clients' = [clients EXCEPT ![p] = previous[e], ![e] = e] /\ ident' = [ident EXCEPT ![e] = e]
    BY <2>10, UndoFacts DEF UndoesRebind
  <3>2. clients[p] = e
    BY <3>1 DEF WindowInv
  <3> HIDE DEF p
  <3> QED BY <1>0, <2>3, <2>4, <2>8, <3>1, <3>2
 <2>11. Registered(c)'
   BY <2>5, <2>6, <2>7, <2>9, <2>10 DEF WebMove, RegisterMove, Registered
 <2> QED BY <2>2, <2>11
<1>3. CASE Commands(c)
 <2>1. Registered(c) /\ authorized[c] # NoToken
   BY <1>3 DEF Commands, MayCommand
 <2>2. c \in Admitted /\ NoTicket(c) /\ ~Asker(c)
   BY <2>1 DEF AuthorizedInv
 <2>3. Registered(c)'
   BY <1>3, <2>1 DEF Commands, Registered
 <2> QED BY <2>2, <2>3, NoTicketKept DEF NoTicket
<1> QED BY <1>1, <1>2, <1>3 DEF WebMove, RunningMove

\* Whom a reconnect starts to drain has no ticket.
LEMMA DrainedHasNoTicket ==
  ASSUME Core, AskersInv, AuthorizedInv, IdentInv, RegisteredInv, NEW d \in Connection, Drains(d)
  PROVE  LET x == clients[PlayerOf(cred, seen[d])] IN
         x \in Connection /\ x \in Admitted /\ NoTicket(x) /\ ~Asker(x)
<1> USE ConnectionsAreNumbers
<1> DEFINE t == seen[d]  p == PlayerOf(cred, t)  x == clients[p]
<1>1. p # Nobody /\ x # Nobody /\ authorized[x] \in {NoToken, t} /\ NoWindow
  BY DEF Drains
<1>2. t \in TokenOrNone
  BY DEF Core, Shapes
<1>3. /\ t \in Token /\ p \in Connection /\ p \in Admitted /\ HasSession(cred, p)
      /\ cred.session[p].token = t /\ TokenPlayer(cred, t) = p /\ Drawn(cred, Admitted, t)
  BY <1>1, <1>2, PlayerFacts DEF Core
<1>4. x \in Connection /\ x \in Admitted /\ ident[x] = p
  BY <1>1, <1>3, ClientFacts
<1>5. t \in Shown /\ t # NoToken
  BY <1>3, ShownAre, TokenFacts
<1>6. ~Asker(p) /\ ticket[t] = "none"
  BY <1>3, <1>5 DEF AskersInv
<1>7. Has(x, t)
  BY <1>1, <1>3 DEF RegisteredInv, NoWindow
<1> HIDE DEF x, p, t
<1>8. ~Asker(x)
  BY <1>1, <1>4, <1>6, AskerFacts DEF NoWindow
<1>9. NoTicket(x)
 <2>1. CASE authorized[x] # NoToken
   BY <1>4, <2>1 DEF AuthorizedInv
 <2>2. CASE x \in closed
  <3>1. Own(x) \in Token /\ New(x) \in Token /\ Own(x)[1] = x /\ New(x)[1] = x
    BY <1>4, TokenFacts
  <3> QED BY <2>2, <3>1 DEF AskersInv, NoTicket
 <2>3. CASE t = Own(x)
  <3>1. p = x
    BY <1>3, <1>4, <2>3, TokenFacts DEF TokenPlayer
  <3>2. ticket[New(x)] = "none"
    BY <1>3, <1>4, <3>1, TicketFacts DEF AskersInv
  <3> QED BY <1>6, <2>3, <3>2 DEF NoTicket
 <2>4. CASE t = New(x)
  <3>1. cred.restored[x].player # Nobody
    BY <1>3, <1>4, <2>4, TokenFacts DEF Drawn
  <3>2. ticket[Own(x)] = "none"
    BY <1>1, <1>4, <3>1 DEF AskersInv, NoWindow
  <3> QED BY <1>6, <2>4, <3>2 DEF NoTicket
 <2> QED BY <1>7, <2>1, <2>2, <2>3, <2>4 DEF Has
<1> QED BY <1>4, <1>8, <1>9 DEF x, p, t

LEMMA MovingKept ==
  ASSUME Core, StepFacts, AskersInv, AuthorizedInv, IdentInv, RegisteredInv, MovingInv, WebMove
  PROVE  MovingInv'
<1> USE ConnectionsAreNumbers
<1>0. moving \in [Connection -> ConnectionOrNone] /\ running' \subseteq Connection
  BY DEF Core, StepFacts, Shapes
<1>1. ASSUME NEW d \in Connection, NEW x \in Connection, moving'[d] = x
      PROVE  /\ x \in Admitted' /\ NoTicket(x)' /\ NotAsking(x)
             /\ doing'[d] # "draining" => x \notin running'
 <2>1. x \in Admitted /\ NoTicket(x) /\ ~Asker(x)
  <3>1. CASE moving[d] = x
    BY <3>1 DEF MovingInv
  <3>2. CASE Drains(d)
   <4>1. x = clients[PlayerOf(cred, seen[d])]
     BY <1>1, <3>2 DEF Drains
   <4> QED BY <3>2, <4>1, DrainedHasNoTicket
  <3> QED BY <1>1, <3>1, <3>2 DEF WebMove, MovingMove
 <2>2. ASSUME doing'[d] # "draining", x \in running'
       PROVE  FALSE
  <3>1. moving[d] = x /\ (doing[d] # "draining" \/ (x \notin running /\ running' = running))
    BY <1>1, <2>2 DEF WebMove, MovingMove
  <3>2. x \notin running
    BY <3>1 DEF MovingInv
  <3>3. Commands(x)
    BY <2>2, <3>2 DEF WebMove, RunningMove
  <3> QED BY <3>1, <3>3 DEF Commands, MayCommand, Unwelcome, Drained
 <2> QED BY <2>1, <2>2, NoTicketKept DEF NoTicket
<1>2. moving' \in [Connection -> ConnectionOrNone]
  BY DEF StepFacts, Shapes
<1>3. SUFFICES ASSUME NEW d \in Connection, moving'[d] # Nobody
               PROVE  \E x \in Connection : x = moving'[d]
  BY <1>1 DEF MovingInv, NotAsking, Asker, NoTicket
<1> QED BY <1>2, <1>3 DEF ConnectionOrNone

-----------------------------------------------------------------------------
(* Rotations, windows and whose token the session has.                     *)

LEMMA RotationForm ==
  ASSUME Core, NEW p \in Connection
  PROVE  /\ cred.rotation[p] \in [by : ConnectionOrNone, orphaned : BOOLEAN]
         /\ cred.rotation[p].by = Nobody => cred.rotation[p] = NoRotation
         /\ cred.rotation[p].by # Nobody =>
              /\ cred.rotation[p].by \in Connection /\ p \in Admitted /\ HasSession(cred, p)
              /\ cred.restored[cred.rotation[p].by].player = p
              /\ cred.session[p].token = New(cred.rotation[p].by)
<1>1. cred.rotation[p] \in [by : ConnectionOrNone, orphaned : BOOLEAN]
  BY CredentialTypes DEF Core
<1>2. cred.rotation[p].by = Nobody => cred.rotation[p] = NoRotation
  BY DEF Core, Books, RotationsAreOpen
<1>3. cred.rotation[p].by # Nobody =>
              /\ cred.rotation[p].by \in Connection /\ p \in Admitted /\ HasSession(cred, p)
              /\ cred.restored[cred.rotation[p].by].player = p
              /\ cred.session[p].token = New(cred.rotation[p].by)
  BY OpenRotation DEF Core
<1> QED BY <1>1, <1>2, <1>3

\* What a step makes of the player that a handler is coming back as.
LEMMA WindowTurn ==
  ASSUME Core, StepFacts, AskersInv, WindowInv, WebMove, NEW c \in Connection, Window(c)
  PROVE  LET p == cred.restored[c].player IN
         /\ c \in closed' => cred'.rotation[p] = NoRotation /\ cred'.session[p].token = seen[c]
         /\ c \notin closed' => cred'.rotation[p] = [by |-> c, orphaned |-> FALSE] /\ ticket'[New(c)] = "issued"
<1> USE ConnectionsAreNumbers
<1> DEFINE p == cred.restored[c].player
<1>1. /\ p \in Connection /\ p \in Admitted /\ cred.restored[c].previous = seen[c]
  BY WindowFacts
<1>2. Usable(cred', p)
  BY DEF StepFacts, CredMove
<1>3. /\ c \in closed => cred.rotation[p] = NoRotation /\ cred.session[p].token = seen[c]
      /\ c \notin closed => cred.rotation[p] = [by |-> c, orphaned |-> FALSE] /\ ticket[New(c)] = "issued"
  BY DEF WindowInv
<1>4. Turn(p)
  BY <1>1 DEF WebMove, Turns
<1>5. closed' \subseteq Connection /\ closed \subseteq closed'
      /\ (c \in closed' /\ c \notin closed => ticket'[New(c)] = "none")
  BY DEF StepFacts, Shapes, WebMove, CloseMove
<1>6. ~Ended(cred, cred', p) /\ ~Begun(p) /\ ~(\E d \in Connection : Reborn(p, d))
  BY <1>1, <1>2 DEF Ended, Begun, Reborn, Usable
<1>7. ~(\E t \in Token : SettledFor(cred, cred', p, t) /\ ~(\E d \in Connection : Window(d)))
  OBVIOUS
<1>8. ticket'[New(c)] \in {ticket[New(c)], "none"} \/ ticket[New(c)] = "none"
 <2>1. New(c) \in Token /\ New(c)[1] = c
   BY TokenFacts
 <2>2. ~Asks(c, "commit")
   BY HandlingFacts DEF HandlingOf, Asks, Busy, Holding
 <2> QED BY <2>1, <2>2 DEF StepFacts, TicketMove, TicketCommits, TicketOpens
<1>9. CASE c \in closed
 <2>1. Kept(cred, cred', p)
  <3>1. cred.rotation[p].by = Nobody
    BY <1>3, <1>9 DEF NoRotation
  <3>2. \A d \in closed' : ~TakenBack(cred, cred', p, d) /\ ~LeftOpen(cred, cred', p, d)
    BY <1>5, <3>1 DEF TakenBack, LeftOpen
  <3> QED BY <1>4, <1>6, <1>7, <3>2 DEF Turn
 <2> QED BY <1>3, <1>5, <1>9, <2>1 DEF Kept
<1>10. CASE c \notin closed
 <2>1. cred.rotation[p] = [by |-> c, orphaned |-> FALSE] /\ ticket[New(c)] = "issued"
   BY <1>3, <1>10
 <2>2. ASSUME /\ Kept(cred, cred', p)
              /\ \A d \in Connection : Lost(d) /\ cred.restored[d].player = p => ~Undecided(cred', p, d)
       PROVE  /\ c \notin closed' /\ cred'.rotation[p] = [by |-> c, orphaned |-> FALSE]
              /\ ticket'[New(c)] = "issued"
  <3>1. cred'.rotation[p] = [by |-> c, orphaned |-> FALSE]
    BY <2>1, <2>2 DEF Kept
  <3>2. ~Lost(c)
    BY <1>2, <2>2, <3>1 DEF Undecided
  <3>3. ticket'[New(c)] # "none"
    BY <2>1, <3>2 DEF Lost
  <3> QED BY <1>5, <1>8, <1>10, <2>1, <3>1, <3>3
 <2>3. ASSUME NEW d \in closed', TakenBack(cred, cred', p, d)
       PROVE  c \in closed' /\ cred'.rotation[p] = NoRotation /\ cred'.session[p].token = seen[c]
  <3>1. d = c
    BY <2>1, <2>3 DEF TakenBack
  <3> QED BY <1>1, <2>3, <3>1 DEF TakenBack
 <2>4. ASSUME NEW d \in closed', ticket[New(d)] = "committed", LeftOpen(cred, cred', p, d)
       PROVE  FALSE
   BY <2>1, <2>4 DEF LeftOpen
 <2> HIDE DEF p
 <2>5. \/ c \notin closed' /\ cred'.rotation[p] = [by |-> c, orphaned |-> FALSE] /\ ticket'[New(c)] = "issued"
       \/ c \in closed' /\ cred'.rotation[p] = NoRotation /\ cred'.session[p].token = seen[c]
   BY <1>4, <1>6, <1>7, <2>2, <2>3, <2>4 DEF Turn
 <2> QED BY <2>5 DEF p
<1> QED BY <1>9, <1>10

\* What a step makes of the registration of a player.
LEMMA ClientsMove ==
  ASSUME Core, WebMove, NEW p \in Connection
  PROVE  \/ clients'[p] = clients[p]
         \/ clients'[p] = Nobody
         \/ Enrols(p) /\ clients'[p] = p
         \/ \E c \in Connection : Rebinds(c) /\ cred'.restored[c].player = p /\ clients'[p] = c
         \/ \E c \in Connection : UndoesRebind(c) /\ cred.restored[c].player = p /\ clients'[p] = previous[c]
         \/ UndoesRebind(p) /\ clients'[p] = p
<1>0. clients \in [Connection -> ConnectionOrNone]
  BY DEF Core, Shapes
<1>1. CASE Bound
  BY <1>1 DEF Bound
<1>2. ASSUME NEW c \in Connection, Enrols(c)
      PROVE  clients'[p] = clients[p] \/ (Enrols(p) /\ clients'[p] = p)
 <2>1. clients' = [clients EXCEPT ![c] = c]
   BY <1>2 DEF Enrols
 <2>2. CASE p = c
   BY <1>0, <1>2, <2>1, <2>2
 <2>3. CASE p # c
   BY <1>0, <2>1, <2>3
 <2> QED BY <2>2, <2>3
<1>3. ASSUME NEW c \in Connection, Leaves(c)
      PROVE  clients'[p] = clients[p] \/ clients'[p] = Nobody
  BY <1>0, <1>3 DEF Leaves
<1>4. ASSUME NEW c \in Connection, Rebinds(c)
      PROVE  \/ clients'[p] = clients[p] \/ clients'[p] = Nobody
             \/ Rebinds(c) /\ cred'.restored[c].player = p /\ clients'[p] = c
 <2> DEFINE q == cred'.restored[c].player
 <2>1. q \in Connection /\ clients' = [clients EXCEPT ![c] = Nobody, ![q] = c]
   BY <1>4, RebindFacts
 <2> QED BY <1>0, <1>4, <2>1
<1>5. ASSUME NEW c \in Connection, UndoesRebind(c)
      PROVE  \/ clients'[p] = clients[p]
             \/ UndoesRebind(c) /\ cred.restored[c].player = p /\ clients'[p] = previous[c]
             \/ UndoesRebind(p) /\ clients'[p] = p
 <2> DEFINE q == cred.restored[c].player
 <2>1. q \in Connection /\ q # c /\ clients' = [clients EXCEPT ![q] = previous[c], ![c] = c]
   BY <1>5, UndoFacts DEF UndoesRebind
 <2> QED BY <1>0, <1>5, <2>1
<1> QED BY <1>1, <1>2, <1>3, <1>4, <1>5 DEF WebMove, RegisterMove

LEMMA RotationsKept ==
  ASSUME Core, StepFacts, AskersInv, AuthorizedInv, RunningInv, WindowInv, RotationsInv, WebMove
  PROVE  RotationsInv'
<1> USE ConnectionsAreNumbers
<1>1. SUFFICES ASSUME NEW p \in Connection, NEW c \in Connection, cred'.rotation[p].by = c
               PROVE  /\ c \notin running' /\ authorized'[c] = NoToken
                      /\ ~Window(c)' => clients'[p] \in {c, Nobody}
                      /\ cred'.rotation[p].orphaned => c \in closed'
  BY DEF RotationsInv
<1>2. Turn(p)
  BY DEF WebMove, Turns
<1>3. ~Confirms(c)
  BY <1>1 DEF Confirms
<1>4. closed' \subseteq Connection /\ closed \subseteq closed'
  BY DEF StepFacts, Shapes, WebMove, CloseMove
<1>8. /\ ~Ended(cred, cred', p) /\ ~Begun(p)
      /\ \A t \in Token : ~SettledFor(cred, cred', p, t)
      /\ \A d \in closed' : ~TakenBack(cred, cred', p, d)
  BY <1>1 DEF Ended, SettledFor, TakenBack, Begun, NoRotation
<1>5. CASE cred.rotation[p].by = c
 <2>1. c \notin running /\ authorized[c] = NoToken
   BY <1>5 DEF RotationsInv
 <2>2. c \notin running' /\ authorized'[c] = NoToken
   BY <1>3, <2>1 DEF WebMove, RunningMove, AuthorizedMove, Commands, MayCommand
 <2>3. p \in Admitted /\ HasSession(cred, p) /\ cred.restored[c].player = p
   BY <1>5, RotationForm
 <2>4. \A e \in Connection : ~(Rebinds(e) /\ cred'.restored[e].player = p) \/ Window(c)'
  <3>1. ASSUME NEW e \in Connection, Rebinds(e), cred'.restored[e].player = p
        PROVE  Window(c)'
   <4>1. Reborn(p, e)
     BY <3>1 DEF Rebinds
   <4> QED BY <1>1, <4>1 DEF Reborn
  <3> QED BY <3>1
 <2>5. ~Enrols(p)
   BY <2>3 DEF Enrols
 <2>6. ~UndoesRebind(p)
   BY <2>3, UndoFacts DEF AskersInv
 <2>7. ASSUME NEW e \in Connection, UndoesRebind(e), cred.restored[e].player = p
       PROVE  e = c /\ Window(c) /\ Window(c)'
  <3>1. Window(e)
    BY <2>7, UndoFacts
  <3>2. cred.rotation[p] = NoRotation \/ cred.rotation[p] = [by |-> e, orphaned |-> FALSE]
    BY <2>7, <3>1 DEF WindowInv
  <3>3. e = c
    BY <1>5, <3>2 DEF NoRotation
  <3> QED BY <2>7, <3>1, <3>3 DEF UndoesRebind, Window
 <2>8. ASSUME ~Window(c)'
       PROVE  clients'[p] \in {c, Nobody}
  <3>1. clients'[p] \in {clients[p], Nobody}
    BY <2>4, <2>5, <2>6, <2>7, <2>8, ClientsMove
  <3>2. CASE ~Window(c)
    BY <1>5, <3>1, <3>2 DEF RotationsInv
  <3>3. CASE Window(c) /\ doing[c] # "undone"
    BY <2>3, <3>1, <3>3 DEF WindowInv
  <3>4. CASE Window(c) /\ doing[c] = "undone"
   <4>1. c \in closed'
     BY <2>8, <3>4 DEF WebMove, WindowEnd
   <4>2. cred'.rotation[p] = NoRotation
     BY <2>3, <3>4, <4>1, WindowTurn
   <4> QED BY <1>1, <4>2 DEF NoRotation
  <3> QED BY <3>2, <3>3, <3>4
 <2>9. cred'.rotation[p].orphaned => c \in closed'
  <3>1. CASE Kept(cred, cred', p)
    BY <1>4, <1>5, <3>1 DEF Kept, RotationsInv
  <3>2. ASSUME NEW d \in closed', LeftOpen(cred, cred', p, d)
        PROVE  c \in closed'
    BY <1>5, <3>2 DEF LeftOpen
  <3>3. ASSUME NEW d \in Connection, Reborn(p, d)
        PROVE  ~cred'.rotation[p].orphaned
    BY <3>3 DEF Reborn
  <3> QED BY <1>2, <1>8, <3>1, <3>2, <3>3 DEF Turn
 <2> QED BY <2>2, <2>8, <2>9
<1>6. CASE Reborn(p, c)
 <2>1. doing[c] = "restoring" /\ Window(c)' /\ ~Window(c)
   BY <1>6 DEF Reborn
 <2>2. Asker(c)
   BY <2>1, HandlingFacts DEF HandlingOf, Asker, Asks, Busy, Holding
 <2>3. c \notin running /\ authorized[c] = NoToken
   BY <2>2 DEF RunningInv, AuthorizedInv
 <2>4. c \notin running' /\ authorized'[c] = NoToken
   BY <1>3, <2>3 DEF WebMove, RunningMove, AuthorizedMove, Commands, MayCommand
 <2> QED BY <1>6, <2>1, <2>4 DEF Reborn
<1>7. cred.rotation[p].by = c \/ Reborn(p, c)
 <2>1. ASSUME NEW d \in closed', LeftOpen(cred, cred', p, d)
       PROVE  cred.rotation[p].by = c
   BY <1>1, <2>1 DEF LeftOpen
 <2>2. ASSUME NEW d \in Connection, Reborn(p, d)
       PROVE  Reborn(p, c)
   BY <1>1, <2>2 DEF Reborn
 <2>3. Kept(cred, cred', p) => cred.rotation[p].by = c
   BY <1>1 DEF Kept
 <2> QED BY <1>2, <1>8, <2>1, <2>2, <2>3 DEF Turn
<1> QED BY <1>5, <1>6, <1>7

-----------------------------------------------------------------------------
LEMMA HasStays ==
  ASSUME WebMove, NEW x, NEW t, Has(x, t)
  PROVE  x \notin closed' => t \in {Own(x), New(x)}
BY DEF Has, WebMove, CloseMove

\* The connection that a restore replaces has the token that was brought.
LEMMA ReplacedHas ==
  ASSUME Core, RegisteredInv, RotationsInv, NEW p \in Connection, NEW c \in Connection, Reborn(p, c),
         clients[p] # Nobody
  PROVE  Has(clients[p], seen[c])
<1> USE ConnectionsAreNumbers
<1>1. /\ Usable(cred, p) /\ NoWindow
      /\ cred.session[p].token = seen[c] \/ cred.rotation[p].orphaned
  BY DEF Reborn, NoWindow
<1>2. CASE cred.session[p].token = seen[c]
  BY <1>1, <1>2 DEF RegisteredInv, Usable, NoWindow
<1>3. CASE cred.rotation[p].orphaned
 <2>1. cred.rotation[p].by \in Connection
   BY <1>3, RotationForm DEF NoRotation
 <2>2. clients[p] = cred.rotation[p].by /\ clients[p] \in closed
   BY <1>1, <1>3, <2>1 DEF RotationsInv, NoWindow
 <2> QED BY <2>2 DEF Has
<1> QED BY <1>1, <1>2, <1>3

\* In the window of c, whom c came back as is registered as who it was, or not.
LEMMA WindowClients ==
  ASSUME Core, WindowInv, AskersInv, WebMove, NEW c \in Connection, Window(c)
  PROVE  LET p == cred.restored[c].player IN
         \/ clients'[p] = clients[p]
         \/ clients'[p] = Nobody /\ doing[c] = "undone"
         \/ ~Window(c)' /\ clients'[p] = Nobody
         \/ UndoesRebind(c) /\ clients'[p] = previous[c]
<1> USE ConnectionsAreNumbers
<1> DEFINE p == cred.restored[c].player
<1>1. p \in Connection /\ p \in Admitted /\ ~HasSession(cred, c) /\ Usable(cred, p)
  BY WindowFacts DEF AskersInv
<1>2. ~Enrols(p)
  BY <1>1 DEF Enrols
<1>3. ~UndoesRebind(p)
  BY <1>1, UndoFacts DEF AskersInv, Usable
<1>4. \A e \in Connection : ~Rebinds(e)
  BY RebindFacts DEF NoWindow
<1>5. \A e \in Connection : UndoesRebind(e) => e = c
  BY UndoFacts, WindowFacts
<1> HIDE DEF p
<1>6. \/ clients'[p] = clients[p] \/ clients'[p] = Nobody
      \/ UndoesRebind(c) /\ clients'[p] = previous[c]
  BY <1>1, <1>2, <1>3, <1>4, <1>5, ClientsMove
<1>7. ASSUME clients'[p] = Nobody, clients'[p] # clients[p], doing[c] # "undone", Window(c)', ~UndoesRebind(c)
      PROVE  FALSE
 <2>1. clients[p] = c
   BY <1>7 DEF WindowInv, p
 <2>2. clients \in [Connection -> ConnectionOrNone]
   BY DEF Core, Shapes
 <2>3. ~Bound
   BY <1>7 DEF Bound
 <2>4. ASSUME NEW e \in Connection, Enrols(e)
       PROVE  FALSE
   BY <1>1, <1>7, <2>2, <2>4 DEF Enrols
 <2>5. ASSUME NEW e \in Connection, Leaves(e)
       PROVE  FALSE
  <3>1. ident[e] = p
    BY <1>1, <1>7, <2>2, <2>5 DEF Leaves
  <3>2. e = c
    BY <2>1, <2>5, <3>1 DEF Leaves, Registered
  <3> QED BY <2>5, <3>2 DEF Leaves, Window
 <2>6. PICK e \in Connection : Enrols(e) \/ Leaves(e) \/ Rebinds(e) \/ UndoesRebind(e)
   BY <2>3 DEF WebMove, RegisterMove
 <2>7. UndoesRebind(e)
   BY <1>4, <2>4, <2>5, <2>6
 <2>8. e = c
   BY <1>5, <2>7
 <2> QED BY <1>7, <2>7, <2>8
<1>8. ASSUME UndoesRebind(c)
      PROVE  clients'[p] = previous[c]
 <2>1. clients' = [clients EXCEPT ![p] = previous[c], ![c] = c] /\ p # c
   BY <1>8, WindowFacts DEF UndoesRebind, p
 <2>2. clients \in [Connection -> ConnectionOrNone]
   BY DEF Core, Shapes
 <2> QED BY <1>1, <2>1, <2>2
<1> QED BY <1>6, <1>7, <1>8 DEF p

LEMMA WindowKept ==
  ASSUME Core, StepFacts, AskersInv, WindowInv, RegisteredInv, RotationsInv, WebMove
  PROVE  WindowInv'
<1> USE ConnectionsAreNumbers
<1> DEFINE Wearing(c, p) ==
             /\ c \in closed' => cred'.rotation[p] = NoRotation /\ cred'.session[p].token = seen'[c]
             /\ c \notin closed' => /\ cred'.rotation[p] = [by |-> c, orphaned |-> FALSE]
                                    /\ ticket'[New(c)] = "issued"
             /\ previous'[c] # Nobody /\ previous'[c] \notin closed' => seen'[c] \in {Own(previous'[c]), New(previous'[c])}
             /\ doing'[c] = "undone" /\ clients'[p] # Nobody /\ clients'[p] \notin closed' =>
                  seen'[c] \in {Own(clients'[p]), New(clients'[p])}
             /\ doing'[c] # "undone" => clients'[p] = c
<1>0. previous \in [Connection -> ConnectionOrNone] /\ clients \in [Connection -> ConnectionOrNone]
  BY DEF Core, Shapes
<1>1. SUFFICES ASSUME NEW c \in Connection, Window(c)'
               PROVE  Wearing(c, cred'.restored[c].player)
  BY DEF WindowInv, Has
<1>2. CASE ~Window(c)
 <2> DEFINE p == cred'.restored[c].player
 <2>1. Rebinds(c) /\ Reborn(p, c)
   BY <1>1, <1>2, WindowOpens
 <2>2. /\ p \in Connection /\ p # c /\ previous' = [previous EXCEPT ![c] = clients[p]]
       /\ clients' = [clients EXCEPT ![c] = Nobody, ![p] = c] /\ doing'[c] = "delivering"
   BY <2>1, RebindFacts DEF Rebinds
 <2>3. seen'[c] = seen[c]
  <3>1. doing[c] = "restoring"
    BY <2>1 DEF Reborn
  <3> QED BY <3>1 DEF StepFacts, ShownMove
 <2> HIDE DEF p
 <2>4. /\ c \notin closed' /\ cred'.rotation[p] = [by |-> c, orphaned |-> FALSE] /\ ticket'[New(c)] = "issued"
   BY <2>1 DEF Reborn
 <2>5. previous'[c] = clients[p] /\ clients'[p] = c
   BY <1>0, <2>2
 <2>6. clients[p] # Nobody /\ clients[p] \notin closed' => seen[c] \in {Own(clients[p]), New(clients[p])}
   BY <2>1, <2>2, ReplacedHas, HasStays
 <2> QED BY <2>2, <2>3, <2>4, <2>5, <2>6 DEF p
<1>3. CASE Window(c)
 <2> DEFINE p == cred.restored[c].player
 <2>1. /\ p \in Connection /\ p # Nobody /\ p # c
   BY <1>3, WindowFacts
 <2>2. cred'.restored[c] = cred.restored[c]
   BY <2>1 DEF StepFacts, CredMove
 <2>3. seen'[c] = seen[c]
  <3>1. doing[c] # "unborn"
    BY <1>3 DEF Window
  <3> QED BY <3>1 DEF StepFacts, ShownMove
 <2>4. /\ c \in closed' => cred'.rotation[p] = NoRotation /\ cred'.session[p].token = seen[c]
       /\ c \notin closed' => cred'.rotation[p] = [by |-> c, orphaned |-> FALSE] /\ ticket'[New(c)] = "issued"
   BY <1>3, WindowTurn
 <2>5. previous'[c] \in {previous[c], Nobody}
  <3>1. \A e \in Connection : ~Rebinds(e)
    BY <1>3, RebindFacts DEF NoWindow
  <3>2. ASSUME NEW e \in Connection, UndoesRebind(e)
        PROVE  previous'[c] \in {previous[c], Nobody}
    BY <1>0, <3>2 DEF UndoesRebind
  <3> QED BY <3>1, <3>2 DEF WebMove, RegisterMove, Bound, Enrols, Leaves
 <2>6. /\ previous[c] # Nobody => Has(previous[c], seen[c])
       /\ doing[c] = "undone" /\ clients[p] # Nobody => Has(clients[p], seen[c])
       /\ doing[c] # "undone" => clients[p] = c
   BY <1>3 DEF WindowInv
 <2>7. \/ clients'[p] = clients[p]
       \/ clients'[p] = Nobody /\ doing[c] = "undone"
       \/ UndoesRebind(c) /\ clients'[p] = previous[c]
   BY <1>1, <1>3, WindowClients
 <2>8. /\ UndoesRebind(c) => doing[c] # "undone" /\ doing'[c] = "undone"
       /\ doing'[c] = "undone" => doing[c] = "undone" \/ UndoesRebind(c)
       /\ doing'[c] # "undone" => doing[c] # "undone"
  <3>1. ~Rebinds(c)
    BY <1>3, RebindFacts DEF NoWindow
  <3>2. doing'[c] \in {"delivering", "undoing", "undone"}
    BY <1>1 DEF Window
  <3>3. doing'[c] # "undone" => doing[c] # "undone"
    BY <3>1, <3>2 DEF WebMove, PhaseMove
  <3> QED BY <3>3 DEF WebMove, PhaseMove, UndoesRebind
 <2> HIDE DEF p
 <2>9. previous'[c] # Nobody /\ previous'[c] \notin closed' => seen[c] \in {Own(previous'[c]), New(previous'[c])}
   BY <2>5, <2>6, HasStays
 <2>10. doing'[c] = "undone" /\ clients'[p] # Nobody /\ clients'[p] \notin closed' =>
           seen[c] \in {Own(clients'[p]), New(clients'[p])}
  <3>1. SUFFICES ASSUME doing'[c] = "undone", clients'[p] # Nobody
                 PROVE  Has(clients'[p], seen[c])
    BY HasStays
  <3>2. CASE UndoesRebind(c)
   <4>1. clients' = [clients EXCEPT ![p] = previous[c], ![c] = c]
     BY <3>2 DEF UndoesRebind, p
   <4>2. clients'[p] = previous[c]
     BY <1>0, <2>1, <4>1
   <4> QED BY <2>6, <3>1, <4>2
  <3>3. CASE ~UndoesRebind(c)
    BY <2>7, <2>6, <2>8, <3>1, <3>3
  <3> QED BY <3>2, <3>3
 <2>11. doing'[c] # "undone" => clients'[p] = c
   BY <2>6, <2>7, <2>8
 <2> QED BY <2>2, <2>3, <2>4, <2>9, <2>10, <2>11 DEF p
<1> QED BY <1>2, <1>3

-----------------------------------------------------------------------------
\* A connection that was and stays registered has the token that the session
\* has now.
LEMMA StillHas ==
  ASSUME Core, StepFacts, IdentInv, RotationsInv, RegisteredInv, WebMove,
         NEW p \in Connection, HasSession(cred', p), clients[p] # Nobody,
         \A c \in Connection : Window(c) => cred.restored[c].player # p,
         \A c \in Connection : ~Reborn(p, c)
  PROVE  clients[p] \notin closed' => cred'.session[p].token \in {Own(clients[p]), New(clients[p])}
<1> USE ConnectionsAreNumbers
<1>1. Turn(p)
  BY DEF WebMove, Turns
<1>2. p \in Admitted
 <2>1. clients[p] \in Admitted /\ clients[p] \in Connection /\ ident[clients[p]] = p
   BY ClientFacts
 <2>2. p = clients[p] \/ p = cred.restored[clients[p]].player
   BY <2>1, HandlingFacts DEF HandlingOf, Admitted
 <2> QED BY <2>1, <2>2, PlayerOfRestored
<1>3. HasSession(cred, p) => Has(clients[p], cred.session[p].token)
  BY DEF RegisteredInv
<1>4. ASSUME NEW c \in Connection, cred.rotation[p].by = c
      PROVE  clients[p] = c
 <2>1. cred.restored[c].player = p
   BY <1>4, RotationForm
 <2> QED BY <1>4, <2>1 DEF RotationsInv
<1>5. closed' \subseteq Connection /\ closed \subseteq closed'
  BY DEF StepFacts, Shapes, WebMove, CloseMove
<1>6. CASE Kept(cred, cred', p)
  BY <1>3, <1>6, HasStays DEF Kept
<1>7. ASSUME NEW t \in Token, SettledFor(cred, cred', p, t)
      PROVE  clients[p] \notin closed' => cred'.session[p].token \in {Own(clients[p]), New(clients[p])}
 <2> DEFINE b == cred.rotation[p].by
 <2>1. b # Nobody /\ cred'.session[p].token = t /\ (t = New(b) \/ cred.rotation[p].orphaned)
   BY <1>7 DEF SettledFor
 <2>2. b \in Connection
   BY <2>1, RotationForm
 <2>3. clients[p] = b
   BY <1>4, <2>2
 <2>4. cred.rotation[p].orphaned => b \in closed
   BY <2>2 DEF RotationsInv
 <2> QED BY <1>5, <2>1, <2>3, <2>4
<1>8. ASSUME NEW d \in closed', TakenBack(cred, cred', p, d)
      PROVE  clients[p] \in closed'
 <2>1. d \in Connection /\ cred.rotation[p].by = d
   BY <1>5, <1>8 DEF TakenBack
 <2> QED BY <1>4, <1>8, <2>1
<1>9. ASSUME NEW d \in closed', LeftOpen(cred, cred', p, d)
      PROVE  clients[p] \in closed'
 <2>1. d \in Connection /\ cred.rotation[p].by = d
   BY <1>5, <1>9 DEF LeftOpen
 <2> QED BY <1>4, <1>9, <2>1
<1>10. ~Ended(cred, cred', p) /\ ~Begun(p)
  BY <1>2 DEF Ended, Begun
<1> QED BY <1>1, <1>6, <1>7, <1>8, <1>9, <1>10 DEF Turn

LEMMA RegisteredKept ==
  ASSUME Core, Core', StepFacts, AskersInv, AskersInv', IdentInv, WindowInv, RotationsInv, RegisteredInv, WebMove
  PROVE  RegisteredInv'
<1> USE ConnectionsAreNumbers
<1>1. SUFFICES ASSUME NEW p \in Connection, HasSession(cred', p), clients'[p] # Nobody,
                      \A c \in Connection : Window(c)' => cred'.restored[c].player # p
               PROVE  clients'[p] \notin closed' => cred'.session[p].token \in {Own(clients'[p]), New(clients'[p])}
  BY DEF RegisteredInv, Has
<1>2. \A c \in Connection : ~Reborn(p, c)
  BY <1>1 DEF Reborn
<1>3. \A c \in Connection : ~(Rebinds(c) /\ cred'.restored[c].player = p)
  BY <1>2 DEF Rebinds
<1>4. ASSUME NEW c \in Connection, Window(c), cred.restored[c].player = p
      PROVE  clients'[p] \notin closed' => cred'.session[p].token \in {Own(clients'[p]), New(clients'[p])}
 <2>1. cred'.restored[c].player = p
   BY <1>4, WindowFacts DEF StepFacts, CredMove
 <2>2. ~Window(c)'
   BY <1>1, <2>1
 <2>3. ~UndoesRebind(c)
   BY <2>2 DEF UndoesRebind, Window
 <2>4. clients'[p] = clients[p]
   BY <1>1, <1>4, <2>3, WindowClients
 <2>5. /\ c \in closed' => cred'.session[p].token = seen[c]
       /\ c \notin closed' => cred'.rotation[p] = [by |-> c, orphaned |-> FALSE]
   BY <1>4, WindowTurn
 <2>6. c \notin closed' => cred'.session[p].token = New(c)
   BY <2>5, OpenRotationBy DEF Core
 <2>7. CASE doing[c] = "undone"
  <3>1. c \in closed'
    BY <1>4, <2>2, <2>7 DEF WebMove, WindowEnd
  <3>2. Has(clients[p], seen[c])
    BY <1>1, <1>4, <2>4, <2>7 DEF WindowInv
  <3> QED BY <2>4, <2>5, <3>1, <3>2, HasStays
 <2>8. CASE doing[c] # "undone"
  <3>1. clients[p] = c
    BY <1>4, <2>8 DEF WindowInv
  <3> QED BY <2>4, <2>6, <3>1
 <2> QED BY <2>7, <2>8
<1>5. ASSUME \A c \in Connection : Window(c) => cred.restored[c].player # p
      PROVE  clients'[p] \notin closed' => cred'.session[p].token \in {Own(clients'[p]), New(clients'[p])}
 <2>1. CASE clients'[p] = clients[p]
   BY <1>1, <1>2, <1>5, <2>1, StillHas
 <2>2. CASE Enrols(p) /\ clients'[p] = p
  <3>1. p \notin Admitted
    BY <2>2 DEF Enrols
  <3>2. ~HasSession(cred, p)
    BY <3>1, TokenSessionFacts DEF Core, Books
  <3>3. Turn(p)
    BY DEF WebMove, Turns
  <3>4. Begun(p)
    BY <1>1, <3>2, <3>3 DEF Turn, Kept, Ended, SettledFor, TakenBack, LeftOpen, Reborn, Usable
  <3> QED BY <2>2, <3>4 DEF Begun
 <2>3. \A c \in Connection : ~(UndoesRebind(c) /\ cred.restored[c].player = p)
   BY <1>5, UndoFacts
 <2>4. ~UndoesRebind(p)
  <3>1. ASSUME UndoesRebind(p)
        PROVE  FALSE
   <4>1. cred.restored[p].player # Nobody
     BY <3>1, UndoFacts
   <4>2. cred'.restored[p].player # Nobody
     BY <4>1 DEF StepFacts, CredMove
   <4> QED BY <1>1, <4>2 DEF AskersInv
  <3> QED BY <3>1
 <2> QED BY <1>1, <1>3, <2>1, <2>2, <2>3, <2>4, ClientsMove
<1> QED BY <1>4, <1>5

\* The player that c's handler is about to come back as.
LEMMA RestoringPlayer ==
  ASSUME Core, NEW c \in Connection, seen[c] \in Token
  PROVE  TokenPlayer(cred, seen[c]) \in Connection /\ TokenPlayer(cred, seen[c]) \in Admitted
<1>1. Drawn(cred, Admitted, seen[c])
  BY TokenFacts DEF Core, SeenIsDrawn
<1> QED BY <1>1, NotDrawnYet, AdmittedAre

LEMMA RestoringStarts ==
  ASSUME Core, RotationsInv, NEW c \in Connection, Starts(c)
  PROVE  LET t == seen[c]  p == TokenPlayer(cred, t) IN
         \/ clients[p] \notin running \/ ~HasSession(cred, p)
         \/ cred.rotation[p].by = Nobody /\ (~Usable(cred, p) \/ cred.session[p].token # t)
<1> USE ConnectionsAreNumbers
<1> DEFINE t == seen[c]  p == TokenPlayer(cred, t)
<1>1. t \in Token /\ NoWindow
  BY AskerFacts DEF Starts
<1>2. p \in Connection
  BY <1>1, RestoringPlayer
<1>3. PlayerOf(cred, t) # Nobody => clients[PlayerOf(cred, t)] \notin running
  BY DEF Starts
<1>4. CASE PlayerOf(cred, t) # Nobody
 <2>1. PlayerOf(cred, t) = p
   BY <1>1, <1>4, PlayerFacts DEF Core, TokenOrNone
 <2> QED BY <1>3, <1>4, <2>1
<1>5. CASE PlayerOf(cred, t) = Nobody /\ HasSession(cred, p)
 <2>1. ASSUME cred.rotation[p].by # Nobody
       PROVE  clients[p] \notin running
  <3>1. cred.rotation[p].by \in Connection
    BY <1>2, <2>1, RotationForm
  <3>2. clients[p] \in {cred.rotation[p].by, Nobody} /\ cred.rotation[p].by \notin running
    BY <1>1, <1>2, <3>1 DEF RotationsInv, NoWindow
  <3>3. Nobody \notin running
    BY DEF Core, Shapes
  <3> QED BY <3>2, <3>3
 <2>2. ASSUME Usable(cred, p), cred.session[p].token = t
       PROVE  FALSE
  <3>1. cred.index[t] = p /\ Valid(cred, p)
    BY <1>2, <2>2, TokenSessionFacts DEF Core, Books, Usable
  <3>2. PlayerOf(cred, t) = p
    BY <1>1, <2>2, <3>1, TokenFacts DEF PlayerOf, HolderOf, Usable
  <3> QED BY <1>2, <1>5, <3>2
 <2> QED BY <2>1, <2>2
<1> QED BY <1>4, <1>5

LEMMA RestoringKept ==
  ASSUME Core, Core', StepFacts, RestoringInv, RotationsInv, WebMove
  PROVE  RestoringInv'
<1> USE ConnectionsAreNumbers
<1> DEFINE Spared(p, t) ==
             \/ clients'[p] \notin running' \/ ~HasSession(cred', p)
             \/ cred'.rotation[p].by = Nobody /\ (~Usable(cred', p) \/ cred'.session[p].token # t)
<1>1. SUFFICES ASSUME NEW c \in Connection, doing'[c] = "restoring"
               PROVE  Spared(TokenPlayer(cred', seen'[c]), seen'[c])
  BY DEF RestoringInv
<1>2. CASE doing[c] # "restoring"
 <2>1. Starts(c)
   BY <1>1, <1>2 DEF WebMove, MovingMove
 <2>2. UNCHANGED << cred, clients, running, seen >>
   BY <2>1 DEF Starts
 <2> QED BY <2>1, <2>2, RestoringStarts
<1>3. CASE doing[c] = "restoring"
 <2> DEFINE t == seen[c]  p == TokenPlayer(cred, t)
 <2>1. authority = c /\ NoWindow /\ t \in Token
  <3>1. Asker(c)
    BY <1>3, HandlingFacts DEF HandlingOf, Asker, Asks, Busy, Holding
  <3> QED BY <1>3, <3>1, AskerFacts, RestoringFacts DEF NoWindow
 <2>2. seen'[c] = t
   BY <1>3 DEF StepFacts, ShownMove
 <2>3. Drawn(cred, Admitted, t) /\ p \in Connection /\ p \in Admitted
   BY <2>1, RestoringPlayer, TokenFacts DEF Core, SeenIsDrawn
 <2>4. TokenPlayer(cred', t) = p
   BY <2>3, DrawnStays
 <2>5. \A e \in Connection : doing[e] = "restoring" => e = c
   BY <2>1, RestoringFacts
 <2>6. \A e \in Connection : ~Reborn(p, e) /\ ~Rebinds(e) /\ ~UndoesRebind(e)
  <3>1. ~Window(c)'
    BY <1>1 DEF Window
  <3>2. \A e \in Connection : ~Reborn(p, e)
    BY <2>5, <3>1 DEF Reborn
  <3>3. ASSUME NEW e \in Connection, Rebinds(e)
        PROVE  FALSE
   <4>1. Reborn(cred'.restored[e].player, e)
     BY <3>3 DEF Rebinds
   <4> QED BY <2>5, <3>1, <4>1 DEF Reborn
  <3> QED BY <2>1, <3>2, <3>3, UndoFacts DEF NoWindow
 <2>7. \/ clients[p] \notin running \/ ~HasSession(cred, p)
       \/ cred.rotation[p].by = Nobody /\ (~Usable(cred, p) \/ cred.session[p].token # t)
   BY <1>3 DEF RestoringInv
 <2>8. Turn(p)
   BY <2>3 DEF WebMove, Turns
 <2> HIDE DEF p, t
 <2>9. CASE clients[p] \notin running
  <3>1. running' \subseteq running /\ Nobody \notin running
   <4>1. \A x : ~Commands(x)
     BY <1>3, <2>1 DEF Commands, Free
   <4> QED BY <4>1 DEF WebMove, RunningMove, Core, Shapes
  <3>2. clients'[p] \in {clients[p], Nobody}
    BY <2>3, <2>6, ClientsMove DEF Enrols
  <3> QED BY <2>2, <2>4, <2>9, <3>1, <3>2 DEF p, t
 <2>10. CASE ~HasSession(cred, p)
  <3>1. ~HasSession(cred', p)
    BY <2>3, <2>6, <2>8, <2>10 DEF Turn, Kept, Ended, SettledFor, TakenBack, LeftOpen, Begun
  <3> QED BY <2>2, <2>4, <3>1 DEF p, t
 <2>11. CASE cred.rotation[p].by = Nobody /\ (~Usable(cred, p) \/ cred.session[p].token # t)
  <3>1. closed' \subseteq Connection
    BY DEF StepFacts, Shapes
  <3>2. \A d \in closed' : ~TakenBack(cred, cred', p, d) /\ ~LeftOpen(cred, cred', p, d)
    BY <2>11, <3>1 DEF TakenBack, LeftOpen
  <3>3. \A u \in Token : ~SettledFor(cred, cred', p, u)
    BY <2>11 DEF SettledFor
  <3>4. Kept(cred, cred', p) \/ Ended(cred, cred', p)
    BY <2>3, <2>6, <2>8, <3>2, <3>3 DEF Turn, Begun
  <3>5. ~HasSession(cred', p) \/ (cred'.rotation[p].by = Nobody /\ (~Usable(cred', p) \/ cred'.session[p].token # t))
    BY <2>11, <3>4 DEF Kept, Ended
  <3> QED BY <2>2, <2>4, <3>5 DEF p, t
 <2> QED BY <2>7, <2>9, <2>10, <2>11
<1> QED BY <1>2, <1>3

LEMMA DeepKept ==
  ASSUME Core, Core', StepFacts, Deep, WebMove
  PROVE  Deep'
<1>1. AskersInv'
  BY AskersKept DEF Deep
<1>2. RotatingInv' /\ IdentInv' /\ AuthorizedInv' /\ RunningInv'
  BY RotatingKept, IdentKept, AuthorizedKept, RunningKept DEF Deep
<1>3. MovingInv' /\ RotationsInv' /\ WindowInv'
  BY MovingKept, RotationsKept, WindowKept DEF Deep
<1>4. RegisteredInv' /\ RestoringInv'
  BY <1>1, RegisteredKept, RestoringKept DEF Deep
<1>5. DrainedInv'
  BY DEF Deep, DrainedInv, WebMove, DrainMove, StepFacts, CredMove
<1> QED BY <1>1, <1>2, <1>3, <1>4, <1>5 DEF Deep

-----------------------------------------------------------------------------
(* Every step of a browser's server is such a move.                        *)

LEMMA FreeHasNoWindow == ASSUME Core, Free PROVE NoWindow
BY WindowHolds DEF NoWindow, Free

\* What a step does to connections that it does not make or replace.
Calm ==
  /\ UNCHANGED << clients, ident, seen, previous, running >>
  /\ cred'.restored = cred.restored
LEMMA CalmMoves ==
  ASSUME Core, Calm
  PROVE  SeenMove /\ RestoredMove /\ RegisterMove /\ RunningMove
BY DEF Calm, SeenMove, RestoredMove, RegisterMove, Bound, RunningMove

\* The handling of c goes on, and ends no window of c's.
LEMMA HandlesOn ==
  ASSUME Core, NEW c \in Connection, \A d \in Connection : d # c => doing'[d] = doing[d] /\ moving'[d] = moving[d],
         ~Window(c), doing'[c] \notin {"delivering", "undoing", "undone", "restoring", "draining"},
         moving'[c] = Nobody, running' = running
  PROVE  WindowEnd /\ PhaseMove /\ MovingMove
<1>1. \A d \in Connection : (d # c /\ Window(d)) => Window(d)'
  BY DEF Window
<1>2. WindowEnd
  BY <1>1 DEF WindowEnd
<1>3. PhaseMove
  BY DEF PhaseMove
<1>4. MovingMove
  BY DEF MovingMove
<1> QED BY <1>2, <1>3, <1>4

LEMMA HandlesStill ==
  ASSUME Core, UNCHANGED << doing, moving >>
  PROVE  WindowEnd /\ PhaseMove /\ MovingMove
<1>1. WindowEnd
  BY DEF WindowEnd, Window
<1> QED BY <1>1 DEF PhaseMove, MovingMove

\* Nothing happens that counts.
LEMMA PaperMoves ==
  ASSUME Core, AskMove,
         UNCHANGED << cred, ticket, clients, ident, seen, closed, authorized, running, moving, previous, doing >>,
         \A d \in Connection : drains'[d].left \subseteq drains[d].left
  PROVE  WebMove
<1>1. Turns
  BY StillTurns DEF Lost
<1>2. SeenMove /\ RestoredMove /\ RegisterMove /\ RunningMove
  BY CalmMoves DEF Calm
<1>3. WindowEnd /\ PhaseMove /\ MovingMove
  BY HandlesStill
<1> QED BY <1>1, <1>2, <1>3 DEF WebMove, CloseMove, AuthorizedMove, DrainMove

\* c is closed, and whatever it has.
LEMMA CloseMade ==
  ASSUME Core, NEW c \in Connection, c \in Admitted, NEW cr, Closes({c}, cr)
  PROVE  CloseMove /\ AuthorizedMove
<1>1. CloseMove
 <2>1. \A t \in Token : t[1] = c => ticket'[t] = "none"
   BY DEF Closes, WithoutTicketsOf
 <2>2. Own(c) \in Token /\ New(c) \in Token /\ Own(c)[1] = c /\ New(c)[1] = c
   BY TokenFacts
 <2> QED BY <2>1, <2>2 DEF CloseMove, Closes
<1>2. AuthorizedMove
  BY DEF Closes, AuthorizedMove, WithoutAuthority
<1> QED BY <1>1, <1>2

LEMMA CloseAlone ==
  ASSUME Core, NEW c \in Connection, c \in Admitted, Closes({c}, cred), Calm, AskMove, WindowEnd, PhaseMove, MovingMove,
         \A d \in Connection : drains'[d].left \subseteq drains[d].left
  PROVE  WebMove
<1>1. Turns /\ CloseMove /\ AuthorizedMove
  BY CloseMade, CloseTurns
<1>2. SeenMove /\ RestoredMove /\ RegisterMove /\ RunningMove
  BY CalmMoves
<1> QED BY <1>1, <1>2 DEF WebMove, DrainMove

\* What c answers, and no more, does not make it ask.
LEMMA NobodyAsks ==
  ASSUME NEW c \in Connection, \A d \in Connection : d # c => request'[d] = request[d],
         request'[c].what \in {"ask", "asked"} => Asker(c) \/ c \notin Admitted
  PROVE  AskMove
BY DEF AskMove, Asker
LEMMA Answered ==
  ASSUME Core, NEW c \in Connection, NEW what, what \notin {"ask", "asked"} \/ Asker(c),
         Becomes(c, what) \/ \E cookie : Answers(c, what, cookie)
  PROVE  AskMove
<1>1. request'[c].what = what
  BY Says
<1>2. \A d \in Connection : d # c => request'[d] = request[d]
 <2>1. request \in [Connection -> [what : Requests, cookie : TokenOrNone, owner : ConnectionOrNone]]
   BY DEF Core, Shapes
 <2> QED BY <2>1 DEF Becomes, Answers
<1> QED BY <1>1, <1>2, NobodyAsks
LEMMA Unasked ==
  ASSUME UNCHANGED request
  PROVE  AskMove
BY DEF AskMove, Asker

\* Requests that are sent, served or lost without a trace in the server.
LEMMA PageMoves ==
  ASSUME Core, NEW c \in Connection,
         \/ PostCommit(c) \/ TakeCommit(c) \/ TakeReconnected(c) \/ TakeProvisional(c) \/ Lose(c)
         \/ PostRevoke(c) \/ RevokeReturns(c) \/ TakeRevoked(c)
  PROVE  WebMove
<1>1. AskMove
 <2>1. \A d \in Connection : d # c => request'[d] = request[d]
  <3>1. request \in [Connection -> [what : Requests, cookie : TokenOrNone, owner : ConnectionOrNone]]
    BY DEF Core, Shapes
  <3> QED BY <3>1 DEF PostCommit, TakeCommit, TakeReconnected, TakeProvisional, Lose, PostRevoke,
       RevokeReturns, TakeRevoked,
         Post, Becomes
 <2>2. request'[c].what \notin {"ask", "asked"}
  <3>1. request[c] \in [what : Requests, cookie : TokenOrNone, owner : ConnectionOrNone]
    BY DEF Core, Shapes
  <3>2. request \in [Connection -> [what : Requests, cookie : TokenOrNone, owner : ConnectionOrNone]]
    BY DEF Core, Shapes
  <3> QED BY <3>1, <3>2 DEF PostCommit, TakeCommit, TakeReconnected, TakeProvisional, Lose,
       PostRevoke, RevokeReturns, TakeRevoked,
         Post, Becomes, NoRequest
 <2> QED BY <2>1, <2>2, NobodyAsks
<1>2. /\ UNCHANGED << server, locks >> /\ drains' = drains
  BY DEF PostCommit, TakeCommit, TakeReconnected, TakeProvisional, Lose, PostRevoke, RevokeReturns,
     TakeRevoked, revokes
<1> QED BY <1>1, <1>2, PaperMoves DEF server, locks

LEMMA StillWebMoves ==
  ASSUME Core, NEW c \in Connection, DrainRetired(c) \/ NonceExpires(c) \/ DrainDone(c)
  PROVE  WebMove
<1>1. AskMove
  BY Unasked DEF DrainRetired, NonceExpires, DrainDone, device
<1>2. UNCHANGED << cred, ticket, clients, ident, seen, closed, authorized, running, moving, previous, doing >>
  BY DEF DrainRetired, NonceExpires, DrainDone, server, locks
<1>3. \A d \in Connection : drains'[d].left \subseteq drains[d].left
 <2>1. drains \in [Connection -> DrainRecord]
   BY DEF Core, Shapes
 <2>2. CASE drains' = drains
   BY <2>2
 <2>3. CASE drains' = [drains EXCEPT ![c] = NoDrain]
   BY <2>1, <2>3 DEF NoDrain
 <2> QED BY <2>2, <2>3 DEF DrainRetired, NonceExpires, DrainDone, revokes
<1> QED BY <1>1, <1>2, <1>3, PaperMoves

LEMMA StutterMoves ==
  ASSUME Core, UNCHANGED reconnectVars
  PROVE  WebMove
<1>1. AskMove
  BY Unasked DEF reconnectVars, device
<1> QED BY <1>1, PaperMoves DEF reconnectVars, server, locks, revokes

LEMMA EndCommandMoves ==
  ASSUME Core, NEW c \in Connection, EndCommand(c)
  PROVE  WebMove
<1>0. /\ UNCHANGED << cred, ticket, clients, ident, seen, closed, authorized, moving, previous, doing, request, drains >>
      /\ running' \subseteq running
  BY DEF EndCommand, server, device, revokes
<1>1. Turns
  BY <1>0, StillTurns DEF Lost
<1>2. SeenMove /\ RestoredMove /\ RegisterMove /\ RunningMove /\ AskMove
  BY <1>0, Unasked DEF SeenMove, RestoredMove, RegisterMove, Bound, RunningMove
<1>3. WindowEnd /\ PhaseMove /\ MovingMove
  BY <1>0, HandlesStill
<1> QED BY <1>0, <1>1, <1>2, <1>3 DEF WebMove, CloseMove, AuthorizedMove, DrainMove

\* Time passes, or a connection's player is marked offline.
LEMMA ClockMoves ==
  ASSUME Core, UNCHANGED << ticket, clients, ident, seen, closed, authorized, running, moving, previous, doing, request, drains >>,
         TimePasses
  PROVE  WebMove
<1>1. Turns
 <2>1. \A q \in Connection : Kept(cred, cred', q) \/ Ended(cred, cred', q)
  <3>1. ASSUME NEW p \in Connection, Lapse(p)
        PROVE  \A q \in Connection : Kept(cred, cred', q)
    BY <3>1, LapsedTurn DEF Core, Lapse
  <3>2. ASSUME NEW p \in Connection, Cleanup(p)
        PROVE  \A q \in Connection : Kept(cred, cred', q) \/ Ended(cred, cred', q)
    BY <3>2, ForgottenTurn, DeletedTurn DEF Core, Cleanup
  <3>3. ASSUME NEW t \in Token, AliasExpires(t)
        PROVE  \A q \in Connection : Kept(cred, cred', q)
    BY <3>3, AliasExpiredTurn DEF Core, AliasExpires
  <3> QED BY <3>1, <3>2, <3>3 DEF TimePasses
 <2> QED BY <2>1, QuietTurns DEF Lost
<1>2. CalmMove
  BY TimePassesMoves
<1>3. SeenMove /\ RestoredMove /\ RegisterMove /\ RunningMove /\ AskMove
  BY <1>2, CalmMoves, Unasked DEF Calm, CalmMove
<1>4. WindowEnd /\ PhaseMove /\ MovingMove
  BY HandlesStill
<1> QED BY <1>1, <1>3, <1>4 DEF WebMove, CloseMove, AuthorizedMove, DrainMove

-----------------------------------------------------------------------------
(* A token is presented, and a connection admitted.                        *)

\* Whose token is confirmed has no rotation any more.
LEMMA ConfirmedIsSettled ==
  ASSUME Core, AskersInv, NEW t \in Token, ticket[t] = "committed",
         CanReconnectToken(Resolved(cred, t), t), NEW p \in Connection
  PROVE  Resolved(cred, t).rotation[p].by # t[1]
<1> DEFINE now == Resolved(cred, t)
           c == t[1]
<1>1. now \in Credentials /\ Books(now, Admitted) /\ now.restored = cred.restored /\ c \in Connection
  BY ResolvedBooks, ResolvedShrinks, TokenFacts DEF Core, Shrinks, TokenOrNone
<1>2. now.index[t] # Nobody
  BY DEF CanReconnectToken, HasSession, HolderOf, NoToken, Token, Nobody
<1>3. \/ ~Settles(cred, t) /\ now = cred
      \/ \E q, by \in Connection, loser \in Token : SettledTo(cred, now, q, by, t, loser)
  BY ResolvedCases DEF Core, TokenOrNone
<1> HIDE DEF now
<1>4. SUFFICES ASSUME now.rotation[p].by = c
               PROVE  FALSE
  BY DEF now
<1>5. now.restored[c].player = p /\ now.rotation[p].by \in Connection
  BY <1>1, <1>4, OpenRotationBy
<1>6. t = New(c)
 <2>1. t = Own(c) \/ t = New(c)
   BY TokenFacts
 <2>2. t # Own(c)
   BY <1>1, <1>5, ConnectionsAreNumbers DEF AskersInv
 <2> QED BY <2>1, <2>2
<1>7. now.index[t] = p
 <2>1. now.index[t] = TokenPlayer(now, t)
   BY <1>1, <1>2 DEF Books, IndexIsRight
 <2> QED BY <2>1, <1>5, <1>6, TokenFacts DEF TokenPlayer
<1>8. CASE ~Settles(cred, t) /\ now = cred
  BY <1>4, <1>5, <1>6, <1>7, <1>8, TokenFacts, ConnectionsAreNumbers DEF Settles
<1>9. ASSUME NEW q \in Connection, NEW by \in Connection, NEW loser \in Token, SettledTo(cred, now, q, by, t, loser)
      PROVE  FALSE
 <2>1. cred.index[t] = q /\ now.rotation[q] = NoRotation /\ now.index[t] = cred.index[t]
   BY <1>9 DEF SettledTo
 <2> QED BY <2>1, <1>5, <1>7, <1>4, ConnectionsAreNumbers DEF NoRotation
<1> QED BY <1>3, <1>8, <1>9

LEMMA Presented ==
  ASSUME Core, AskersInv, NoWindow, NEW t \in Token, ticket[t] # "issued",
         cred' = Resolved(cred, t), Presents(t, cred'), closed' = closed
  PROVE  AuthorizedMove /\ Turns /\ ticket'[t] = "none"
<1> DEFINE c == t[1]
<1>0. /\ c \in Connection /\ t \in {Own(c), New(c)} /\ t \in TokenOrNone
      /\ ticket \in [Token -> {"none", "issued", "committed"}] /\ authorized \in [Connection -> TokenOrNone]
  BY TokenFacts DEF Core, Shapes, TokenOrNone
<1>1. /\ ticket'[t] = "none" /\ \A u \in Token : u # t => ticket'[u] = ticket[u]
  BY <1>0 DEF Presents
<1>2. Turns
 <2>1. \A d \in Connection : Lost(d) => New(d) = t
   BY <1>1, TokenFacts DEF Lost
 <2> QED BY <1>0, <1>1, <2>1, PresentTurns DEF NoWindow
<1>3. AuthorizedMove
 <2>1. CASE authorized' = authorized
   BY <2>1 DEF AuthorizedMove
 <2>2. CASE authorized' # authorized
  <3>1. /\ ticket[t] = "committed" /\ Confirmable(c, t, cred') /\ authorized' = [authorized EXCEPT ![c] = t]
    BY <2>2 DEF Presents
  <3>2. \A p \in Connection : cred'.rotation[p].by # c
    BY <3>1, ConfirmedIsSettled DEF Confirmable
  <3>3. t = New(c) => cred.restored[c].player # Nobody
    BY <1>0, <3>1, TicketFacts
  <3>4. authorized'[c] = t /\ \A d \in Connection : d # c => authorized'[d] = authorized[d]
    BY <1>0, <3>1
  <3>5. Confirms(c)
    BY <1>0, <1>1, <3>1, <3>2, <3>3, <3>4 DEF Confirms
  <3> QED BY <3>4, <3>5 DEF AuthorizedMove
 <2> QED BY <2>1, <2>2
<1> QED BY <1>1, <1>2, <1>3

LEMMA UpgradeWebMoves ==
  ASSUME Core, Deep, NEW c \in Connection, Upgrade(c)
  PROVE  WebMove
<1> DEFINE t == jar.cookie
<1>0. /\ t \in TokenOrNone /\ ident[c] = Nobody /\ doing[c] = "unborn" /\ NoWindow /\ AskersInv
      /\ doing \in [Connection -> Phases] /\ seen \in [Connection -> TokenOrNone]
      /\ cred' = Resolved(cred, t)
 <2>1. doing[c] = "unborn" /\ Free /\ cred' = Resolved(cred, t)
   BY DEF Upgrade, IsNext
 <2> QED BY <2>1, FreeHasNoWindow DEF Core, Shapes, Handling, HandlingOf, Deep
<1>1. /\ UNCHANGED << clients, ident, closed, running, moving, previous, request, drains >>
  BY DEF Upgrade, locks, revokes
<1>2. moving[c] = Nobody /\ ~Window(c)
  BY <1>0, FreshFacts DEF Window
<1>3. CalmMove
  BY UpgradeMoves
<1>4. RestoredMove /\ RegisterMove /\ RunningMove
  BY <1>1, <1>3 DEF CalmMove, RestoredMove, RegisterMove, Bound, RunningMove
<1>5. WindowEnd /\ PhaseMove /\ MovingMove
 <2>1. CASE doing' = doing
   BY <2>1, <1>1, HandlesStill
 <2>2. CASE doing' = [doing EXCEPT ![c] = "upgraded"]
  <3>1. doing'[c] = "upgraded" /\ \A d \in Connection : d # c => doing'[d] = doing[d]
    BY <1>0, <2>2
  <3> QED BY <1>1, <1>2, <3>1, HandlesOn
 <2> QED BY <2>1, <2>2 DEF Upgrade, Goes
<1>6. AskMove
  BY <1>1, Unasked
<1>7. Turns /\ AuthorizedMove /\ SeenMove
 <2>1. CASE t # NoToken /\ Observes(cred, t)
  <3>1. Presents(t, cred') /\ seen' = [seen EXCEPT ![c] = t]
    BY <2>1 DEF Upgrade
  <3>2. t \in Token /\ t \in Shown
    BY <1>0, <2>1, TokensOrNone DEF Shown
  <3>3. ticket[t] # "issued"
    BY <1>0, <2>1, <3>2 DEF AskersInv
  <3>4. AuthorizedMove /\ Turns /\ ticket'[t] = "none"
    BY <1>0, <1>1, <3>1, <3>2, <3>3, Presented
  <3>5. SeenMove
    BY <1>0, <3>1, <3>2, <3>4 DEF SeenMove
  <3> QED BY <3>4, <3>5
 <2>2. CASE ~(t # NoToken /\ Observes(cred, t))
  <3>1. UNCHANGED << ticket, authorized, seen >>
    BY <2>2 DEF Upgrade
  <3>2. t \in Token => PlayerOf(cred', t) = Nobody
    BY <1>0, <2>2, TokenFacts DEF Observes
  <3>3. Turns
    BY <1>0, <3>1, <3>2, PresentTurns DEF Lost, NoWindow
  <3> QED BY <3>1, <3>3 DEF AuthorizedMove, SeenMove
 <2> QED BY <2>1, <2>2
<1> QED BY <1>1, <1>4, <1>5, <1>6, <1>7 DEF WebMove, CloseMove, DrainMove

LEMMA ServeRefreshWebMoves ==
  ASSUME Core, Deep, NEW c \in Connection, ServeRefresh(c)
  PROVE  WebMove
<1> DEFINE t == request[c].cookie
<1>0. /\ t \in TokenOrNone /\ NoWindow /\ AskersInv /\ cred' = Resolved(cred, t)
 <2>1. Free /\ cred' = Resolved(cred, t)
   BY DEF ServeRefresh
 <2> QED BY <2>1, FreeHasNoWindow DEF Core, Shapes, Deep
<1>1. /\ UNCHANGED << clients, ident, closed, running, moving, previous, doing, seen, drains >>
  BY DEF ServeRefresh, locks, revokes
<1>3. CalmMove
  BY ServeRefreshMoves
<1>4. SeenMove /\ RestoredMove /\ RegisterMove /\ RunningMove
  BY <1>1, <1>3, CalmMoves DEF CalmMove, Calm
<1>5. WindowEnd /\ PhaseMove /\ MovingMove
  BY <1>1, HandlesStill
<1>6. AskMove
 <2>1. Becomes(c, "up") \/ Becomes(c, "failed")
   BY DEF ServeRefresh
 <2> QED BY <2>1, Answered
<1>7. Turns /\ AuthorizedMove
 <2>1. CASE t # NoToken /\ Observes(cred, t)
  <3>1. Presents(t, cred')
    BY <2>1 DEF ServeRefresh
  <3>2. t \in Token /\ t \in Shown
    BY <1>0, <2>1, TokensOrNone DEF Shown
  <3>3. ticket[t] # "issued"
    BY <1>0, <2>1, <3>2 DEF AskersInv
  <3> QED BY <1>0, <1>1, <3>1, <3>2, <3>3, Presented
 <2>2. CASE ~(t # NoToken /\ Observes(cred, t))
  <3>1. UNCHANGED << ticket, authorized >>
    BY <2>2 DEF ServeRefresh
  <3>2. t \in Token => PlayerOf(cred', t) = Nobody
    BY <1>0, <2>2, TokenFacts DEF Observes
  <3>3. Turns
    BY <1>0, <3>1, <3>2, PresentTurns DEF Lost, NoWindow
  <3> QED BY <3>1, <3>3 DEF AuthorizedMove
 <2> QED BY <2>1, <2>2
<1> QED BY <1>1, <1>4, <1>5, <1>6, <1>7 DEF WebMove, CloseMove, DrainMove

\* A session begins, after what a token has settled.
LEMMA AdmitTurns ==
  ASSUME Core, NEW c \in Connection, c \notin Admitted, NEW t \in TokenOrNone,
         NoWindow, t \in Token => t # Own(c) /\ ticket[t] = "none",
         cred' = Created(Resolved(cred, t), c),
         \A u \in Token : u # Own(c) => ticket'[u] = ticket[u]
  PROVE  Turns
<1> DEFINE now == Resolved(cred, t)
<1>1. now \in Credentials /\ Books(now, Admitted) /\ now.restored = cred.restored
  BY ResolvedBooks, ResolvedShrinks DEF Core, Shrinks
<1>2. \A q \in Connection :
        \/ Kept(cred, now, q)
        \/ SettledFor(cred, now, q, t) /\ t \in Token /\ cred.index[t] = q
  BY ResolvedTurn DEF Core
<1>3. cred' = Created(now, c)
  OBVIOUS
<1> HIDE DEF now
<1>4. /\ cred'.session = [now.session EXCEPT ![c] = [token |-> Own(c), online |-> TRUE, lapsed |-> FALSE]]
      /\ cred'.rotation = now.rotation
 <2>1. /\ Created(now, c).session = [now.session EXCEPT ![c] = [token |-> Own(c), online |-> TRUE, lapsed |-> FALSE]]
       /\ Created(now, c).rotation = now.rotation
   BY <1>1, CreatedIs
 <2> QED BY <2>1, <1>3
<1>4a. cred'.session[c] = [token |-> Own(c), online |-> TRUE, lapsed |-> FALSE]
       /\ \A q \in Connection : q # c => cred'.session[q] = now.session[q]
  BY <1>1, <1>4 DEF Credentials
<1>5. Begun(c)
 <2>1. now.rotation[c] = NoRotation
  <3>1. now.rotation[c].by = Nobody
    BY <1>1, OpenRotation
  <3> QED BY <1>1, <3>1 DEF Books, RotationsAreOpen
 <2>2. HasSession(cred', c)
   BY <1>4a, ConnectionsAreNumbers DEF HasSession, NoSession
 <2> QED BY <1>4, <1>4a, <2>1, <2>2 DEF Begun
<1>6. ASSUME NEW q \in Connection, q # c
      PROVE  Turn(q)
 <2>1. /\ HasSession(cred', q) <=> HasSession(now, q)
       /\ Usable(cred', q) <=> Usable(now, q)
       /\ cred'.session[q] = now.session[q] /\ cred'.rotation[q] = now.rotation[q]
   BY <1>4, <1>4a, <1>6 DEF HasSession, Usable, Valid
 <2>2. CASE Kept(cred, now, q)
  <3>1. Kept(cred, cred', q)
    BY <2>1, <2>2 DEF Kept
  <3>2. \A d \in Connection : ~Lost(d)
    BY TokenFacts DEF Lost
  <3> QED BY <3>1, <3>2 DEF Turn
 <2>3. CASE SettledFor(cred, now, q, t) /\ t \in Token
  <3>1. SettledFor(cred, cred', q, t)
    BY <2>1, <2>3 DEF SettledFor
  <3>2. ticket'[t] = "none"
    BY <2>3
  <3> QED BY <2>3, <3>1, <3>2 DEF Turn, NoWindow
 <2> QED BY <1>2, <2>2, <2>3
<1> QED BY <1>5, <1>6 DEF Turns, Turn

LEMMA ActivateBrowserWebMoves ==
  ASSUME Core, Deep, NEW c \in Connection, ActivateBrowser(c)
  PROVE  WebMove
<1> DEFINE t == seen[c]
<1>0. /\ t \in TokenOrNone /\ ident[c] = Nobody /\ c \notin Admitted /\ doing[c] = "upgraded" /\ NoWindow /\ AskersInv
      /\ doing \in [Connection -> Phases] /\ clients \in [Connection -> ConnectionOrNone]
      /\ ident \in [Connection -> ConnectionOrNone]
      /\ ticket \in [Token -> {"none", "issued", "committed"}]
      /\ request \in [Connection -> [what : Requests, cookie : TokenOrNone, owner : ConnectionOrNone]]
 <2>1. doing[c] = "upgraded" /\ Free
   BY DEF ActivateBrowser
 <2> QED BY <2>1, FreeHasNoWindow DEF Core, Shapes, Handling, HandlingOf, Deep, Admitted
<1>1. /\ UNCHANGED << closed, running, moving, previous, seen, drains >>
  BY DEF ActivateBrowser, locks, revokes
<1>2. moving[c] = Nobody /\ ~Window(c)
  BY <1>0, FreshFacts DEF Window
<1>3. CalmMove
  BY ActivateBrowserMoves
<1>4. SeenMove /\ RestoredMove /\ RunningMove /\ CloseMove /\ DrainMove
  BY <1>1, <1>3 DEF CalmMove, SeenMove, RestoredMove, RunningMove, CloseMove, DrainMove
<1>5. t \in Token => ticket[t] = "none" /\ t # Own(c)
 <2>1. t # NoToken => ticket[t] = "none"
   BY <1>0 DEF AskersInv
 <2>2. t # NoToken => t[1] # c
   BY DEF Core, SeenIsDrawn
 <2> QED BY <2>1, <2>2, TokenFacts
<1>6. WindowEnd /\ PhaseMove /\ MovingMove
 <2>1. PICK to \in {"idle", "gone"} : doing' = [doing EXCEPT ![c] = to]
   BY DEF ActivateBrowser, Goes, Admits
 <2>2. doing'[c] = to /\ \A d \in Connection : d # c => doing'[d] = doing[d]
   BY <1>0, <2>1
 <2> QED BY <1>1, <1>2, <2>2, HandlesOn
<1>7. CASE (IF t = NoToken THEN c \notin nonces ELSE ~Observes(cred, t))
 <2>1. cred' = Resolved(cred, t) /\ UNCHANGED << ticket, clients, ident, authorized, request >>
   BY <1>7 DEF ActivateBrowser
 <2>2. Turns
   BY <1>0, <1>5, <2>1, PresentTurns DEF Lost, NoWindow
 <2>3. AskMove /\ RegisterMove /\ AuthorizedMove
   BY <1>1, <2>1, Unasked DEF RegisterMove, Bound, AuthorizedMove
 <2> QED BY <1>4, <1>6, <2>2, <2>3 DEF WebMove
<1>8. CASE ~(IF t = NoToken THEN c \notin nonces ELSE ~Observes(cred, t))
 <2>1. /\ clients' = [clients EXCEPT ![c] = c] /\ ident' = [ident EXCEPT ![c] = c]
       /\ cred' = Created(Resolved(cred, t), c)
   BY <1>8 DEF ActivateBrowser, Admits
 <2>2. ~(t # NoToken /\ ticket[t] = "committed")
   BY <1>0, <1>5, TokensOrNone
 <2>3. ticket' = [ticket EXCEPT ![Own(c)] = "issued"] /\ authorized' = authorized
   BY <1>8, <2>2 DEF ActivateBrowser, Issued
 <2>4. \A u \in Token : u # Own(c) => ticket'[u] = ticket[u]
   BY <1>0, <2>3
 <2>5. Turns
   BY <1>0, <1>5, <2>1, <2>4, AdmitTurns
 <2>6. RegisterMove
   BY <1>0, <1>1, <2>1 DEF RegisterMove, Enrols
 <2>7. AskMove
  <3>1. PICK what : Becomes(c, what)
    BY <1>8 DEF ActivateBrowser
  <3>2. \A d \in Connection : d # c => request'[d] = request[d]
    BY <1>0, <3>1 DEF Becomes
  <3> QED BY <1>0, <3>2, NobodyAsks
 <2> QED BY <1>4, <1>6, <2>3, <2>5, <2>6, <2>7 DEF WebMove, AuthorizedMove
<1> QED BY <1>7, <1>8

LEMMA AbandonWebMoves ==
  ASSUME Core, NEW c \in Connection, Abandon(c)
  PROVE  WebMove
<1>0. /\ ident[c] = Nobody /\ doing[c] = "upgraded" /\ doing \in [Connection -> Phases]
  BY DEF Core, Shapes, Handling, HandlingOf, Abandon
<1>1. /\ UNCHANGED << cred, ticket, clients, ident, seen, closed, authorized, running, moving, previous, request, drains >>
  BY DEF Abandon, locks, device, revokes
<1>2. moving[c] = Nobody /\ ~Window(c)
  BY <1>0, FreshFacts DEF Window
<1>3. WindowEnd /\ PhaseMove /\ MovingMove
 <2>1. doing'[c] = "gone" /\ \A d \in Connection : d # c => doing'[d] = doing[d]
   BY <1>0 DEF Abandon, Goes
 <2> QED BY <1>1, <1>2, <2>1, HandlesOn
<1>4. Turns
  BY <1>1, StillTurns DEF Lost
<1>5. SeenMove /\ RestoredMove /\ RegisterMove /\ RunningMove /\ AskMove
  BY <1>1, CalmMoves, Unasked DEF Calm
<1> QED BY <1>1, <1>3, <1>4, <1>5 DEF WebMove, CloseMove, AuthorizedMove, DrainMove

LEMMA MarkOfflineWebMoves ==
  ASSUME Core, NEW c \in Connection, MarkOffline(c)
  PROVE  WebMove
<1>0. /\ ident[c] \in Connection /\ doing[c] = "leaving" /\ doing \in [Connection -> Phases]
      /\ moving[c] = Nobody /\ ~Window(c)
 <2>1. doing[c] = "leaving"
   BY DEF MarkOffline
 <2>2. HandlingOf(c)
   BY HandlingFacts
 <2> QED BY <2>1, <2>2 DEF Core, Shapes, HandlingOf, Busy, Holding, Window, ConnectionOrNone
<1>1. /\ UNCHANGED << ticket, clients, ident, seen, closed, authorized, running, moving, previous, request, drains >>
  BY DEF MarkOffline, locks, device, revokes
<1>3. WindowEnd /\ PhaseMove /\ MovingMove
 <2>1. doing'[c] = "gone" /\ \A d \in Connection : d # c => doing'[d] = doing[d]
   BY <1>0 DEF MarkOffline, Goes
 <2> QED BY <1>0, <1>1, <2>1, HandlesOn
<1>4. Turns
 <2>1. \A q \in Connection : Kept(cred, cred', q)
   BY <1>0, OfflineTurn, KeptItself DEF Core, MarkOffline
 <2> QED BY <1>1, <2>1, QuietTurns DEF Lost
<1>5. CalmMove
  BY MarkOfflineMoves
<1>6. SeenMove /\ RestoredMove /\ RegisterMove /\ RunningMove /\ AskMove
  BY <1>1, <1>5, CalmMoves, Unasked DEF Calm, CalmMove
<1> QED BY <1>1, <1>3, <1>4, <1>6 DEF WebMove, CloseMove, AuthorizedMove, DrainMove

-----------------------------------------------------------------------------
(* Connections end, commands run and commits are served.                   *)

LEMMA CloseEarlyWebMoves ==
  ASSUME Core, NEW c \in Connection, CloseEarly(c)
  PROVE  WebMove
<1>1. /\ UNCHANGED << clients, ident, doing, seen, running, moving, previous, request, drains >> /\ Closes({c}, cred)
  BY DEF CloseEarly, locks, device, revokes
<1>2. c \in Admitted
 <2>1. doing[c] \in {"idle", "delivering"}
   BY DEF CloseEarly
 <2>2. HandlingOf(c)
   BY HandlingFacts
 <2> QED BY <2>1, <2>2 DEF HandlingOf, Admitted
<1>3. CalmMove
  BY ClosingMoves
<1>4. WindowEnd /\ PhaseMove /\ MovingMove /\ AskMove
  BY <1>1, HandlesStill, Unasked
<1> QED BY <1>1, <1>2, <1>3, <1>4, CloseAlone DEF Calm, CalmMove

LEMMA DisconnectWebMoves ==
  ASSUME Core, NEW c \in Connection, Disconnect(c)
  PROVE  WebMove
<1>0. /\ doing[c] = "idle" /\ c \notin running /\ Closes({c}, cred)
      /\ UNCHANGED << ident, seen, running, moving, previous, drains >>
      /\ doing \in [Connection -> Phases]
  BY DEF Disconnect, locks, revokes, Core, Shapes
<1>1. c \in Admitted /\ moving[c] = Nobody /\ ~Window(c)
 <2>2. HandlingOf(c)
   BY HandlingFacts
 <2> QED BY <1>0, <2>2 DEF HandlingOf, Admitted, Busy, Holding, Window
<1>2. Turns /\ CloseMove /\ AuthorizedMove
  BY <1>0, <1>1, CloseMade, CloseTurns
<1>3. CalmMove
  BY ClosingMoves
<1>4. SeenMove /\ RestoredMove /\ RunningMove /\ DrainMove
  BY <1>0, <1>3 DEF SeenMove, RestoredMove, RunningMove, CalmMove, DrainMove
<1>5. RegisterMove
 <2>1. CASE Registered(c)
  <3>1. clients' = [clients EXCEPT ![ident[c]] = Nobody]
    BY <2>1 DEF Disconnect, Unregister
  <3> QED BY <1>0, <2>1, <3>1 DEF RegisterMove, Leaves
 <2>2. CASE ~Registered(c)
   BY <1>0, <2>2 DEF RegisterMove, Bound, Disconnect, Unregister
 <2> QED BY <2>1, <2>2
<1>6. AskMove
 <2>1. CASE request' = request
   BY <2>1, Unasked
 <2>2. CASE Becomes(c, "failed")
   BY <2>2, Answered
 <2> QED BY <2>1, <2>2 DEF Disconnect
<1>7. WindowEnd /\ PhaseMove /\ MovingMove
 <2>1. PICK to \in {"leaving", "gone"} : doing' = [doing EXCEPT ![c] = to]
   BY DEF Disconnect, Goes
 <2>2. doing'[c] = to /\ \A d \in Connection : d # c => doing'[d] = doing[d]
   BY <1>0, <2>1
 <2> QED BY <1>0, <1>1, <2>2, HandlesOn
<1> QED BY <1>2, <1>4, <1>5, <1>6, <1>7 DEF WebMove

LEMMA CommandWebMoves ==
  ASSUME Core, NEW c \in Connection, Command(c)
  PROVE  WebMove
<1>0. /\ doing[c] = "idle" /\ Free
      /\ UNCHANGED << clients, ident, doing, seen, moving, previous, request, drains >>
  BY DEF Command, device, revokes
<1>1. c \in Admitted
  BY <1>0, HandlingFacts DEF HandlingOf, Admitted
<1>2. WindowEnd /\ PhaseMove /\ MovingMove /\ AskMove
  BY <1>0, HandlesStill, Unasked
<1>3. CASE MayCommand(c)
 <2>1. running' = running \cup {c} /\ UNCHANGED << closed, authorized, ticket, nonces, cred >>
   BY <1>3 DEF Command
 <2>2. Commands(c)
   BY <1>0, <1>1, <1>3, <2>1, FreeHasNoWindow DEF Commands
 <2>3. RunningMove
   BY <2>1, <2>2 DEF RunningMove
 <2>4. Turns
   BY <2>1, StillTurns DEF Lost
 <2> QED BY <1>0, <1>2, <2>1, <2>3, <2>4
      DEF WebMove, SeenMove, RestoredMove, RegisterMove, Bound, CloseMove, AuthorizedMove, DrainMove
<1>4. CASE ~MayCommand(c)
 <2>1. Closes({c}, cred) /\ running' = running
   BY <1>4 DEF Command
 <2>2. CalmMove
   BY ClosingMoves
 <2> QED BY <1>0, <1>1, <1>2, <2>1, <2>2, CloseAlone DEF Calm, CalmMove
<1> QED BY <1>3, <1>4

LEMMA ServeCommitWebMoves ==
  ASSUME Core, NEW c \in Connection, ServeCommit(c)
  PROVE  WebMove
<1> DEFINE t == TicketOf(c)
<1>0. /\ UNCHANGED << clients, ident, doing, seen, running, moving, previous, drains >> /\ Commit(c, t)
      /\ ticket \in [Token -> {"none", "issued", "committed"}] /\ t \in Token /\ t[1] = c
 <2>1. t \in Token /\ t[1] = c
   BY TokenFacts DEF TicketOf
 <2> QED BY <2>1 DEF ServeCommit, locks, revokes, Core, Shapes
<1> HIDE DEF t
<1>1. WindowEnd /\ PhaseMove /\ MovingMove
  BY <1>0, HandlesStill
<1>2. AskMove
 <2>1. Becomes(c, "failed") \/ \E cookie : Answers(c, "committed", cookie)
   BY DEF ServeCommit
 <2> QED BY <2>1, Answered
<1>3. CalmMove
  BY ClosingMoves
<1>4. SeenMove /\ RestoredMove /\ RegisterMove /\ RunningMove /\ DrainMove
  BY <1>0, <1>3, CalmMoves DEF Calm, CalmMove, DrainMove
<1>5. CASE UNCHANGED << closed, authorized, ticket, nonces, cred >>
 <2>1. Turns
   BY <1>5, StillTurns DEF Lost
 <2> QED BY <1>1, <1>2, <1>4, <1>5, <2>1 DEF WebMove, CloseMove, AuthorizedMove
<1>6. CASE ticket[t] # "none" /\ Closes({c}, cred)
 <2>1. c \in Admitted
   BY <1>0, <1>6, TicketFacts
 <2>2. Turns /\ CloseMove /\ AuthorizedMove
   BY <1>6, <2>1, CloseMade, CloseTurns
 <2> QED BY <1>1, <1>2, <1>4, <2>2 DEF WebMove
<1>7. CASE ticket' = [ticket EXCEPT ![t] = "committed"] /\ UNCHANGED << closed, authorized, cred >>
 <2>1. \A d \in Connection : ~Lost(d)
   BY <1>0, <1>7, TokenFacts DEF Lost
 <2>2. Turns
   BY <1>7, <2>1, StillTurns
 <2> QED BY <1>1, <1>2, <1>4, <1>7, <2>2 DEF WebMove, CloseMove, AuthorizedMove
<1> QED BY <1>0, <1>5, <1>6, <1>7 DEF Commit

LEMMA DrainClientWebMoves ==
  ASSUME Core, Deep, NEW d \in Connection, NEW x \in Connection, DrainClient(d, x)
  PROVE  WebMove
<1>0. /\ x \in drains[d].left /\ Closes({x}, cred)
      /\ drains' = [drains EXCEPT ![d].left = @ \ {x}] /\ drains \in [Connection -> DrainRecord]
      /\ UNCHANGED << clients, ident, doing, seen, running, moving, previous, request >>
  BY DEF DrainClient, locks, device, Core, Shapes
<1>1. x \in Admitted
  BY <1>0 DEF Deep, DrainedInv
<1>2. WindowEnd /\ PhaseMove /\ MovingMove /\ AskMove
  BY <1>0, HandlesStill, Unasked
<1>3. CalmMove
  BY ClosingMoves
<1>4. \A e \in Connection : drains'[e].left \subseteq drains[e].left
  BY <1>0 DEF DrainRecord
<1> QED BY <1>0, <1>1, <1>2, <1>3, <1>4, CloseAlone DEF Calm, CalmMove

LEMMA TicketExpiresWebMoves ==
  ASSUME Core, NEW c \in Connection, TicketExpires(c)
  PROVE  WebMove
<1>0. /\ Closes({c}, cred) /\ UNCHANGED << clients, ident, doing, seen, running, moving, previous, request, drains >>
  BY DEF TicketExpires, locks, device, revokes
<1>1. c \in Admitted
  BY TicketFacts DEF TicketExpires
<1>2. WindowEnd /\ PhaseMove /\ MovingMove /\ AskMove
  BY <1>0, HandlesStill, Unasked
<1>3. CalmMove
  BY ClosingMoves
<1> QED BY <1>0, <1>1, <1>2, <1>3, CloseAlone DEF Calm, CalmMove

-----------------------------------------------------------------------------
(* The reconnect handler.                                                  *)

\* A reconnect that begins, or goes on, ends no window and has none.
LEMMA NoWindowEnds ==
  ASSUME NoWindow
  PROVE  WindowEnd
BY DEF NoWindow, WindowEnd

LEMMA AskReconnectWebMoves ==
  ASSUME Core, Web, NEW c \in Connection, AskReconnect(c)
  PROVE  WebMove
<1> DEFINE p == PlayerOf(cred, seen[c])
           current == IF p = Nobody THEN Nobody ELSE clients[p]
<1>0. /\ doing[c] = "idle" /\ Asks(c, "ask") /\ NoWindow
      /\ UNCHANGED << clients, ident, seen, running, previous, drains >>
      /\ doing \in [Connection -> Phases] /\ moving \in [Connection -> ConnectionOrNone]
  BY FreeHasNoWindow DEF AskReconnect, revokes, Core, Shapes
<1>1. c \in Admitted /\ moving[c] = Nobody /\ ~Window(c) /\ Asker(c)
 <2>2. HandlingOf(c)
   BY HandlingFacts
 <2> QED BY <1>0, <2>2 DEF HandlingOf, Admitted, Busy, Holding, Window, Asker, Asks
<1>2. CalmMove
  BY ClosingMoves
<1>3. Calm
  BY <1>0, <1>2 DEF Calm, CalmMove
<1>4. AskMove
 <2>1. PICK what : Becomes(c, what)
   BY DEF AskReconnect, Fails
 <2> QED BY <1>1, <2>1, Answered
<1>5. WindowEnd
  BY <1>0, NoWindowEnds
<1>6. CASE current = Nobody /\ Goes(c, "restoring") /\ UNCHANGED << cred, ticket, nonces, closed, authorized, moving >>
 <2>1. doing'[c] = "restoring" /\ \A d \in Connection : d # c => doing'[d] = doing[d]
   BY <1>0, <1>6 DEF Goes
 <2>2. PhaseMove
   BY <2>1 DEF PhaseMove
 <2>3. Starts(c)
  <3>1. running \subseteq Connection
    BY DEF Core, Shapes
  <3>2. p # Nobody => clients[p] \notin running
    BY <1>6, <3>1, ConnectionsAreNumbers
  <3> QED BY <1>0, <1>1, <1>6, <3>2 DEF Starts
 <2>4. MovingMove
   BY <1>1, <1>6, <2>1, <2>3 DEF MovingMove
 <2>5. Turns
   BY <1>6, StillTurns DEF Lost
 <2> QED BY <1>0, <1>3, <1>4, <1>5, <1>6, <2>2, <2>4, <2>5, CalmMoves DEF WebMove, CloseMove,
      AuthorizedMove, DrainMove
<1>7. CASE Fails(c, cred) /\ moving' = moving
 <2>1. Closes({c}, cred) /\ doing'[c] = "idle" /\ \A d \in Connection : d # c => doing'[d] = doing[d]
   BY <1>0, <1>7 DEF Fails, Goes
 <2>2. WindowEnd /\ PhaseMove /\ MovingMove
   BY <1>0, <1>1, <1>7, <2>1, HandlesOn
 <2> QED BY <1>0, <1>1, <1>3, <1>4, <2>1, <2>2, CloseAlone
<1>8. CASE /\ current # Nobody /\ authorized[current] \in {NoToken, seen[c]}
           /\ moving' = [moving EXCEPT ![c] = current] /\ Goes(c, "draining")
           /\ UNCHANGED << cred, ticket, nonces, closed, authorized >>
 <2>1. /\ doing'[c] = "draining" /\ \A d \in Connection : d # c => doing'[d] = doing[d] /\ moving'[d] = moving[d]
       /\ moving'[c] = current
   BY <1>0, <1>8 DEF Goes
 <2>2. PhaseMove
   BY <2>1 DEF PhaseMove
 <2>3. Drains(c)
  <3>1. p # Nobody /\ current = clients[p]
    BY <1>8
  <3> QED BY <1>0, <1>1, <1>8, <2>1, <3>1 DEF Drains
 <2>4. MovingMove
   BY <1>1, <1>8, <2>1, <2>3 DEF MovingMove
 <2>5. Turns
   BY <1>8, StillTurns DEF Lost
 <2> QED BY <1>0, <1>3, <1>4, <1>5, <1>8, <2>2, <2>4, <2>5, CalmMoves DEF WebMove, CloseMove,
      AuthorizedMove, DrainMove
<1> QED BY <1>6, <1>7, <1>8 DEF AskReconnect

LEMMA ReacquireWebMoves ==
  ASSUME Core, NEW c \in Connection, Reacquire(c)
  PROVE  WebMove
<1> DEFINE p == PlayerOf(cred, seen[c])
<1>0. /\ doing[c] = "draining" /\ moving[c] \notin running /\ NoWindow
      /\ UNCHANGED << clients, ident, seen, running, previous, drains >>
      /\ doing \in [Connection -> Phases] /\ moving \in [Connection -> ConnectionOrNone]
  BY FreeHasNoWindow DEF Reacquire, CommandsOver, revokes, Core, Shapes
<1>1. c \in Admitted /\ ~Window(c) /\ Asker(c)
 <2>2. HandlingOf(c)
   BY HandlingFacts
 <2> QED BY <1>0, <2>2 DEF HandlingOf, Admitted, Busy, Holding, Window, Asker, Asks
<1>2. CalmMove
  BY ClosingMoves
<1>3. Calm
  BY <1>0, <1>2 DEF Calm, CalmMove
<1>5. WindowEnd
  BY <1>0, NoWindowEnds
<1>6. CASE /\ clients[p] = moving[c] /\ Goes(c, "restoring")
           /\ UNCHANGED << cred, ticket, nonces, closed, authorized, request, moving >>
 <2>1. doing'[c] = "restoring" /\ \A d \in Connection : d # c => doing'[d] = doing[d]
   BY <1>0, <1>6 DEF Goes
 <2>2. PhaseMove
   BY <2>1 DEF PhaseMove
 <2>3. Starts(c)
   BY <1>0, <1>1, <1>6 DEF Starts
 <2>4. MovingMove
   BY <1>0, <1>6, <2>1, <2>3 DEF MovingMove
 <2>5. Turns /\ AskMove
   BY <1>6, StillTurns, Unasked DEF Lost
 <2> QED BY <1>0, <1>3, <1>5, <1>6, <2>2, <2>4, <2>5, CalmMoves DEF WebMove, CloseMove,
      AuthorizedMove, DrainMove
<1>7. CASE Fails(c, cred) /\ moving' = [moving EXCEPT ![c] = Nobody]
 <2>1. Closes({c}, cred) /\ doing'[c] = "idle" /\ \A d \in Connection : d # c => doing'[d] = doing[d] /\ moving'[d] = moving[d]
   BY <1>0, <1>7 DEF Fails, Goes
 <2>2. WindowEnd /\ PhaseMove /\ MovingMove
   BY <1>0, <1>1, <1>7, <2>1, HandlesOn
 <2>3. AskMove
   BY <1>7, Answered DEF Fails
 <2> QED BY <1>0, <1>1, <1>3, <2>1, <2>2, <2>3, CloseAlone
<1> QED BY <1>6, <1>7 DEF Reacquire

LEMMA UndoRebindWebMoves ==
  ASSUME Core, NEW c \in Connection, UndoRebind(c)
  PROVE  WebMove
<1>0. /\ doing[c] = "undoing" /\ doing' = [doing EXCEPT ![c] = "undone"]
      /\ UNCHANGED << cred, ticket, seen, closed, authorized, running, moving, request, drains >>
      /\ doing \in [Connection -> Phases]
  BY DEF UndoRebind, Goes, device, revokes, Core, Shapes
<1>1. doing'[c] = "undone" /\ \A d \in Connection : d # c => doing'[d] = doing[d]
  BY <1>0
<1>2. UndoesRebind(c)
 <2>1. LET p == cred.restored[c].player IN clients' = [clients EXCEPT ![p] = previous[c], ![c] = c]
   BY DEF UndoRebind
 <2>2. ident' = [ident EXCEPT ![c] = c] /\ previous' = [previous EXCEPT ![c] = Nobody]
   BY DEF UndoRebind
 <2> QED BY <1>0, <1>1, <2>1, <2>2 DEF UndoesRebind
<1>3. WindowEnd
  BY <1>1 DEF WindowEnd, Window
<1>4. PhaseMove /\ MovingMove
  BY <1>0, <1>1, <1>2 DEF PhaseMove, MovingMove
<1>5. Turns /\ AskMove
  BY <1>0, StillTurns, Unasked DEF Lost
<1> QED BY <1>0, <1>2, <1>3, <1>4, <1>5
     DEF WebMove, CloseMove, AuthorizedMove, DrainMove, SeenMove, RestoredMove, RunningMove, RegisterMove

LEMMA UndoRestoreWebMoves ==
  ASSUME Core, Web, NEW c \in Connection, UndoRestore(c)
  PROVE  WebMove
<1>0. /\ doing[c] = "undone" /\ Closes({c}, cred) /\ Becomes(c, "failed")
      /\ doing' = [doing EXCEPT ![c] = "idle"] /\ moving' = [moving EXCEPT ![c] = Nobody]
      /\ UNCHANGED << clients, ident, seen, running, previous, drains >>
      /\ doing \in [Connection -> Phases] /\ moving \in [Connection -> ConnectionOrNone]
  BY DEF UndoRestore, Fails, Releases, Goes, revokes, Core, Shapes
<1>1. c \in Admitted
  BY <1>0, HandlingFacts DEF HandlingOf, Admitted
<1>2. CalmMove
  BY UndoRestoreMoves
<1>3. Calm /\ AskMove
  BY <1>0, <1>2, Answered DEF Calm, CalmMove
<1>4. /\ doing'[c] = "idle" /\ moving'[c] = Nobody
      /\ \A d \in Connection : d # c => doing'[d] = doing[d] /\ moving'[d] = moving[d]
  BY <1>0
<1>5. WindowEnd
 <2>1. ticket'[Own(c)] = "none" /\ c \in closed'
   BY <1>0, TokenFacts DEF Closes, WithoutTicketsOf
 <2> QED BY <1>4, <2>1 DEF WindowEnd, Window
<1>6. PhaseMove /\ MovingMove
  BY <1>0, <1>4 DEF PhaseMove, MovingMove
<1> QED BY <1>0, <1>1, <1>3, <1>5, <1>6, CloseAlone

\* The answer is delivered, and whom c has replaced goes.
LEMMA DeliveredTurns ==
  ASSUME Core, NEW c \in Connection, Window(c), NEW p, p = cred.restored[c].player,
         NEW gone, gone = {previous[c]} \ {Nobody},
         cred' = AllInvalidated(WentOnline(cred, p), gone), closed' = closed \cup gone,
         ticket' = [WithoutTicketsOf(gone) EXCEPT ![Own(c)] = "none"]
  PROVE  /\ Turns /\ ticket'[Own(c)] = "none"
         /\ \A t \in Token : t[1] \in gone => ticket'[t] = "none"
<1>1. p \in Connection /\ HasSession(cred, p) /\ Valid(cred, p)
  BY WindowFacts DEF Usable
<1>2. /\ WentOnline(cred, p) \in Credentials /\ WentOnline(cred, p).restored = cred.restored
      /\ Books(WentOnline(cred, p), Admitted)
  BY <1>1, OnlineIs, OnlineBooks DEF Core, Books
<1>3. \A q \in Connection : Kept(cred, WentOnline(cred, p), q)
  BY <1>1, OnlineTurn DEF Core
<1>4. gone \in SUBSET Connection
  BY DEF Core, Shapes, ConnectionOrNone
<1>5. /\ ticket'[Own(c)] = "none"
      /\ \A t \in Token : t # Own(c) => ticket'[t] = (IF t[1] \in gone THEN "none" ELSE ticket[t])
  BY TokenFacts DEF WithoutTicketsOf
<1>6. \A t \in Token : ticket'[t] \in {"none", IF t[1] \in gone THEN "none" ELSE ticket[t]}
  BY <1>5
<1>7. \A t \in Token : t[2] = "new" /\ t[1] \notin gone => ticket'[t] = ticket[t]
  BY <1>5, TokenFacts
<1>8. Alone(gone)
  BY DEF Alone
<1>9. Turns
  BY <1>2, <1>3, <1>4, <1>6, <1>7, <1>8, ClosingTurn
<1> QED BY <1>5, <1>9

LEMMA DeliverWebMoves ==
  ASSUME Core, Web, Deep, NEW c \in Connection, Deliver(c)
  PROVE  WebMove
<1> DEFINE p == cred.restored[c].player
           gone == {previous[c]} \ {Nobody}
<1>0. /\ doing[c] = "delivering" /\ Window(c)
      /\ UNCHANGED << clients, ident, seen, running, drains >>
      /\ doing \in [Connection -> Phases] /\ moving \in [Connection -> ConnectionOrNone]
      /\ previous \in [Connection -> ConnectionOrNone]
  BY DEF Deliver, revokes, Core, Shapes, Window
<1>1. p \in Connection /\ HasSession(cred, p) /\ Valid(cred, p) /\ Asker(c)
  BY <1>0, WindowFacts DEF Usable
<1>2. CalmMove
  BY DeliverMoves
<1>3. SeenMove /\ RestoredMove /\ RunningMove /\ DrainMove
  BY <1>0, <1>2 DEF SeenMove, RestoredMove, RunningMove, CalmMove, DrainMove
<1>4. CASE /\ closed' = closed \cup gone /\ authorized' = WithoutAuthority(gone)
           /\ ticket' = [WithoutTicketsOf(gone) EXCEPT ![Own(c)] = "none"]
           /\ cred' = AllInvalidated(WentOnline(cred, p), gone)
           /\ previous' = [previous EXCEPT ![c] = Nobody] /\ Goes(c, "idle") /\ Releases(c)
           /\ Becomes(c, "ticket")
 <2>1. /\ Turns /\ ticket'[Own(c)] = "none"
       /\ \A t \in Token : t[1] \in gone => ticket'[t] = "none"
   BY <1>0, <1>4, DeliveredTurns
 <2>2. CloseMove
  <3>1. ASSUME NEW x \in gone
        PROVE  x \in Admitted /\ ticket'[Own(x)] = "none" /\ ticket'[New(x)] = "none"
   <4>1. x \in Connection /\ x = previous[c] /\ x # Nobody
     BY <1>0 DEF ConnectionOrNone
   <4>2. ident[x] = p /\ p # Nobody
     BY <4>1, <1>1, ConnectionsAreNumbers DEF Deep, IdentInv
   <4> QED BY <2>1, <4>1, <4>2, TokenFacts DEF Admitted
  <3> QED BY <1>4, <3>1 DEF CloseMove
 <2>3. /\ doing'[c] = "idle" /\ moving'[c] = Nobody
       /\ \A d \in Connection : d # c => doing'[d] = doing[d] /\ moving'[d] = moving[d]
   BY <1>0, <1>4 DEF Goes, Releases
 <2>4. WindowEnd
   BY <1>0, <2>1, <2>3 DEF WindowEnd, Window
 <2>5. PhaseMove /\ MovingMove
   BY <1>0, <2>3 DEF PhaseMove, MovingMove
 <2>6. AskMove
   BY <1>4, Answered
 <2>7. AuthorizedMove
   BY <1>4 DEF AuthorizedMove, WithoutAuthority
 <2>8. RegisterMove
   BY <1>0, <1>4 DEF RegisterMove, Bound
 <2> QED BY <1>3, <2>1, <2>2, <2>4, <2>5, <2>6, <2>7, <2>8 DEF WebMove
<1>5. CASE /\ cred' \in {WentOnline(cred, p), cred} /\ Goes(c, "undoing")
           /\ UNCHANGED << closed, authorized, ticket, previous, moving, request >>
 <2>1. doing'[c] = "undoing" /\ \A d \in Connection : d # c => doing'[d] = doing[d]
   BY <1>0, <1>5 DEF Goes
 <2>2. Turns
  <3>1. \A q \in Connection : Kept(cred, cred', q)
    BY <1>1, <1>5, OnlineTurn, KeptItself DEF Core
  <3> QED BY <1>5, <3>1, QuietTurns DEF Lost
 <2>3. WindowEnd
   BY <2>1 DEF WindowEnd, Window
 <2>4. PhaseMove /\ MovingMove
   BY <1>0, <1>5, <2>1 DEF PhaseMove, MovingMove
 <2>5. AskMove
   BY <1>5, Unasked
 <2> QED BY <1>0, <1>3, <1>5, <2>2, <2>3, <2>4, <2>5 DEF WebMove, CloseMove, AuthorizedMove,
      RegisterMove, Bound
<1> QED BY <1>4, <1>5 DEF Deliver

-----------------------------------------------------------------------------
(* A browser's player comes back.                                          *)

\* What a restore makes of the credentials, player by player.
ComesBack(now, p, c) ==
  LET t == seen[c] IN
  /\ p \in Connection /\ p \in Admitted /\ p # c /\ p = TokenPlayer(cred, t) /\ t \in Token
  /\ now \in Credentials /\ Books(now, Admitted)
  /\ now.restored[c].player = p /\ now.restored[c].previous = t
  /\ now.session[p].token = New(c) /\ HasSession(now, p)
  /\ now.rotation[p] = [by |-> c, orphaned |-> FALSE] /\ now.index[New(c)] = p
  /\ Usable(cred, p) /\ HasSession(cred, p)
  /\ \/ cred.rotation[p] = NoRotation /\ cred.session[p].token = t
     \/ /\ cred.rotation[p].by # Nobody /\ cred.rotation[p].orphaned
        /\ t = New(cred.rotation[p].by) \/ t = cred.restored[cred.rotation[p].by].previous
  /\ Ended(cred, now, c)
  /\ \A q \in Connection : q # p /\ q # c => Kept(cred, now, q)

LEMMA RestoredComesBack ==
  ASSUME Core, Web, NEW c \in Connection, doing[c] = "restoring", Restorable(cred, seen[c], Web)
  PROVE  ComesBack(Restored(cred, seen[c], c, Web), PlayerOf(Resolved(cred, seen[c]), seen[c]), c)
<1> DEFINE t == seen[c]
           settled == Resolved(cred, t)
           p == PlayerOf(settled, t)
           now == Restored(cred, t, c, Web)
<1>1. /\ Shrinks(cred, settled) /\ Books(settled, Admitted)
      /\ RestoredTo(settled, now, p, t, c, Web, Admitted) /\ Books(now, Admitted)
      /\ t \in TokenOrNone
  BY RestoringFacts
<1>2. \A q \in Connection :
        \/ Kept(cred, settled, q)
        \/ SettledFor(cred, settled, q, t) /\ t \in Token /\ cred.index[t] = q
  BY <1>1, ResolvedTurn DEF Core
<1>3. LET rotation == cred.rotation[HolderOf(cred, t)] IN rotation.by = Nobody \/ rotation.orphaned
  BY DEF Restorable
<1> HIDE DEF settled, p, now
<1>4. /\ settled \in Credentials /\ settled.restored = cred.restored
  BY <1>1 DEF Shrinks
<1>5. /\ now \in Credentials /\ p \in Connection /\ p \in Admitted /\ p # c /\ t \in Token
      /\ HasSession(settled, p) /\ Valid(settled, p) /\ settled.session[p].token = t
      /\ TokenPlayer(settled, t) = p /\ settled.rotation[p] = NoRotation /\ settled.index[t] = p
  BY <1>1 DEF RestoredTo
<1>6. /\ now.session[p].token = New(c) /\ HasSession(now, p)
      /\ now.rotation[p] = [by |-> c, orphaned |-> FALSE] /\ now.index[New(c)] = p
      /\ now.restored[c].player = p /\ now.restored[c].previous = t
      /\ ~HasSession(now, c) /\ now.rotation[c] = NoRotation
  BY <1>1 DEF RestoredTo
<1>7. \A q \in Connection : q # p /\ q # c =>
        /\ now.session[q] = settled.session[q] /\ now.rotation[q] = settled.rotation[q]
        /\ HasSession(now, q) <=> HasSession(settled, q)
        /\ Valid(now, q) <=> Valid(settled, q)
  BY <1>1 DEF RestoredTo
<1>8. TokenPlayer(cred, t) = p
  BY <1>4, <1>5 DEF TokenPlayer
<1>9. /\ Usable(cred, p) /\ HasSession(cred, p)
      /\ \/ cred.rotation[p] = NoRotation /\ cred.session[p].token = t
         \/ /\ cred.rotation[p].by # Nobody /\ cred.rotation[p].orphaned
            /\ t = New(cred.rotation[p].by) \/ t = cred.restored[cred.rotation[p].by].previous
 <2>1. CASE Kept(cred, settled, p)
   BY <1>5, <2>1 DEF Kept, Usable
 <2>2. CASE SettledFor(cred, settled, p, t) /\ cred.index[t] = p
  <3>1. Usable(cred, p) /\ HasSession(cred, p) /\ cred.rotation[p].by # Nobody
    BY <1>5, <2>2 DEF SettledFor, Usable
  <3>2. HolderOf(cred, t) = p
    BY <1>5, <2>2, TokenFacts DEF HolderOf
  <3>3. t = New(cred.rotation[p].by) \/ t = cred.restored[cred.rotation[p].by].previous
    BY <2>2 DEF SettledFor
  <3> QED BY <1>3, <3>1, <3>2, <3>3
 <2> QED BY <1>2, <1>5, <2>1, <2>2
<1>10. \A q \in Connection : q # p /\ q # c => Kept(cred, now, q)
 <2>1. SUFFICES ASSUME NEW q \in Connection, q # p, q # c
                PROVE  Kept(cred, now, q)
   OBVIOUS
 <2>2. cred.index[t] # q
  <3>1. cred.index[t] # Nobody => cred.index[t] = TokenPlayer(cred, t)
    BY <1>5 DEF Core, Books, IndexIsRight
  <3> QED BY <2>1, <3>1, <1>8, ConnectionsAreNumbers
 <2>3. Kept(cred, settled, q)
   BY <1>2, <2>2
 <2> QED BY <2>1, <2>3, <1>7 DEF Kept, Usable
<1>11. ComesBack(now, p, c)
  BY <1>1, <1>5, <1>6, <1>8, <1>9, <1>10 DEF ComesBack, Ended
<1> QED BY <1>11 DEF now, p, settled

\* A restore that stands.
LEMMA RestoreStands ==
  ASSUME Core, NEW c \in Connection, NEW p, doing[c] = "restoring", ComesBack(cred', p, c),
         c \notin closed, closed' = closed, NoWindow, cred.restored[c].player = Nobody,
         ticket[New(c)] = "none", ticket' = [ticket EXCEPT ![New(c)] = "issued"],
         doing'[c] = "delivering"
  PROVE  Reborn(p, c) /\ Turns
<1>0. ticket \in [Token -> {"none", "issued", "committed"}]
  BY DEF Core, Shapes
<1>1. ticket'[New(c)] = "issued" /\ \A t \in Token : t # New(c) => ticket'[t] = ticket[t]
  BY <1>0, TokenFacts
<1>2. Window(c)'
  BY DEF Window
<1>3. /\ cred.rotation[p].by = Nobody \/ cred.rotation[p].orphaned
      /\ cred.session[p].token = seen[c] \/ cred.rotation[p].orphaned
  BY DEF ComesBack, NoRotation
<1>4. Reborn(p, c)
  BY <1>1, <1>2, <1>3 DEF Reborn, ComesBack, NoWindow
<1>5. \A d \in Connection : ~Lost(d)
  BY <1>1, TokenFacts DEF Lost
<1>6. ASSUME NEW q \in Connection
      PROVE  Turn(q)
 <2>1. CASE q = p
   BY <2>1, <1>4 DEF Turn
 <2>2. CASE q = c /\ q # p
   BY <2>2 DEF Turn, ComesBack
 <2>3. CASE q # c /\ q # p
   BY <2>3, <1>5 DEF Turn, ComesBack
 <2> QED BY <2>1, <2>2, <2>3
<1> QED BY <1>4, <1>6 DEF Turns

\* A restore that is taken back at once.
LEMMA RestoreTakenBack ==
  ASSUME Core, NEW c \in Connection, NEW p, NEW now, ComesBack(now, p, c),
         cred' = RolledBack(now, c, TRUE), NoWindow,
         \A d \in Connection : ~Lost(d), ticket'[seen[c]] = "none"
  PROVE  Turns /\ ~HasSession(cred', c)
<1> DEFINE t == seen[c]
<1>1. /\ now \in Credentials /\ Books(now, Admitted) /\ p \in Connection /\ p # c
      /\ now.restored[c].player = p /\ now.restored[c].previous = t
      /\ now.session[p].token = New(c) /\ HasSession(now, p)
      /\ now.rotation[p] = [by |-> c, orphaned |-> FALSE] /\ now.index[New(c)] = p
  BY DEF ComesBack
<1>2. CanRollBack(now, c, TRUE)
  BY <1>1 DEF CanRollBack
<1>3. RolledBackTo(now, cred', c, TRUE)
  BY <1>1, <1>2, RolledBackCases
<1>4. /\ cred'.session[p].token = t /\ HasSession(cred', p) /\ cred'.rotation[p] = NoRotation
      /\ \A q \in Connection : q # p =>
           /\ cred'.session[q] = now.session[q] /\ cred'.rotation[q] = now.rotation[q]
           /\ HasSession(cred', q) <=> HasSession(now, q)
           /\ Valid(cred', q) <=> Valid(now, q)
  BY <1>1, <1>3 DEF RolledBackTo
<1>5. Turn(p)
 <2>1. CASE cred.rotation[p] = NoRotation /\ cred.session[p].token = t
  <3>1. Kept(cred, cred', p)
    BY <1>4, <2>1 DEF ComesBack, Kept
  <3> QED BY <3>1 DEF Turn
 <2>2. CASE /\ cred.rotation[p].by # Nobody /\ cred.rotation[p].orphaned
            /\ t = New(cred.rotation[p].by) \/ t = cred.restored[cred.rotation[p].by].previous
  <3>1. SettledFor(cred, cred', p, t)
    BY <1>4, <2>2 DEF ComesBack, SettledFor
  <3>2. t \in Token
    BY DEF ComesBack
  <3> QED BY <3>1, <3>2 DEF Turn, NoWindow
 <2> QED BY <2>1, <2>2 DEF ComesBack
<1>6. Ended(cred, cred', c)
  BY <1>1, <1>4 DEF ComesBack, Ended
<1>7. ASSUME NEW q \in Connection, q # p, q # c
      PROVE  Turn(q)
 <2>1. Kept(cred, now, q)
   BY <1>7 DEF ComesBack
 <2>2. Kept(cred, cred', q)
   BY <2>1, <1>4, <1>7 DEF Kept, Usable
 <2> QED BY <2>2 DEF Turn
<1>8. Turns
  BY <1>5, <1>6, <1>7 DEF Turns, Turn
<1> QED BY <1>6, <1>8 DEF Ended

LEMMA RestoreWebMoves ==
  ASSUME Core, Web, Deep, NEW c \in Connection, Restore(c)
  PROVE  WebMove
<1> DEFINE t == seen[c]
           p == PlayerOf(Resolved(cred, t), t)
           now == Restored(cred, t, c, Web)
<1>0. /\ doing[c] = "restoring"
      /\ UNCHANGED << seen, running, drains >>
      /\ doing \in [Connection -> Phases] /\ moving \in [Connection -> ConnectionOrNone]
      /\ ticket \in [Token -> {"none", "issued", "committed"}]
  BY DEF Restore, revokes, Core, Shapes
<1>1. /\ c \in Admitted /\ cred.restored[c].player = Nobody /\ NoWindow /\ ticket[New(c)] = "none"
      /\ ~Window(c)
  BY <1>0, RestoringFacts DEF NoWindow
<1>2. SeenMove /\ RunningMove /\ DrainMove /\ WindowEnd
  BY <1>0, <1>1, NoWindowEnds DEF SeenMove, RunningMove, DrainMove
<1>3. CASE Fails(c, cred) /\ Releases(c) /\ UNCHANGED << clients, ident, previous >>
 <2>1. Closes({c}, cred) /\ doing'[c] = "idle" /\ moving'[c] = Nobody
       /\ \A d \in Connection : d # c => doing'[d] = doing[d] /\ moving'[d] = moving[d]
   BY <1>0, <1>3 DEF Fails, Goes, Releases
 <2>2. WindowEnd /\ PhaseMove /\ MovingMove
   BY <1>0, <1>1, <2>1, HandlesOn
 <2>3. AskMove
   BY <1>3, Answered DEF Fails
 <2>4. CalmMove
   BY <1>3, <2>1, CloseMoves DEF Closes
 <2> QED BY <1>0, <1>1, <1>3, <2>1, <2>2, <2>3, <2>4, CloseAlone DEF Calm, CalmMove
<1>4. CASE /\ Restorable(cred, t, Web)
           /\ Fails(c, RolledBack(now, c, Web)) /\ Releases(c) /\ UNCHANGED << clients, ident, previous >>
 <2>0. ComesBack(now, p, c)
   BY <1>0, <1>4, RestoredComesBack
 <2>1. Closes({c}, RolledBack(now, c, Web)) /\ doing'[c] = "idle" /\ moving'[c] = Nobody
       /\ \A d \in Connection : d # c => doing'[d] = doing[d] /\ moving'[d] = moving[d]
   BY <1>0, <1>4 DEF Fails, Goes, Releases
 <2>2. PhaseMove /\ MovingMove
   BY <1>0, <1>1, <2>1, HandlesOn
 <2>3. AskMove
   BY <1>4, Answered DEF Fails
 <2>4. CloseMove /\ AuthorizedMove
   BY <1>1, <2>1, CloseMade
 <2>5. cred' = RolledBack(now, c, TRUE)
  <3>1. cred' = RolledBack(now, c, Web)
    BY <1>1, <2>1, NothingToInvalidate DEF Closes
  <3> QED BY <3>1
 <2>6. /\ \A d \in Connection : ~Lost(d)
       /\ ticket'[Own(c)] = "none" /\ ticket'[New(c)] = "none" /\ ticket'[t] = "none"
  <3>1. \A u \in Token : ticket'[u] = (IF u[1] = c THEN "none" ELSE ticket[u])
    BY <2>1 DEF Closes, WithoutTicketsOf
  <3>2. t \in Token
    BY <2>0 DEF ComesBack
  <3>3. ticket[t] = "none"
    BY <3>2, TokenFacts DEF Deep, AskersInv
  <3> QED BY <1>1, <3>1, <3>2, <3>3, TokenFacts DEF Lost
 <2>7. Turns /\ ~HasSession(cred', c)
  <3> HIDE DEF now, p
  <3> QED BY <1>1, <2>0, <2>5, <2>6, RestoreTakenBack
 <2>8. RestoredMove
  <3>1. /\ \A d \in Connection : d # c => cred'.restored[d] = cred.restored[d]
        /\ cred'.restored[c] = cred.restored[c] \/ cred'.restored[c].player = p
    BY RestoreRestores
  <3>2. p = TokenPlayer(cred, t) /\ t \in Token
    BY <2>0 DEF ComesBack
  <3>3. Window(c)' \/ (ticket'[Own(c)] = "none" /\ ticket'[New(c)] = "none")
    BY <2>6
  <3> HIDE DEF now, p
  <3> QED BY <1>0, <2>7, <3>1, <3>2, <3>3 DEF RestoredMove, NoTicket
 <2>9. RegisterMove
   BY <1>4 DEF RegisterMove, Bound
 <2> QED BY <1>2, <2>2, <2>3, <2>4, <2>7, <2>8, <2>9 DEF WebMove
<1>5. CASE /\ Restorable(cred, t, Web) /\ c \notin closed
           /\ cred' = now /\ Goes(c, "delivering") /\ ticket' = Issued(ticket, New(c))
           /\ previous' = [previous EXCEPT ![c] = clients[p]]
           /\ clients' = [clients EXCEPT ![c] = Nobody, ![p] = c]
           /\ ident' = [ident EXCEPT ![c] = p]
           /\ UNCHANGED << nonces, closed, authorized, request, authority, moving >>
 <2>0. ComesBack(cred', p, c)
   BY <1>0, <1>5, RestoredComesBack
 <2> HIDE DEF p, now
 <2>1. doing'[c] = "delivering" /\ \A d \in Connection : d # c => doing'[d] = doing[d]
   BY <1>0, <1>5 DEF Goes
 <2>2. Reborn(p, c) /\ Turns
   BY <1>0, <1>1, <1>5, <2>0, <2>1, RestoreStands DEF Issued
 <2>3. cred'.restored[c].player = p /\ p \in Admitted /\ p = TokenPlayer(cred, t) /\ t \in Token /\ ~HasSession(cred', c)
   BY <2>0 DEF ComesBack, Ended
 <2>4. Rebinds(c)
   BY <1>0, <1>5, <2>1, <2>2, <2>3 DEF Rebinds
 <2>5. RegisterMove
   BY <2>4 DEF RegisterMove
 <2>6. PhaseMove
   BY <2>1, <2>4 DEF PhaseMove
 <2>7. MovingMove
   BY <1>0, <1>5, <2>1 DEF MovingMove
 <2>8. AskMove
   BY <1>5, Unasked
 <2>9. RestoredMove
  <3>1. \A d \in Connection : d # c => cred'.restored[d] = cred.restored[d]
    BY RestoreRestores
  <3> QED BY <1>0, <2>1, <2>3, <3>1 DEF RestoredMove, Window
 <2> QED BY <1>2, <1>5, <2>2, <2>5, <2>6, <2>7, <2>8, <2>9 DEF WebMove, CloseMove, AuthorizedMove
<1> QED BY <1>3, <1>4, <1>5 DEF Restore

-----------------------------------------------------------------------------
(* A logout, and every step.                                               *)

\* The sessions that a logout ends, and no other.
LEMMA RevokedTurn ==
  ASSUME Core, NEW p \in ConnectionOrNone, NEW q \in ConnectionOrNone,
         NEW first, first = IF p = Nobody THEN cred ELSE Deleted(cred, p),
         NEW cr, cr = IF q = Nobody THEN first ELSE Deleted(first, q)
  PROVE  /\ cr \in Credentials /\ Books(cr, Admitted) /\ cr.restored = cred.restored
         /\ \A x \in Connection : Kept(cred, cr, x) \/ Ended(cred, cr, x)
<1>1. /\ first \in Credentials /\ Books(first, Admitted) /\ first.restored = cred.restored
      /\ \A x \in Connection : Kept(cred, first, x) \/ Ended(cred, first, x)
 <2>1. CASE p = Nobody
   BY <2>1, KeptItself DEF Core
 <2>2. CASE p \in Connection
  <3>1. first = Deleted(cred, p)
    BY <2>2, ConnectionsAreNumbers
  <3> QED BY <2>2, <3>1, DeletedShrinks, DeletedBooks, DeletedTurn DEF Core, Shrinks
 <2> QED BY <2>1, <2>2 DEF ConnectionOrNone
<1>2. CASE q = Nobody
  BY <1>1, <1>2
<1>3. CASE q \in Connection
 <2>1. cr = Deleted(first, q)
   BY <1>3, ConnectionsAreNumbers
 <2>2. cr \in Credentials /\ Books(cr, Admitted) /\ cr.restored = cred.restored
   BY <1>1, <1>3, <2>1, DeletedShrinks, DeletedBooks DEF Shrinks
 <2>3. \A x \in Connection : Kept(first, cr, x) \/ Ended(first, cr, x)
   BY <1>1, <1>3, <2>1, DeletedTurn
 <2>4. ASSUME NEW x \in Connection
       PROVE  Kept(cred, cr, x) \/ Ended(cred, cr, x)
   BY <1>1, <2>3, KeptTwice, EndedStaysEnded DEF Ended
 <2> QED BY <2>2, <2>4
<1> QED BY <1>2, <1>3 DEF ConnectionOrNone

\* The tickets that a logout takes are for one rotation at most.
LEMMA RevokedAlone ==
  ASSUME Core, NoWindow, AskersInv, OneRotationTicket, NEW k \in TokenOrNone, NEW tickets \in SUBSET Token,
         \A u \in tickets : ticket[u] # "none",
         \A u \in tickets : k \in {u, seen[u[1]]} \/ (u = Own(u[1]) /\ seen[u[1]] = NoToken),
         NEW gone, gone = {u[1] : u \in tickets}
  PROVE  Alone(gone)
<1>1. ASSUME NEW x \in gone, ticket[New(x)] # "none"
      PROVE  x \in Connection /\ cred.restored[x].player = TokenPlayer(cred, k)
 <2>1. PICK u \in tickets : x = u[1]
   OBVIOUS
 <2>2. x \in Connection /\ u \in {Own(x), New(x)} /\ ticket[u] # "none"
   BY <2>1, TokenFacts
 <2>3. cred.restored[x].player # Nobody
   BY <1>1, <2>2, TicketFacts
 <2>4. /\ cred.restored[x].previous = seen[x] /\ seen[x] \in Token
       /\ TokenPlayer(cred, seen[x]) = cred.restored[x].player
  <3>1. cred.restored[x].previous = seen[x] /\ seen[x] \in Token
    BY <2>2, <2>3, PlayerOfRestored
  <3>2. TokenPlayer(cred, cred.restored[x].previous) = cred.restored[x].player
    BY <2>2, <2>3, RestoreFacts DEF Core, Books
  <3> QED BY <3>1, <3>2
 <2>5. u = New(x)
   BY <2>2, <2>3 DEF AskersInv, NoWindow
 <2>6. k \in {New(x), seen[x]}
   BY <2>1, <2>4, <2>5, TokenFacts
 <2>7. TokenPlayer(cred, New(x)) = cred.restored[x].player
   BY <2>2, TokenFacts DEF TokenPlayer
 <2> QED BY <2>2, <2>4, <2>6, <2>7
<1>2. ASSUME NEW x \in gone, NEW y \in gone, ticket[New(x)] # "none", ticket[New(y)] # "none"
      PROVE  x = y
 <2>1. /\ x \in Connection /\ cred.restored[x].player = TokenPlayer(cred, k)
       /\ y \in Connection /\ cred.restored[y].player = TokenPlayer(cred, k)
   BY <1>1, <1>2
 <2> QED BY <1>2, <2>1 DEF OneRotationTicket
<1> QED BY <1>2 DEF Alone

\* Whom it drains has been admitted.
LEMMA RevokedDrains ==
  ASSUME Core, IdentInv, NEW c \in Connection, NEW ended \in SUBSET Connection, NEW credentials,
         NEW whom, whom = UNION {Concerned(x) : x \in ended}, RegisterDrain(c, ended, whom, credentials)
  PROVE  DrainMove
<1>0. drains \in [Connection -> DrainRecord]
  BY DEF Core, Shapes
<1>1. ASSUME NEW x \in ended, NEW y \in Concerned(x)
      PROVE  y \in Admitted
 <2>1. CASE y = clients[x] /\ y # Nobody
   BY <2>1, ClientFacts
 <2>2. CASE y \in retired /\ ident[y] = x
  <3>1. y \in Connection /\ x # Nobody
    BY <2>2, ConnectionsAreNumbers DEF Core, Shapes
  <3> QED BY <2>2, <3>1 DEF Admitted
 <2> QED BY <1>1, <2>1, <2>2 DEF Concerned
<1>2. whom \subseteq Admitted
  BY <1>1
<1>3. \A d \in Connection : drains'[d].left \subseteq drains[d].left \cup whom
 <2>1. CASE drains' = drains
   BY <2>1
 <2>2. ASSUME NEW uncovered, uncovered \subseteq whom, NEW unmapped, NEW work,
              drains' = [drains EXCEPT ![c] =
                [ clients |-> uncovered, left |-> uncovered, credentials |-> unmapped,
                  dependencies |-> work, open |-> TRUE ]]
       PROVE  \A d \in Connection : drains'[d].left \subseteq drains[d].left \cup whom
  <3>1. drains'[c].left = uncovered /\ \A d \in Connection : d # c => drains'[d] = drains[d]
    BY <1>0, <2>2
  <3> QED BY <2>2, <3>1
 <2> DEFINE work == WorkOn(credentials)
            uncovered == whom \ UNION { drains[d].clients : d \in work }
            unmapped == { t \in credentials : Draining(t) = {} }
 <2>3. \/ drains' = drains
       \/ drains' = [drains EXCEPT ![c] =
                [ clients |-> uncovered, left |-> uncovered, credentials |-> unmapped,
                  dependencies |-> work, open |-> TRUE ]]
   BY DEF RegisterDrain
 <2>4. uncovered \subseteq whom
   OBVIOUS
 <2> HIDE DEF work, uncovered, unmapped
 <2> QED BY <2>1, <2>2, <2>3, <2>4
<1> QED BY <1>2, <1>3 DEF DrainMove

LEMMA ServeRevokeWebMoves ==
  ASSUME Core, Deep, NEW c \in Connection, ServeRevoke(c)
  PROVE  WebMove
<1>0. /\ NoWindow /\ request' = [request EXCEPT ![c].what = "revoking"]
      /\ request \in [Connection -> [what : Requests, cookie : TokenOrNone, owner : ConnectionOrNone]]
      /\ UNCHANGED << clients, ident, doing, seen, running, moving, previous >>
 <2>1. Free
   BY DEF ServeRevoke
 <2> QED BY <2>1, FreeHasNoWindow DEF ServeRevoke, locks, Core, Shapes
<1>1. PICK p, q, first, tickets, whom, gone, credentials :
        RevokePlan(c, p, q, first, tickets, whom, gone, credentials)
  BY RevokePlans
<1>2. PICK cr : cr = IF q = Nobody THEN first ELSE Deleted(first, q)
  OBVIOUS
<1>3. /\ p \in ConnectionOrNone /\ q \in ConnectionOrNone
      /\ first = IF p = Nobody THEN cred ELSE Deleted(cred, p)
      /\ whom = UNION {Concerned(x) : x \in {p, q} \ {Nobody}}
      /\ tickets \in SUBSET Token /\ \A u \in tickets : ticket[u] # "none"
      /\ gone = {u[1] : u \in tickets}
      /\ \A u \in tickets : request[c].cookie \in {u, seen[u[1]]} \/ (u = Own(u[1]) /\ seen[u[1]] = NoToken)
      /\ RegisterDrain(c, {p, q} \ {Nobody}, whom, credentials)
      /\ closed' = closed \cup gone /\ authorized' = WithoutAuthority(gone \cup whom)
      /\ ticket' = WithoutTicketsOf(gone) /\ cred' = AllInvalidated(cr, gone)
  BY <1>1, <1>2 DEF RevokePlan
<1>4. /\ cr \in Credentials /\ Books(cr, Admitted) /\ cr.restored = cred.restored
      /\ \A x \in Connection : Kept(cred, cr, x) \/ Ended(cred, cr, x)
  BY <1>2, <1>3, RevokedTurn
<1>5. Alone(gone)
 <2>1. request[c].cookie \in TokenOrNone
   BY <1>0
 <2> QED BY <1>0, <1>3, <2>1, RevokedAlone DEF Deep, RotatingInv
<1>6. gone \subseteq Connection /\ gone \subseteq Admitted
  BY <1>3, TokenFacts, TicketFacts
<1>7. \A t \in Token : ticket'[t] = (IF t[1] \in gone THEN "none" ELSE ticket[t])
  BY <1>3 DEF WithoutTicketsOf
<1>8. Turns
 <2>1. gone \subseteq closed'
   BY <1>3
 <2> QED BY <1>3, <1>4, <1>5, <1>6, <1>7, <2>1, ClosingTurn
<1>9. CloseMove
  BY <1>3, <1>6, <1>7, TokenFacts DEF CloseMove
<1>10. AuthorizedMove
  BY <1>3 DEF AuthorizedMove, WithoutAuthority
<1>11. CalmMove
  BY ServeRevokeMoves
<1>12. SeenMove /\ RestoredMove /\ RegisterMove /\ RunningMove
  BY <1>0, <1>11, CalmMoves DEF Calm, CalmMove
<1>13. WindowEnd /\ PhaseMove /\ MovingMove
  BY <1>0, HandlesStill
<1>14. AskMove
 <2>1. request'[c].what = "revoking" /\ \A d \in Connection : d # c => request'[d] = request[d]
   BY <1>0
 <2> QED BY <2>1, NobodyAsks
<1>15. DrainMove
 <2>1. {p, q} \ {Nobody} \in SUBSET Connection
   BY <1>3 DEF ConnectionOrNone
 <2> QED BY <1>3, <2>1, RevokedDrains DEF Deep
<1> QED BY <1>8, <1>9, <1>10, <1>12, <1>13, <1>14, <1>15 DEF WebMove

LEMMA EveryWebStep ==
  ASSUME Core, Web, Deep, [ReconnectNext]_reconnectVars
  PROVE  WebMove
<1>1. CASE UNCHANGED reconnectVars
  BY <1>1, StutterMoves
<1>2. CASE TimePasses
 <2>1. UNCHANGED << ticket, clients, ident, seen, closed, authorized, running, moving, previous, doing, request, drains >>
   BY <1>2 DEF TimePasses, locks, device, revokes
 <2> QED BY <1>2, <2>1, ClockMoves
<1>3. ASSUME NEW c \in Connection, Opening(c)
      PROVE  WebMove
 <2>1. ~Dial(c) /\ ~ActivateTerminal(c)
   BY DEF Dial, ActivateTerminal
 <2> QED BY <1>3, <2>1, UpgradeWebMoves, ActivateBrowserWebMoves, AbandonWebMoves DEF Opening
<1>4. ASSUME NEW c \in Connection, Reconnecting(c)
      PROVE  WebMove
  BY <1>4, AskReconnectWebMoves, ReacquireWebMoves, RestoreWebMoves, DeliverWebMoves,
     UndoRebindWebMoves,
     UndoRestoreWebMoves, StillWebMoves DEF Reconnecting
<1>5. ASSUME NEW c \in Connection, Ending(c)
      PROVE  WebMove
  BY <1>5, CloseEarlyWebMoves, DisconnectWebMoves, MarkOfflineWebMoves DEF Ending
<1>6. ASSUME NEW c \in Connection, Commanding(c)
      PROVE  WebMove
  BY <1>6, CommandWebMoves, EndCommandMoves DEF Commanding
<1>7. ASSUME NEW c \in Connection, Paging(c)
      PROVE  WebMove
  BY <1>7, PageMoves, ServeCommitWebMoves, ServeRefreshWebMoves DEF Paging
<1>8. ASSUME NEW c \in Connection, Revoking(c)
      PROVE  WebMove
  BY <1>8, PageMoves, ServeRevokeWebMoves, StillWebMoves, DrainClientWebMoves DEF Revoking
<1>9. ASSUME NEW c \in Connection, Expiring(c)
      PROVE  WebMove
  BY <1>9, TicketExpiresWebMoves, StillWebMoves DEF Expiring
<1> QED BY <1>1, <1>2, <1>3, <1>4, <1>5, <1>6, <1>7, <1>8, <1>9 DEF ReconnectNext

-----------------------------------------------------------------------------
(* Who runs commands does it alone.                                        *)

LEMMA NobodyHasCome ==
  ASSUME ReconnectInit
  PROVE  /\ Admitted = {} /\ \A c \in Connection : ~Window(c) /\ ~Asker(c) /\ doing[c] = "unborn"
         /\ \A t \in Token : ticket[t] = "none"
         /\ \A c \in Connection : cred.restored[c] = NotRestored /\ cred.rotation[c] = NoRotation /\ ~HasSession(cred, c)
BY DEF ReconnectInit, Admitted, Window, Asker, NoCredentials, HasSession, NoRequest

LEMMA DeepInit ==
  ASSUME ReconnectInit
  PROVE  Deep
<1>1. /\ Admitted = {} /\ \A c \in Connection : ~Window(c) /\ ~Asker(c) /\ doing[c] = "unborn"
      /\ \A t \in Token : ticket[t] = "none"
      /\ \A c \in Connection : cred.restored[c] = NotRestored /\ cred.rotation[c] = NoRotation /\ ~HasSession(cred, c)
  BY NobodyHasCome
<1>2. /\ closed = {} /\ running = {}
      /\ \A c \in Connection : /\ clients[c] = Nobody /\ ident[c] = Nobody /\ moving[c] = Nobody /\ previous[c] = Nobody
                               /\ seen[c] = NoToken /\ authorized[c] = NoToken /\ drains[c].left = {}
                               /\ request[c].cookie = NoToken
      /\ jar.cookie = NoToken
  BY DEF ReconnectInit, NoRequest, NoDrain
<1>3. AskersInv
  BY <1>1, <1>2, TokenFacts DEF AskersInv, Shown, NotRestored
<1>4. RotatingInv
  BY <1>1, TokenFacts DEF RotatingInv, OneRotationTicket, RotationEnds, NoRotation
<1>5. IdentInv /\ AuthorizedInv /\ RunningInv /\ MovingInv /\ WindowInv /\ RegisteredInv /\ RestoringInv /\ DrainedInv
  BY <1>1, <1>2 DEF IdentInv, AuthorizedInv, RunningInv, MovingInv, WindowInv, RegisteredInv,
     RestoringInv, DrainedInv
<1>6. RotationsInv
  BY <1>1, <1>2, ConnectionsAreNumbers DEF RotationsInv, NoRotation
<1> QED BY <1>3, <1>4, <1>5, <1>6 DEF Deep

\* A terminal client's connection runs no browser's commands.
LEMMA TerminalsRunNothing ==
  ASSUME ~Web, running = {}, [ReconnectNext]_reconnectVars
  PROVE  running' = {}
<1>1. CASE UNCHANGED reconnectVars \/ TimePasses
  BY <1>1 DEF TimePasses, reconnectVars, locks
<1>2. ASSUME NEW c \in Connection, Opening(c) \/ Ending(c)
      PROVE  running' = {}
  BY <1>2 DEF Opening, Ending, Upgrade, Dial, ActivateBrowser, ActivateTerminal, Abandon,
     CloseEarly, Disconnect, MarkOffline, locks
<1>3. ASSUME NEW c \in Connection, Reconnecting(c) \/ Commanding(c) \/ Expiring(c)
      PROVE  running' = {}
  BY <1>3 DEF Reconnecting, AskReconnect, Reacquire, Restore, Deliver, UndoRebind, UndoRestore,
     DrainRetired,
              Commanding, Command, EndCommand, Expiring, TicketExpires, NonceExpires, locks
<1>4. ASSUME NEW c \in Connection, Paging(c) \/ Revoking(c)
      PROVE  running' = {}
  BY <1>4 DEF Paging, PostCommit, ServeCommit, TakeCommit, ServeRefresh, TakeReconnected,
     TakeProvisional, Lose,
              Revoking, PostRevoke, ServeRevoke, RevokeReturns, TakeRevoked, DrainDone, DrainClient, locks
<1> QED BY <1>1, <1>2, <1>3, <1>4 DEF ReconnectNext

\* What holds of the server of a browser, and of a terminal client.
Kinds == (Web => Deep) /\ (~Web => running = {})

LEMMA KindsKept ==
  ASSUME Core, Kinds, [ReconnectNext]_reconnectVars
  PROVE  Kinds'
<1>1. Core' /\ StepFacts
  BY CoreKept, EveryStepFacts
<1>2. scene' = scene
  BY <1>1 DEF StepFacts
<1>3. CASE Web
 <2>1. WebMove
   BY <1>3, EveryWebStep DEF Kinds
 <2>2. Deep'
   BY <1>1, <1>3, <2>1, DeepKept DEF Kinds
 <2> QED BY <1>2, <1>3, <2>2 DEF Kinds, Web
<1>4. CASE ~Web
 <2>1. running' = {}
   BY <1>4, TerminalsRunNothing DEF Kinds
 <2> QED BY <1>2, <1>4, <2>1 DEF Kinds, Web
<1> QED BY <1>3, <1>4

LEMMA AloneAre ==
  ASSUME Core, Kinds
  PROVE  CommandersAreAlone
<1>1. CASE Web
 <2>1. RunningInv /\ MovingInv
   BY <1>1 DEF Kinds, Deep
 <2>2. OneCommander
   BY <2>1 DEF OneCommander, RunningInv, Registered
 <2>3. ASSUME NEW c \in Connection, c \in running \/ Drained(c)
       PROVE  NoTicket(c)
  <3>1. CASE c \in running
    BY <2>1, <3>1 DEF RunningInv
  <3>2. CASE Drained(c)
   <4>1. PICK d \in Connection : moving[d] = c
     BY <3>2 DEF Drained
   <4> QED BY <2>1, <4>1, ConnectionsAreNumbers DEF MovingInv
  <3> QED BY <2>3, <3>1, <3>2
 <2> QED BY <2>2, <2>3 DEF CommandersAreAlone, CommandersHaveNoTicket, NoTicket
<1>2. CASE ~Web
 <2>1. running = {} /\ \A t \in Token : ticket[t] = "none"
   BY <1>2 DEF Kinds, Core, TerminalBooks
 <2> QED BY <2>1, TokenFacts DEF CommandersAreAlone, OneCommander, CommandersHaveNoTicket
<1> QED BY <1>1, <1>2

LEMMA RotationsEndThen ==
  ASSUME Core, Kinds
  PROVE  RotationEnds /\ OneRotationTicket
<1>1. CASE Web
  BY <1>1 DEF Kinds, Deep, RotatingInv
<1>2. CASE ~Web
 <2>1. TuiBooks(cred) /\ \A t \in Token : ticket[t] = "none"
   BY <1>2 DEF Core, TerminalBooks
 <2> QED BY <2>1, TokenFacts DEF TuiBooks, RotationEnds, OneRotationTicket, NoRotation
<1> QED BY <1>1, <1>2

LEMMA KindsAlways == ReconnectSpec => [](Core /\ Kinds)
<1>1. ReconnectInit => Core /\ Kinds
  BY CoreInit, DeepInit DEF Kinds, ReconnectInit
<1>2. Core /\ Kinds /\ [ReconnectNext]_reconnectVars => (Core /\ Kinds)'
  BY CoreKept, KindsKept
<1> QED BY <1>1, <1>2, PTL DEF ReconnectSpec

\* No two connections run commands of one player, whichever of them a
\* reconnect replaces, and whoever holds a command lock, or is drained of it,
\* has no ticket that could expire (AcquireBrowserReconnectAuthority,
\* beginBrowserCommandAuthority, expire).
THEOREM CommandersStayAlone == ReconnectSpec => []CommandersAreAlone
<1>1. Core /\ Kinds => CommandersAreAlone
  BY AloneAre
<1> QED BY <1>1, KindsAlways, PTL

\* A rotation that can still go either way has the ticket that will commit it
\* or take it back, and no two tickets are for one player's (invalidateEntry,
\* OrphanBrowserRestore, RollbackRestore).
THEOREM RotationsAreDecided == ReconnectSpec => [](RotationEnds /\ OneRotationTicket)
<1>1. Core /\ Kinds => RotationEnds /\ OneRotationTicket
  BY RotationsEndThen
<1> QED BY <1>1, KindsAlways, PTL

-----------------------------------------------------------------------------
(* Whom a logout has ended, and what it waits for.                         *)

Revokers == {"revoking", "revoked", "out"}
Gone(p) == p \in Admitted /\ ~HasSession(cred, p)

\* A connection that did not come back in the end has no ticket for the token
\* that was drawn for it.
BackInv ==
  \A c \in Connection :
    cred.restored[c].player # Nobody /\ ident[c] = c /\ doing[c] # "undone" => ticket[New(c)] = "none"
\* The token that allows a connection its commands is of its own player.
NamesInv ==
  \A c \in Connection : authorized[c] # NoToken =>
    authorized[c] \in {Own(c), New(c)} /\ TokenPlayer(cred, authorized[c]) = ident[c]
\* Who is or was drained will not run a command again.
CoveredInv ==
  \A d \in Connection : \A x \in drains[d].clients :
    /\ x \in Admitted /\ ~Asker(x) /\ ~HasSession(cred, ident[x])
    /\ x \in drains[d].left \/ x \notin running
\* Only logouts that were served drain, and they wait for their own drain.
RevokersInv ==
  \A c \in Connection :
    /\ request[c].what \notin Revokers => ~drains[c].open /\ ending[c] = {}
    /\ drains[c].open => c \in awaited[c]
\* The drain of d, or one that it waits for, drains the connection x of p.
Covers(d, p, x) == drains[d].open /\ (p \in ending[d] \/ x \in drains[d].left)
\* Whoever still runs a command of a player that ends is waited for.
EndingInv ==
  \A c \in Connection : \A p \in ending[c] :
    /\ Gone(p)
    /\ \A x \in running : ident[x] = p =>
         /\ \E d \in awaited[c] : Covers(d, p, x)
         /\ drains[c].open => x \in drains[c].left \/ \E e \in drains[c].dependencies : Covers(e, p, x)
OverInv == \A p \in over : Gone(p) /\ \A x \in running : ident[x] # p
Finals == BackInv /\ NamesInv /\ CoveredInv /\ RevokersInv /\ EndingInv /\ OverInv
\* A terminal client never logs out.
Stays == over = {} /\ \A c \in Connection : request[c].what # "revoke" /\ ending[c] = {}

LEMMA IdentStays ==
  ASSUME Core, StepFacts, WebMove, NEW x \in Connection, x \in Admitted, ~Asker(x)
  PROVE  ident'[x] = ident[x] /\ x \in Admitted'
<1>0. ident \in [Connection -> ConnectionOrNone]
  BY DEF Core, Shapes
<1>1. ASSUME NEW c \in Connection, Enrols(c)
      PROVE  ident'[x] = ident[x]
  BY <1>0, <1>1 DEF Enrols
<1>2. ASSUME NEW c \in Connection, Rebinds(c)
      PROVE  ident'[x] = ident[x]
 <2> DEFINE p == cred'.restored[c].player
 <2>1. Asker(c) /\ ident' = [ident EXCEPT ![c] = p]
   BY <1>2, RebindFacts
 <2> HIDE DEF p
 <2> QED BY <1>0, <2>1
<1>3. ASSUME NEW c \in Connection, UndoesRebind(c)
      PROVE  ident'[x] = ident[x]
 <2>1. Asker(c) /\ ident' = [ident EXCEPT ![c] = c]
   BY <1>3, UndoFacts DEF UndoesRebind
 <2> QED BY <1>0, <2>1
<1>4. ident'[x] = ident[x]
  BY <1>1, <1>2, <1>3 DEF WebMove, RegisterMove, Bound, Leaves
<1> QED BY <1>4 DEF StepFacts, CredMove

\* Who has been admitted is somebody who has been admitted.
LEMMA IdentAdmitted ==
  ASSUME Core, NEW x \in Connection, x \in Admitted
  PROVE  ident[x] \in Connection /\ ident[x] \in Admitted /\ ident[x] # Nobody
<1>1. ident[x] \in {Nobody, x, cred.restored[x].player} /\ ident[x] # Nobody
  BY HandlingFacts DEF HandlingOf, Admitted
<1> QED BY <1>1, PlayerOfRestored

\* Nobody who was admitted gets a session again.
LEMMA GoneStays ==
  ASSUME Core, StepFacts, WebMove, NEW p \in Connection, Gone(p)
  PROVE  ~HasSession(cred', p) /\ p \in Admitted'
<1>1. Turn(p)
  BY DEF WebMove, Turns
<1>2. p \in Admitted'
  BY DEF Gone, StepFacts, CredMove
<1>3. ~HasSession(cred, p) /\ p \in Admitted
  BY DEF Gone
<1>4. CASE Kept(cred, cred', p)
  BY <1>2, <1>3, <1>4 DEF Kept
<1>5. CASE Ended(cred, cred', p)
  BY <1>2, <1>5 DEF Ended
<1>6. ASSUME NEW t, SettledFor(cred, cred', p, t)
      PROVE  FALSE
  BY <1>3, <1>6 DEF SettledFor
<1>7. ASSUME NEW c, TakenBack(cred, cred', p, c) \/ LeftOpen(cred, cred', p, c)
      PROVE  FALSE
  BY <1>3, <1>7 DEF TakenBack, LeftOpen
<1>8. ~Begun(p)
  BY <1>3 DEF Begun
<1>9. ASSUME NEW c, Reborn(p, c)
      PROVE  FALSE
  BY <1>3, <1>9 DEF Reborn, Usable
<1> QED BY <1>1, <1>2, <1>4, <1>5, <1>6, <1>7, <1>8, <1>9 DEF Turn

LEMMA BackKept ==
  ASSUME Core, Core', StepFacts, AskersInv, AskersInv', BackInv, WebMove
  PROVE  BackInv'
<1>0. /\ ident \in [Connection -> ConnectionOrNone] /\ ticket' \in [Token -> {"none", "issued", "committed"}]
  BY DEF Core, StepFacts, Shapes
<1>1. SUFFICES ASSUME NEW c \in Connection, cred'.restored[c].player # Nobody, ident'[c] = c,
                      doing'[c] # "undone", ticket'[New(c)] # "none"
               PROVE  FALSE
  BY DEF BackInv
<1>2. New(c) \in Token /\ New(c)[1] = c
  BY TokenFacts
<1>3. c \notin closed'
  BY <1>1, <1>2 DEF AskersInv
<1>4. doing'[c] \in {"delivering", "undoing"} => ident'[c] = cred'.restored[c].player
  BY DEF StepFacts, Handling, HandlingOf
<1>5. cred'.restored[c].player # c
  BY <1>1 DEF Core, Books, RestoresLeadBack
<1>6. ~Window(c)'
  BY <1>1, <1>4, <1>5 DEF Window
<1>7. CASE cred'.restored[c] # cred.restored[c]
  BY <1>1, <1>6, <1>7 DEF WebMove, RestoredMove, NoTicket
<1>8. CASE cred'.restored[c] = cred.restored[c]
 <2>1. ticket[New(c)] # "none" /\ c \in Admitted
  <3>1. ~Reborn(cred'.restored[c].player, c)
    BY <1>1, <1>8 DEF Reborn
  <3>2. ticket[New(c)] # "none"
    BY <1>1, <3>1, NewTickets
  <3> QED BY <3>2, TicketFacts
 <2>2. CASE doing[c] = "undone"
   BY <1>3, <1>6, <2>2 DEF WebMove, WindowEnd, Window
 <2>3. CASE doing[c] # "undone"
  <3>1. ident[c] # c
    BY <1>1, <1>8, <2>1, <2>3 DEF BackInv
  <3>2. ident'[c] # ident[c]
    BY <1>1, <3>1
  <3>3. ASSUME NEW e \in Connection, Enrols(e)
        PROVE  FALSE
    BY <1>0, <2>1, <3>2, <3>3 DEF Enrols
  <3>4. ASSUME NEW e \in Connection, Rebinds(e)
        PROVE  FALSE
   <4> DEFINE p == cred'.restored[e].player
   <4>1. ident' = [ident EXCEPT ![e] = p] /\ p # e
     BY <3>4, RebindFacts
   <4> HIDE DEF p
   <4>2. e = c
     BY <1>0, <3>2, <4>1
   <4> QED BY <1>0, <1>1, <4>1, <4>2
  <3>5. ASSUME NEW e \in Connection, UndoesRebind(e)
        PROVE  FALSE
   <4>1. ident' = [ident EXCEPT ![e] = e] /\ doing'[e] = "undone"
     BY <3>5 DEF UndoesRebind
   <4>2. e = c
     BY <1>0, <3>2, <4>1
   <4> QED BY <1>1, <4>1, <4>2
  <3> QED BY <3>2, <3>3, <3>4, <3>5 DEF WebMove, RegisterMove, Bound, Leaves
 <2> QED BY <2>2, <2>3
<1> QED BY <1>7, <1>8

LEMMA NamesKept ==
  ASSUME Core, StepFacts, AskersInv, AuthorizedInv, BackInv, NamesInv, WebMove
  PROVE  NamesInv'
<1>0. authorized' \in [Connection -> TokenOrNone]
  BY DEF StepFacts, Shapes
<1>1. SUFFICES ASSUME NEW c \in Connection, authorized'[c] # NoToken
               PROVE  authorized'[c] \in {Own(c), New(c)} /\ TokenPlayer(cred', authorized'[c]) = ident'[c]
  BY DEF NamesInv, TokenPlayer
<1>2. SUFFICES ASSUME NEW t \in {Own(c), New(c)}, authorized'[c] = t, ~Asker(c), c \in Admitted,
                      TokenPlayer(cred, t) = ident[c]
               PROVE  TokenPlayer(cred', t) = ident'[c]
 <2>1. CASE authorized'[c] = authorized[c]
   BY <1>1, <1>2, <2>1 DEF NamesInv, AuthorizedInv
 <2>2. CASE Confirms(c)
  <3>1. PICK t \in {Own(c), New(c)} :
          /\ ticket[t] = "committed" /\ authorized'[c] = t
          /\ t = New(c) => cred.restored[c].player # Nobody
    BY <2>2 DEF Confirms
  <3>2. t \in Token /\ t[1] = c
    BY <3>1, TokenFacts
  <3>3. ~Asker(c) /\ c \in Admitted
    BY <3>1, <3>2, TicketFacts DEF AskersInv
  <3>4. ident[c] \in {Nobody, c, cred.restored[c].player} /\ ident[c] # Nobody
    BY <3>3, HandlingFacts DEF HandlingOf, Admitted
  <3>5. CASE t = Own(c)
   <4>1. cred.restored[c].player = Nobody
     BY <3>1, <3>5 DEF AskersInv
   <4>2. TokenPlayer(cred, t) = c
     BY <3>5, TokenFacts DEF TokenPlayer
   <4> QED BY <1>2, <3>1, <3>3, <3>4, <4>1, <4>2
  <3>6. CASE t = New(c)
   <4>1. cred.restored[c].player # Nobody /\ doing[c] # "undone"
     BY <2>2, <3>1, <3>6 DEF Confirms, NoWindow, Window
   <4>2. ident[c] # c
     BY <3>1, <3>6, <4>1 DEF BackInv
   <4>3. TokenPlayer(cred, t) = cred.restored[c].player
     BY <3>6, TokenFacts DEF TokenPlayer
   <4> QED BY <1>2, <3>1, <3>3, <3>4, <4>2, <4>3
  <3> QED BY <3>1, <3>5, <3>6
 <2> QED BY <1>1, <2>1, <2>2 DEF WebMove, AuthorizedMove
<1>3. ident'[c] = ident[c] /\ ident[c] # Nobody
  BY <1>2, IdentStays DEF Admitted
<1>4. Drawn(cred, Admitted, t)
  BY <1>2, <1>3, TokenFacts DEF Drawn, TokenPlayer
<1> QED BY <1>2, <1>3, <1>4, DrawnStays

\* Who runs a command ran it already, or has a session.
LEMMA RunnersAre ==
  ASSUME Core, StepFacts, RunningInv, AuthorizedInv, NamesInv, WebMove, NEW x \in running'
  PROVE  /\ x \in Connection /\ x \in Admitted /\ ~Asker(x) /\ ident'[x] = ident[x]
         /\ x \in running \/ HasSession(cred, ident[x])
<1>0. x \in Connection
  BY DEF StepFacts, Shapes
<1>1. CASE x \in running
  BY <1>0, <1>1, IdentStays DEF RunningInv
<1>2. CASE Commands(x)
 <2>1. authorized[x] # NoToken /\ CanReconnectToken(cred, authorized[x])
   BY <1>2 DEF Commands, MayCommand
 <2>2. /\ x \in Admitted /\ ~Asker(x) /\ authorized[x] \in {Own(x), New(x)}
       /\ TokenPlayer(cred, authorized[x]) = ident[x]
   BY <1>0, <2>1 DEF AuthorizedInv, NamesInv
 <2>3. authorized[x] \in Token
   BY <1>0, <2>2, TokenFacts
 <2>4. HasSession(cred, cred.index[authorized[x]])
   BY <2>1 DEF CanReconnectToken, HolderOf
 <2>5. cred.index[authorized[x]] = ident[x]
   BY <2>2, <2>3, <2>4 DEF Core, Books, IndexIsRight, HasSession
 <2> QED BY <1>0, <2>2, <2>4, <2>5, IdentStays
<1> QED BY <1>1, <1>2 DEF WebMove, RunningMove

-----------------------------------------------------------------------------
(* Requests and drains.                                                    *)

\* Who logs out stays so, and a terminal client does not.
RequestMove ==
  \A c \in Connection :
    /\ request[c].what \in Revokers => request'[c].what \in Revokers
    /\ request'[c].what = "revoke" => request[c].what = "revoke" \/ Web

LEMMA RequestStays == ASSUME UNCHANGED request PROVE RequestMove
BY DEF RequestMove

LEMMA OneGoesOn ==
  ASSUME NEW c \in Connection, \A d \in Connection : d # c => request'[d] = request[d],
         request[c].what \in Revokers => request'[c].what \in Revokers,
         request'[c].what = "revoke" => request[c].what = "revoke" \/ Web
  PROVE  RequestMove
BY DEF RequestMove

LEMMA AnswerGoesOn ==
  ASSUME Core, NEW c \in Connection, NEW what, what # "revoke",
         request[c].what \notin Revokers \/ what \in Revokers,
         Becomes(c, what) \/ \E cookie : Answers(c, what, cookie)
  PROVE  RequestMove
<1>1. request'[c].what = what
  BY Says
<1>2. \A d \in Connection : d # c => request'[d] = request[d]
 <2>1. request \in [Connection -> [what : Requests, cookie : TokenOrNone, owner : ConnectionOrNone]]
   BY DEF Core, Shapes
 <2> QED BY <2>1 DEF Becomes, Answers
<1> QED BY <1>1, <1>2, OneGoesOn

LEMMA OpeningRequests ==
  ASSUME Core, NEW c \in Connection, Opening(c)
  PROVE  RequestMove
<1>1. CASE Upgrade(c) \/ Dial(c) \/ Abandon(c)
  BY <1>1, RequestStays DEF Upgrade, Dial, Abandon, device
<1>2. ASSUME doing[c] = "upgraded"
      PROVE  request[c].what \notin Revokers
  BY <1>2, HandlingFacts DEF HandlingOf, Revokers
<1>3. CASE ActivateBrowser(c)
 <2>1. request[c].what \notin Revokers
   BY <1>2, <1>3 DEF ActivateBrowser
 <2>2. UNCHANGED request \/ Becomes(c, "ask") \/ Becomes(c, "ticket")
   BY <1>3 DEF ActivateBrowser
 <2> QED BY <2>1, <2>2, RequestStays, AnswerGoesOn
<1>4. CASE ActivateTerminal(c)
 <2>1. request[c].what \notin Revokers
   BY <1>2, <1>4 DEF ActivateTerminal
 <2>2. Becomes(c, "up") \/ Becomes(c, "ask")
   BY <1>4 DEF ActivateTerminal
 <2> QED BY <2>1, <2>2, AnswerGoesOn
<1> QED BY <1>1, <1>3, <1>4 DEF Opening

LEMMA ReconnectingRequests ==
  ASSUME Core, NEW c \in Connection, Reconnecting(c)
  PROVE  RequestMove
<1>1. ASSUME Busy(c) \/ Asks(c, "ask")
      PROVE  request[c].what \notin Revokers
  BY <1>1, HandlingFacts DEF HandlingOf, Revokers, Asks
<1>2. CASE UndoRebind(c) \/ DrainRetired(c)
  BY <1>2, RequestStays DEF UndoRebind, DrainRetired, device
<1>3. CASE AskReconnect(c) \/ Reacquire(c)
 <2>1. request[c].what \notin Revokers
   BY <1>1, <1>3 DEF AskReconnect, Reacquire, Busy
 <2>2. UNCHANGED request \/ Becomes(c, "asked") \/ Becomes(c, "failed")
   BY <1>3 DEF AskReconnect, Reacquire, Fails
 <2> QED BY <2>1, <2>2, RequestStays, AnswerGoesOn
<1>4. CASE Restore(c)
 <2>1. request[c].what \notin Revokers
   BY <1>1, <1>4 DEF Restore, Busy, Holding
 <2>2. UNCHANGED request \/ Becomes(c, "failed") \/ Answers(c, "rejected", Own(c))
   BY <1>4 DEF Restore, Fails
 <2> QED BY <2>1, <2>2, RequestStays, AnswerGoesOn
<1>5. CASE Deliver(c)
 <2>1. request[c].what \notin Revokers
   BY <1>1, <1>5 DEF Deliver, Busy, Holding, Window
 <2>2. UNCHANGED request \/ Becomes(c, "ticket") \/ Answers(c, "reconnected", New(c))
   BY <1>5 DEF Deliver
 <2> QED BY <2>1, <2>2, RequestStays, AnswerGoesOn
<1>6. CASE UndoRestore(c)
 <2>1. request[c].what \notin Revokers
   BY <1>1, <1>6 DEF UndoRestore, Busy, Holding, Window
 <2>2. Becomes(c, "failed")
   BY <1>6 DEF UndoRestore, Fails
 <2> QED BY <2>1, <2>2, AnswerGoesOn
<1> QED BY <1>2, <1>3, <1>4, <1>5, <1>6 DEF Reconnecting

LEMMA EndingRequests ==
  ASSUME Core, NEW c \in Connection, Ending(c) \/ Commanding(c) \/ Expiring(c)
  PROVE  RequestMove
<1>1. CASE CloseEarly(c) \/ MarkOffline(c) \/ Commanding(c) \/ Expiring(c)
  BY <1>1, RequestStays DEF CloseEarly, MarkOffline, Commanding, Command, EndCommand, Expiring,
     TicketExpires, NonceExpires, device
<1>2. CASE Disconnect(c)
 <2>1. UNCHANGED request \/ (request[c].what \in {"ask", "ticket", "up"} /\ Becomes(c, "failed"))
   BY <1>2 DEF Disconnect
 <2> QED BY <2>1, RequestStays, AnswerGoesOn DEF Revokers
<1> QED BY <1>1, <1>2 DEF Ending

LEMMA PagingRequests ==
  ASSUME Core, NEW c \in Connection, Paging(c)
  PROVE  RequestMove
<1>0. request \in [Connection -> [what : Requests, cookie : TokenOrNone, owner : ConnectionOrNone]]
  BY DEF Core, Shapes
<1>1. CASE PostCommit(c)
 <2>1. request[c].what = "ticket" /\ request'[c].what = "commit" /\ \A d \in Connection : d # c => request'[d] = request[d]
   BY <1>0, <1>1 DEF PostCommit, Post, Asks
 <2> QED BY <2>1, OneGoesOn DEF Revokers
<1>2. CASE TakeCommit(c)
 <2>1. request[c].what = "committed" /\ request'[c].what = "refresh" /\ \A d \in Connection : d # c => request'[d] = request[d]
   BY <1>0, <1>2 DEF TakeCommit, Asks
 <2> QED BY <2>1, OneGoesOn DEF Revokers
<1>3. CASE ServeCommit(c)
 <2>1. request[c].what = "commit" /\ (Becomes(c, "failed") \/ \E cookie : Answers(c, "committed", cookie))
   BY <1>3 DEF ServeCommit, Asks
 <2> QED BY <2>1, AnswerGoesOn DEF Revokers
<1>4. CASE ServeRefresh(c)
 <2>1. request[c].what = "refresh" /\ (Becomes(c, "failed") \/ Becomes(c, "up"))
   BY <1>4 DEF ServeRefresh, Asks
 <2> QED BY <2>1, AnswerGoesOn DEF Revokers
<1>5. CASE TakeReconnected(c) \/ TakeProvisional(c)
 <2>1. request[c].what \in {"reconnected", "rejected"} /\ Becomes(c, "up")
   BY <1>5 DEF TakeReconnected, TakeProvisional, Asks
 <2> QED BY <2>1, AnswerGoesOn DEF Revokers
<1>6. CASE Lose(c)
 <2>1. request[c].what \in {"commit", "committed", "refresh", "reconnected", "rejected"} /\ Becomes(c, "failed")
   BY <1>6 DEF Lose
 <2> QED BY <2>1, AnswerGoesOn DEF Revokers
<1> QED BY <1>1, <1>2, <1>3, <1>4, <1>5, <1>6 DEF Paging

LEMMA RevokingRequests ==
  ASSUME Core, NEW c \in Connection, Revoking(c)
  PROVE  RequestMove
<1>0. request \in [Connection -> [what : Requests, cookie : TokenOrNone, owner : ConnectionOrNone]]
  BY DEF Core, Shapes
<1>1. CASE PostRevoke(c)
 <2>1. /\ request[c].what \in {"ticket", "up", "failed"} /\ Web
       /\ \A d \in Connection : d # c => request'[d] = request[d]
   BY <1>0, <1>1 DEF PostRevoke, Post
 <2> QED BY <2>1, OneGoesOn DEF Revokers
<1>2. CASE ServeRevoke(c)
 <2>1. request'[c].what = "revoking" /\ \A d \in Connection : d # c => request'[d] = request[d]
   BY <1>0, <1>2 DEF ServeRevoke
 <2> QED BY <2>1, OneGoesOn DEF Revokers
<1>3. CASE RevokeReturns(c) \/ TakeRevoked(c)
 <2>1. Becomes(c, "revoked") \/ Becomes(c, "out")
   BY <1>3 DEF RevokeReturns, TakeRevoked
 <2> QED BY <2>1, AnswerGoesOn DEF Revokers
<1>4. CASE DrainDone(c) \/ \E x \in Connection : DrainClient(c, x)
  BY <1>4, RequestStays DEF DrainDone, DrainClient, device
<1> QED BY <1>1, <1>2, <1>3, <1>4 DEF Revoking

LEMMA RequestsGoOn ==
  ASSUME Core, [ReconnectNext]_reconnectVars
  PROVE  RequestMove
<1>1. CASE UNCHANGED reconnectVars \/ TimePasses
  BY <1>1, RequestStays DEF TimePasses, reconnectVars, device
<1>2. ASSUME NEW c \in Connection,
             Opening(c) \/ Reconnecting(c) \/ Ending(c) \/ Commanding(c) \/ Paging(c) \/ Revoking(c) \/ Expiring(c)
      PROVE  RequestMove
  BY <1>2, OpeningRequests, ReconnectingRequests, EndingRequests, PagingRequests, RevokingRequests
<1> QED BY <1>1, <1>2 DEF ReconnectNext

\* Only logouts, and their drains, have to do with drains.
RevokesMove ==
  \/ UNCHANGED revokes
  \/ \E c \in Connection : ServeRevoke(c) \/ DrainDone(c) \/ RevokeReturns(c) \/ \E x \in Connection : DrainClient(c, x)

LEMMA RevokesGoOn ==
  ASSUME [ReconnectNext]_reconnectVars
  PROVE  RevokesMove
<1>1. CASE UNCHANGED reconnectVars \/ TimePasses
  BY <1>1 DEF TimePasses, reconnectVars, RevokesMove
<1>2. ASSUME NEW c \in Connection, Opening(c) \/ Ending(c)
      PROVE  RevokesMove
  BY <1>2 DEF RevokesMove, Opening, Ending, Upgrade, Dial, ActivateBrowser, ActivateTerminal,
     Abandon, CloseEarly, Disconnect, MarkOffline
<1>3. ASSUME NEW c \in Connection, Reconnecting(c) \/ Commanding(c) \/ Expiring(c)
      PROVE  RevokesMove
  BY <1>3 DEF RevokesMove, Reconnecting, AskReconnect, Reacquire, Restore, Deliver, UndoRebind,
     UndoRestore, DrainRetired,
              Commanding, Command, EndCommand, Expiring, TicketExpires, NonceExpires
<1>4. ASSUME NEW c \in Connection, Paging(c) \/ Revoking(c)
      PROVE  RevokesMove
  BY <1>4 DEF RevokesMove, Paging, PostCommit, ServeCommit, TakeCommit, ServeRefresh,
     TakeReconnected, TakeProvisional, Lose,
              Revoking, PostRevoke, TakeRevoked
<1> QED BY <1>1, <1>2, <1>3, <1>4 DEF ReconnectNext

-----------------------------------------------------------------------------
(* What a logout waits for.                                                *)

DrainShapes ==
  /\ drains \in [Connection -> DrainRecord] /\ awaited \in [Connection -> SUBSET Connection]
  /\ ending \in [Connection -> SUBSET Connection] /\ over \subseteq Connection

LEMMA DrainsAreShaped == ASSUME Core PROVE DrainShapes
BY DEF Core, Shapes, DrainShapes

\* A step that opens no drain, and takes from one only whom it has drained.
DrainsGoOn ==
  \A d \in Connection :
    /\ drains'[d].open => drains[d].open /\ drains'[d].dependencies = drains[d].dependencies
    /\ drains'[d].clients \subseteq drains[d].clients
    /\ \A x \in drains'[d].clients : x \in drains[d].left => x \in drains'[d].left \/ x \notin running'
    /\ drains'[d].open => \A x \in drains[d].left : x \in drains'[d].left \/ x \notin running'

LEMMA CoveredKept ==
  ASSUME Core, StepFacts, WebMove, RunningInv, AuthorizedInv, NamesInv, CoveredInv, DrainsGoOn
  PROVE  CoveredInv'
<1>1. SUFFICES ASSUME NEW d \in Connection, NEW x \in drains'[d].clients
               PROVE  /\ x \in Admitted' /\ NotAsking(x) /\ ~HasSession(cred', ident'[x])
                      /\ x \in drains'[d].left \/ x \notin running'
  BY DEF CoveredInv, Asker, NotAsking
<1>2. x \in drains[d].clients
  BY <1>1 DEF DrainsGoOn
<1>3. /\ x \in Admitted /\ ~Asker(x) /\ ~HasSession(cred, ident[x])
      /\ x \in drains[d].left \/ x \notin running
  BY <1>2 DEF CoveredInv
<1>4. x \in Connection
  BY <1>3, AdmittedAre
<1>5. ident'[x] = ident[x] /\ x \in Admitted' /\ NotAsking(x)
  BY <1>3, <1>4, IdentStays, StillNotAsking
<1>6. ~HasSession(cred', ident'[x])
  BY <1>3, <1>4, <1>5, IdentAdmitted, GoneStays DEF Gone
<1>7. x \in drains'[d].left \/ x \notin running'
 <2>1. CASE x \in drains[d].left
   BY <1>1, <2>1 DEF DrainsGoOn
 <2>2. CASE x \notin running
   BY <1>3, <2>2, RunnersAre
 <2> QED BY <1>3, <2>1, <2>2
<1> QED BY <1>5, <1>6, <1>7

\* Whoever runs a command of a player that is gone has been running it.
LEMMA RunnersOfTheGone ==
  ASSUME Core, StepFacts, RunningInv, AuthorizedInv, NamesInv, WebMove, NEW p, Gone(p),
         NEW x \in running', ident'[x] = p
  PROVE  x \in running /\ ident[x] = p /\ x \in Connection
BY RunnersAre DEF Gone

LEMMA EndingKept ==
  ASSUME Core, StepFacts, RunningInv, AuthorizedInv, NamesInv, WebMove, EndingInv, DrainsGoOn,
         \A c \in Connection : ending'[c] \subseteq ending[c],
         \A c \in Connection : ending'[c] # {} => awaited'[c] = awaited[c],
         \A d \in Connection : \A p \in Connection : \A x \in running :
           x \in running' /\ ident[x] = p /\ Covers(d, p, x) => Covers(d, p, x)'
  PROVE  EndingInv'
<1>1. SUFFICES ASSUME NEW c \in Connection, NEW p \in ending'[c]
               PROVE  /\ Gone(p)'
                      /\ \A x \in running' : ident'[x] = p =>
                           /\ \E d \in awaited'[c] : Covers(d, p, x)'
                           /\ drains'[c].open => \/ x \in drains'[c].left
                                                 \/ \E e \in drains'[c].dependencies : Covers(e, p, x)'
  BY DEF EndingInv
<1>2. /\ p \in ending[c] /\ p \in Connection /\ awaited'[c] = awaited[c] /\ awaited[c] \subseteq Connection
      /\ drains[c].dependencies \subseteq Connection
  BY <1>1, DrainsAreShaped DEF DrainShapes, DrainRecord
<1>3. Gone(p)
  BY <1>2 DEF EndingInv
<1>4. Gone(p)'
  BY <1>2, <1>3, GoneStays DEF Gone
<1>5. ASSUME NEW x \in running', ident'[x] = p
      PROVE  /\ \E d \in awaited'[c] : Covers(d, p, x)'
             /\ drains'[c].open => \/ x \in drains'[c].left
                                   \/ \E e \in drains'[c].dependencies : Covers(e, p, x)'
 <2>1. x \in running /\ ident[x] = p
   BY <1>3, <1>5, RunnersOfTheGone
 <2>2. /\ \E d \in awaited[c] : Covers(d, p, x)
       /\ drains[c].open => x \in drains[c].left \/ \E e \in drains[c].dependencies : Covers(e, p, x)
   BY <1>2, <2>1 DEF EndingInv
 <2>3. \A d \in Connection : Covers(d, p, x) => Covers(d, p, x)'
   BY <1>2, <1>5, <2>1
 <2>4. \E d \in awaited'[c] : Covers(d, p, x)'
   BY <1>2, <2>2, <2>3
 <2>5. ASSUME drains'[c].open
       PROVE  x \in drains'[c].left \/ \E e \in drains'[c].dependencies : Covers(e, p, x)'
  <3>1. drains[c].open /\ drains'[c].dependencies = drains[c].dependencies
    BY <2>5 DEF DrainsGoOn
  <3>2. CASE x \in drains[c].left
    BY <1>5, <2>5, <3>2 DEF DrainsGoOn
  <3>3. CASE \E e \in drains[c].dependencies : Covers(e, p, x)
    BY <1>2, <2>3, <3>1, <3>3
  <3> QED BY <2>2, <3>1, <3>2, <3>3
 <2> QED BY <2>4, <2>5
<1> QED BY <1>4, <1>5

LEMMA OverKept ==
  ASSUME Core, StepFacts, RunningInv, AuthorizedInv, NamesInv, WebMove, OverInv,
         \A p \in over' : p \in over \/ (Gone(p) /\ \A x \in running : ident[x] # p)
  PROVE  OverInv'
<1>1. SUFFICES ASSUME NEW p \in over'
               PROVE  Gone(p)' /\ \A x \in running' : ident'[x] # p
  BY DEF OverInv
<1>2. Gone(p) /\ \A x \in running : ident[x] # p
  BY <1>1 DEF OverInv
<1>3. p \in Connection
  BY <1>2, AdmittedAre DEF Gone
<1>4. Gone(p)'
  BY <1>2, <1>3, GoneStays DEF Gone
<1> QED BY <1>2, <1>4, RunnersOfTheGone

\* The four steps that have to do with drains, but for the logout itself.
LEMMA StillRevokes ==
  ASSUME Core, StepFacts, RequestMove, Deep, Finals, WebMove, UNCHANGED revokes
  PROVE  CoveredInv' /\ RevokersInv' /\ EndingInv' /\ OverInv'
<1>1. /\ RunningInv /\ AuthorizedInv /\ NamesInv /\ CoveredInv /\ RevokersInv /\ EndingInv /\ OverInv
      /\ drains' = drains /\ awaited' = awaited /\ ending' = ending /\ over' = over
  BY DEF Deep, Finals, revokes
<1>2. DrainsGoOn
  BY <1>1 DEF DrainsGoOn
<1>3. CoveredInv'
  BY <1>1, <1>2, CoveredKept
<1>4. RevokersInv'
  BY <1>1 DEF RevokersInv, RequestMove
<1>5. \A d \in Connection : \A p \in Connection : \A x \in running : Covers(d, p, x) => Covers(d, p, x)'
  BY <1>1 DEF Covers
<1>6. EndingInv'
  BY <1>1, <1>2, <1>5, EndingKept
<1>7. OverInv'
  BY <1>1, OverKept
<1> QED BY <1>3, <1>4, <1>6, <1>7

LEMMA DrainClientRevokes ==
  ASSUME Core, StepFacts, RequestMove, Deep, Finals, WebMove, NEW d \in Connection, NEW x \in Connection, DrainClient(d, x)
  PROVE  CoveredInv' /\ RevokersInv' /\ EndingInv' /\ OverInv'
<1>1. /\ RunningInv /\ AuthorizedInv /\ NamesInv /\ CoveredInv /\ RevokersInv /\ EndingInv /\ OverInv
      /\ awaited' = awaited /\ ending' = ending /\ over' = over /\ running' = running /\ x \notin running
      /\ drains' = [drains EXCEPT ![d].left = @ \ {x}]
  BY DEF Deep, Finals, DrainClient, locks, Locked
<1>2. /\ drains'[d].left = drains[d].left \ {x} /\ drains'[d].open = drains[d].open
      /\ drains'[d].clients = drains[d].clients /\ drains'[d].dependencies = drains[d].dependencies
      /\ \A e \in Connection : e # d => drains'[e] = drains[e]
  BY <1>1, DrainsAreShaped DEF DrainShapes, DrainRecord
<1>3. DrainsGoOn
  BY <1>1, <1>2 DEF DrainsGoOn
<1>4. CoveredInv'
  BY <1>1, <1>3, CoveredKept
<1>5. RevokersInv'
  BY <1>1, <1>2 DEF RevokersInv, RequestMove
<1>6. \A e \in Connection : \A p \in Connection : \A y \in running : Covers(e, p, y) => Covers(e, p, y)'
  BY <1>1, <1>2 DEF Covers
<1>7. EndingInv'
  BY <1>1, <1>3, <1>6, EndingKept
<1>8. OverInv'
  BY <1>1, OverKept
<1> QED BY <1>4, <1>5, <1>7, <1>8

LEMMA DrainDoneRevokes ==
  ASSUME Core, StepFacts, RequestMove, Deep, Finals, WebMove, NEW d \in Connection, DrainDone(d)
  PROVE  CoveredInv' /\ RevokersInv' /\ EndingInv' /\ OverInv'
<1>1. /\ RunningInv /\ AuthorizedInv /\ NamesInv /\ CoveredInv /\ RevokersInv /\ EndingInv /\ OverInv
      /\ awaited' = awaited /\ ending' = ending /\ over' = over /\ running' = running /\ ident' = ident
      /\ drains' = [drains EXCEPT ![d] = NoDrain]
      /\ drains[d].left = {} /\ drains[d].open /\ \A e \in drains[d].dependencies : ~drains[e].open
  BY DEF Deep, Finals, DrainDone, locks, server
<1>2. drains'[d] = NoDrain /\ \A e \in Connection : e # d => drains'[e] = drains[e]
  BY <1>1, DrainsAreShaped DEF DrainShapes
<1>3. ~drains'[d].open /\ drains'[d].clients = {}
  BY <1>2 DEF NoDrain
<1>4. DrainsGoOn
  BY <1>1, <1>2, <1>3 DEF DrainsGoOn
<1>5. CoveredInv'
  BY <1>1, <1>4, CoveredKept
<1>6. RevokersInv'
  BY <1>1, <1>2, <1>3 DEF RevokersInv, RequestMove
<1>7. ASSUME NEW e \in Connection, NEW p \in Connection, NEW y \in running, ident[y] = p, Covers(e, p, y)
      PROVE  Covers(e, p, y)'
 <2>1. CASE e = d
  <3>1. p \in ending[d]
    BY <1>1, <1>7, <2>1 DEF Covers
  <3>2. \E f \in drains[d].dependencies : Covers(f, p, y)
    BY <1>1, <1>7, <3>1 DEF EndingInv
  <3> QED BY <1>1, <3>2 DEF Covers
 <2>2. CASE e # d
   BY <1>1, <1>2, <1>7, <2>2 DEF Covers
 <2> QED BY <2>1, <2>2
<1>8. EndingInv'
  BY <1>1, <1>4, <1>7, EndingKept
<1>9. OverInv'
  BY <1>1, OverKept
<1> QED BY <1>5, <1>6, <1>8, <1>9

LEMMA RevokeReturnsRevokes ==
  ASSUME Core, StepFacts, RequestMove, Deep, Finals, WebMove, NEW c \in Connection, RevokeReturns(c)
  PROVE  CoveredInv' /\ RevokersInv' /\ EndingInv' /\ OverInv'
<1>1. /\ RunningInv /\ AuthorizedInv /\ NamesInv /\ CoveredInv /\ RevokersInv /\ EndingInv /\ OverInv
      /\ drains' = drains /\ running' = running /\ ident' = ident
      /\ over' = over \cup ending[c] /\ ending' = [ending EXCEPT ![c] = {}]
      /\ awaited' = [awaited EXCEPT ![c] = {}] /\ \A d \in awaited[c] : ~drains[d].open
  BY DEF Deep, Finals, RevokeReturns, locks, server
<1>2. ending'[c] = {} /\ \A e \in Connection : e # c => ending'[e] = ending[e] /\ awaited'[e] = awaited[e]
  BY <1>1, DrainsAreShaped DEF DrainShapes
<1>3. ~drains[c].open
  BY <1>1 DEF RevokersInv
<1>4. DrainsGoOn
  BY <1>1 DEF DrainsGoOn
<1>5. CoveredInv'
  BY <1>1, <1>4, CoveredKept
<1>6. RevokersInv'
  BY <1>1, <1>2, <1>3 DEF RevokersInv, RequestMove
<1>7. \A e \in Connection : \A p \in Connection : \A y \in running : Covers(e, p, y) => Covers(e, p, y)'
  BY <1>1, <1>2, <1>3 DEF Covers
<1>8. EndingInv'
 <2>1. \A e \in Connection : ending'[e] \subseteq ending[e] /\ (ending'[e] # {} => awaited'[e] = awaited[e])
   BY <1>2
 <2> QED BY <1>1, <1>4, <1>7, <2>1, EndingKept
<1>9. ASSUME NEW p \in ending[c]
      PROVE  Gone(p) /\ \A x \in running : ident[x] # p
  BY <1>1 DEF EndingInv, Covers
<1>10. OverInv'
  BY <1>1, <1>9, OverKept
<1> QED BY <1>5, <1>6, <1>8, <1>10

-----------------------------------------------------------------------------
(* The logout itself.                                                      *)

\* Whom a token ends is its player.
LEMMA RevokedByPlayer ==
  ASSUME NEW cr \in Credentials, NEW A, Books(cr, A), NEW t \in TokenOrNone, RevokedBy(cr, t) # Nobody
  PROVE  t \in Token /\ RevokedBy(cr, t) = TokenPlayer(cr, t) /\ HasSession(cr, RevokedBy(cr, t))
<1>1. t # NoToken /\ t \in Token
  BY TokensOrNone DEF RevokedBy
<1>2. /\ cr.index[t] # Nobody => cr.index[t] = TokenPlayer(cr, t)
      /\ cr.alias[t] # Nobody => cr.alias[t] = TokenPlayer(cr, t)
  BY <1>1 DEF Books, IndexIsRight, AliasIsSpent
<1>3. PICK p : p = IF cr.index[t] # Nobody THEN cr.index[t] ELSE cr.alias[t]
  OBVIOUS
<1>4. RevokedBy(cr, t) = IF HasSession(cr, p) THEN p ELSE Nobody
  BY <1>1, <1>3 DEF RevokedBy
<1>5. HasSession(cr, p) /\ RevokedBy(cr, t) = p
  BY <1>4
<1>6. p # Nobody
  BY <1>5 DEF HasSession
<1> QED BY <1>1, <1>2, <1>3, <1>5, <1>6

\* Two sessions that are taken are gone.
LEMMA TakenAreGone ==
  ASSUME Core, NEW p \in ConnectionOrNone, NEW q \in ConnectionOrNone,
         NEW first, first = IF p = Nobody THEN cred ELSE Deleted(cred, p),
         NEW cr, cr = IF q = Nobody THEN first ELSE Deleted(first, q)
  PROVE  /\ first \in Credentials /\ Books(first, Admitted) /\ first.restored = cred.restored
         /\ \A x \in {p, q} \ {Nobody} : ~HasSession(cr, x)
<1>1. /\ first \in Credentials /\ Books(first, Admitted) /\ first.restored = cred.restored
      /\ p # Nobody => ~HasSession(first, p)
 <2>1. CASE p = Nobody
   BY <2>1 DEF Core
 <2>2. CASE p \in Connection
  <3>1. first = Deleted(cred, p)
    BY <2>2, ConnectionsAreNumbers
  <3>2. Ended(cred, first, p)
    BY <2>2, <3>1, DeletedTurn DEF Core
  <3> QED BY <2>2, <3>1, <3>2, DeletedShrinks, DeletedBooks DEF Core, Shrinks, Ended
 <2> QED BY <2>1, <2>2 DEF ConnectionOrNone
<1>2. CASE q = Nobody
  BY <1>1, <1>2
<1>3. CASE q \in Connection
 <2>1. cr = Deleted(first, q)
   BY <1>3, ConnectionsAreNumbers
 <2>2. \A x \in Connection : IF x = q THEN Ended(first, cr, x) ELSE Kept(first, cr, x)
   BY <1>1, <1>3, <2>1, DeletedTurn
 <2>3. ~HasSession(cr, q)
   BY <1>3, <2>2 DEF Ended
 <2>4. ASSUME p # Nobody, p # q
       PROVE  ~HasSession(cr, p)
  <3>1. Kept(first, cr, p)
    BY <2>2, <2>4 DEF ConnectionOrNone
  <3> QED BY <1>1, <2>4, <3>1 DEF Kept
 <2> QED BY <1>1, <2>3, <2>4
<1> QED BY <1>2, <1>3 DEF ConnectionOrNone

\* Whom a logout ends.
LEMMA WhomItEnds ==
  ASSUME Core, Deep, NoWindow, NEW c \in Connection, NEW p, NEW q, NEW first, NEW tickets, NEW whom, NEW gone, NEW credentials,
         RevokePlan(c, p, q, first, tickets, whom, gone, credentials)
  PROVE  \A x \in {p, q} \ {Nobody} : x \in Admitted /\ ~Asker(x) /\ ~HasSession(cred', x)
<1>1. PICK cr : cr = IF q = Nobody THEN first ELSE Deleted(first, q)
  OBVIOUS
<1>2. /\ p \in ConnectionOrNone /\ q \in ConnectionOrNone
      /\ p # Nobody => p = RevokedBy(cred, request[c].cookie)
      /\ q # Nobody => \E o \in Connection : q = RevokedBy(first, Own(o)) /\ seen[o] = NoToken
      /\ first = IF p = Nobody THEN cred ELSE Deleted(cred, p)
      /\ tickets \in SUBSET Token /\ \A u \in tickets : ticket[u] # "none"
      /\ gone = {u[1] : u \in tickets}
      /\ \A u \in tickets : request[c].cookie \in {u, seen[u[1]]} \/ (u = Own(u[1]) /\ seen[u[1]] = NoToken)
      /\ cred' = AllInvalidated(cr, gone)
  BY <1>1 DEF RevokePlan
<1>3. /\ first \in Credentials /\ Books(first, Admitted) /\ first.restored = cred.restored
      /\ \A x \in {p, q} \ {Nobody} : ~HasSession(cr, x)
  BY <1>1, <1>2, TakenAreGone
<1>4. cr \in Credentials /\ Books(cr, Admitted)
  BY <1>1, <1>2, RevokedTurn
<1>5. Alone(gone)
 <2>1. request[c].cookie \in TokenOrNone
   BY DEF Core, Shapes
 <2> QED BY <1>2, <2>1, RevokedAlone DEF Deep, RotatingInv
<1>6. gone \in SUBSET Connection
  BY <1>2, TokenFacts
<1>7. ASSUME NEW x \in {p, q} \ {Nobody}
      PROVE  ~HasSession(cred', x)
 <2>1. x \in Connection /\ ~HasSession(cr, x)
   BY <1>2, <1>3, <1>7 DEF ConnectionOrNone
 <2>2. \/ Kept(cr, cred', x)
       \/ \E d \in gone : TakenBack(cr, cred', x, d)
       \/ \E d \in gone : LeftOpen(cr, cred', x, d)
   BY <1>2, <1>4, <1>5, <1>6, <2>1, AllInvalidatedTurn
 <2> QED BY <2>1, <2>2 DEF Kept, TakenBack, LeftOpen
<1>8. ASSUME p # Nobody
      PROVE  p \in Admitted /\ ~Asker(p)
 <2>1. request[c].cookie \in TokenOrNone /\ request[c].cookie \in Shown
   BY ShownAre DEF Core, Shapes
 <2>2. request[c].cookie \in Token /\ p = TokenPlayer(cred, request[c].cookie) /\ HasSession(cred, p)
   BY <1>2, <1>8, <2>1, RevokedByPlayer DEF Core
 <2>3. ~Asker(p)
   BY <2>1, <2>2, TokenFacts DEF Deep, AskersInv
 <2>4. p \in Connection
   BY <1>2, <1>8 DEF ConnectionOrNone
 <2> QED BY <2>2, <2>3, <2>4 DEF Core, Books, SessionHasToken
<1>9. ASSUME q # Nobody
      PROVE  q \in Admitted /\ ~Asker(q)
 <2>1. PICK o \in Connection : q = RevokedBy(first, Own(o)) /\ seen[o] = NoToken
   BY <1>2, <1>9
 <2>2. Own(o) \in TokenOrNone /\ TokenPlayer(first, Own(o)) = o
   BY <2>1, TokenFacts DEF TokenPlayer, TokenOrNone
 <2>3. q = o /\ HasSession(first, q)
   BY <1>3, <1>9, <2>1, <2>2, RevokedByPlayer
 <2>4. ~Asker(q)
   BY <2>1, <2>3, HandlingFacts DEF HandlingOf
 <2> QED BY <1>3, <2>3, <2>4 DEF Books, SessionHasToken
<1> QED BY <1>7, <1>8, <1>9

\* Whom it concerns, who runs commands of those included.
LEMMA WhomItConcerns ==
  ASSUME Core, Deep, NoWindow, NEW ended \in SUBSET Connection,
         \A p \in ended : p \in Admitted /\ ~Asker(p),
         NEW whom, whom = UNION {Concerned(p) : p \in ended}
  PROVE  /\ \A x \in whom : x \in Connection /\ x \in Admitted /\ ~Asker(x) /\ ident[x] \in ended
         /\ \A x \in running : ident[x] \in ended => x \in whom
<1>1. ASSUME NEW p \in ended, NEW x \in Concerned(p)
      PROVE  x \in Connection /\ x \in Admitted /\ ident[x] = p
 <2>1. CASE x = clients[p] /\ x # Nobody
   BY <2>1, ClientFacts DEF Deep
 <2>2. CASE x \in retired /\ ident[x] = p
  <3>1. x \in Connection /\ p # Nobody
    BY <2>2, ConnectionsAreNumbers DEF Core, Shapes
  <3> QED BY <2>2, <3>1 DEF Admitted
 <2> QED BY <1>1, <2>1, <2>2 DEF Concerned
<1>2. ASSUME NEW p \in ended, NEW x \in Concerned(p)
      PROVE  ~Asker(x)
 <2>1. SUFFICES ASSUME Asker(x) PROVE FALSE
   OBVIOUS
 <2>2. ident[x] = x
   BY <1>1, <1>2, <2>1, AskerFacts DEF NoWindow
 <2>3. x = p
   BY <1>1, <1>2, <2>2
 <2> QED BY <2>1, <2>3
<1>3. ASSUME NEW x \in running, ident[x] \in ended
      PROVE  x \in whom
 <2>1. clients[ident[x]] = x /\ x # Nobody
   BY <1>3, ConnectionsAreNumbers DEF Deep, RunningInv, Registered, Core, Shapes
 <2>2. x \in Concerned(ident[x])
   BY <2>1 DEF Concerned
 <2> QED BY <1>3, <2>2
<1> QED BY <1>1, <1>2, <1>3

\* What registering a drain does.
Registers(c, ended, whom, work, uncovered) ==
  /\ work \subseteq Connection /\ \A d \in work : drains[d].open
  /\ uncovered \subseteq whom /\ \A x \in whom : x \in uncovered \/ \E d \in work : x \in drains[d].clients
  /\ ending'[c] = ended \cup UNION {ending[d] : d \in work}
  /\ \A e \in Connection : e # c => ending'[e] = ending[e] /\ awaited'[e] = awaited[e] /\ drains'[e] = drains[e]
  /\ \/ drains' = drains /\ uncovered = {} /\ awaited'[c] = work
     \/ /\ drains'[c].clients = uncovered /\ drains'[c].left = uncovered /\ drains'[c].open
        /\ drains'[c].dependencies = work /\ awaited'[c] = work \cup {c}

LEMMA RegisterIs ==
  ASSUME Core, NEW c \in Connection, NEW ended, NEW whom, NEW credentials, RegisterDrain(c, ended, whom, credentials)
  PROVE  \E work, uncovered : Registers(c, ended, whom, work, uncovered)
<1> DEFINE work == WorkOn(credentials)
           uncovered == whom \ UNION { drains[d].clients : d \in work }
           unmapped == { t \in credentials : Draining(t) = {} }
           needed == uncovered # {} \/ (work # {} /\ unmapped # {})
<1>0. DrainShapes
  BY DrainsAreShaped
<1>1. work \subseteq Connection /\ \A d \in work : drains[d].open
  BY DEF WorkOn, Draining
<1>2. uncovered \subseteq whom /\ \A x \in whom : x \in uncovered \/ \E d \in work : x \in drains[d].clients
  OBVIOUS
<1>3. /\ ending' = [ending EXCEPT ![c] = ended \cup UNION { ending[d] : d \in work }]
      /\ awaited' = [awaited EXCEPT ![c] = WaitsFor(c, work, needed)]
      /\ needed => drains' = [drains EXCEPT ![c] =
                 [ clients |-> uncovered, left |-> uncovered, credentials |-> unmapped,
                   dependencies |-> work, open |-> TRUE ]]
      /\ ~needed => drains' = drains
  BY DEF RegisterDrain
<1>4. uncovered # {} => needed
  OBVIOUS
<1>5. needed \in BOOLEAN
  OBVIOUS
<1> HIDE DEF work, uncovered, unmapped, needed
<1>6. /\ ending'[c] = ended \cup UNION {ending[d] : d \in work}
      /\ \A e \in Connection : e # c => ending'[e] = ending[e] /\ awaited'[e] = awaited[e]
      /\ awaited'[c] = WaitsFor(c, work, needed)
  BY <1>0, <1>3 DEF DrainShapes
<1>7. CASE needed
 <2>1. /\ drains'[c].clients = uncovered /\ drains'[c].left = uncovered /\ drains'[c].open
       /\ drains'[c].dependencies = work /\ \A e \in Connection : e # c => drains'[e] = drains[e]
   BY <1>0, <1>3, <1>7 DEF DrainShapes
 <2>2. awaited'[c] = work \cup {c}
   BY <1>6, <1>7 DEF WaitsFor
 <2>3. Registers(c, ended, whom, work, uncovered)
   BY <1>1, <1>2, <1>6, <2>1, <2>2 DEF Registers
 <2> QED BY <2>3
<1>8. CASE ~needed
 <2>1. drains' = drains /\ uncovered = {}
   BY <1>3, <1>4, <1>8
 <2>2. awaited'[c] = work
   BY <1>6, <1>8 DEF WaitsFor
 <2>3. Registers(c, ended, whom, work, uncovered)
   BY <1>1, <1>2, <1>6, <2>1, <2>2 DEF Registers
 <2> QED BY <2>3
<1> QED BY <1>7, <1>8

-----------------------------------------------------------------------------
(* After a logout.                                                         *)

LEMMA ServeRevokeRevokes ==
  ASSUME Core, StepFacts, RequestMove, Deep, Finals, WebMove, NEW c \in Connection, ServeRevoke(c)
  PROVE  CoveredInv' /\ RevokersInv' /\ EndingInv' /\ OverInv'
<1>0. /\ NoWindow /\ UNCHANGED << clients, ident, running, over >> /\ request[c].what = "revoke"
      /\ request' = [request EXCEPT ![c].what = "revoking"]
 <2>1. Free
   BY DEF ServeRevoke
 <2> QED BY <2>1, FreeHasNoWindow DEF ServeRevoke, locks, Asks
<1>1. /\ RunningInv /\ AuthorizedInv /\ NamesInv /\ CoveredInv /\ RevokersInv /\ EndingInv /\ OverInv
      /\ DrainShapes
  BY DrainsAreShaped DEF Deep, Finals
<1>2. PICK p, q, first, tickets, whom, gone, credentials :
        RevokePlan(c, p, q, first, tickets, whom, gone, credentials)
  BY RevokePlans
<1>3. PICK ended : ended = {p, q} \ {Nobody}
  OBVIOUS
<1>4. /\ ended \in SUBSET Connection /\ whom = UNION {Concerned(x) : x \in ended}
      /\ RegisterDrain(c, ended, whom, credentials)
  BY <1>2, <1>3 DEF RevokePlan, ConnectionOrNone
<1>5. \A x \in ended : x \in Admitted /\ ~Asker(x) /\ ~HasSession(cred', x)
  BY <1>0, <1>2, <1>3, WhomItEnds
<1>6. /\ \A x \in whom : x \in Connection /\ x \in Admitted /\ ~Asker(x) /\ ident[x] \in ended
      /\ \A x \in running : ident[x] \in ended => x \in whom
  BY <1>0, <1>4, <1>5, WhomItConcerns
<1>7. PICK work, uncovered : Registers(c, ended, whom, work, uncovered)
  BY <1>4, RegisterIs
<1>8. ~drains[c].open /\ ending[c] = {}
  BY <1>0, <1>1 DEF RevokersInv, Revokers
<1>9. c \notin work /\ work \subseteq Connection
  BY <1>7, <1>8 DEF Registers
<1>10. \A e \in Connection : e # c => ending'[e] = ending[e] /\ awaited'[e] = awaited[e] /\ drains'[e] = drains[e]
  BY <1>7 DEF Registers
<1>11. ASSUME NEW x \in Connection, x \in Admitted, ~Asker(x), ~HasSession(cred, ident[x]) \/ ident[x] \in ended
       PROVE  x \in Admitted' /\ NotAsking(x) /\ ~HasSession(cred', ident'[x])
 <2>1. x \in Admitted' /\ NotAsking(x)
   BY <1>11, IdentStays, StillNotAsking
 <2>2. ident'[x] = ident[x]
   BY <1>0
 <2>3. CASE ident[x] \in ended
   BY <1>5, <2>1, <2>2, <2>3
 <2>4. CASE ~HasSession(cred, ident[x])
   BY <1>11, <2>1, <2>2, <2>4, IdentAdmitted, GoneStays DEF Gone
 <2> QED BY <1>11, <2>3, <2>4
<1>12. CoveredInv'
 <2>1. SUFFICES ASSUME NEW d \in Connection, NEW x \in drains'[d].clients
                PROVE  /\ x \in Admitted' /\ NotAsking(x) /\ ~HasSession(cred', ident'[x])
                       /\ x \in drains'[d].left \/ x \notin running'
   BY DEF CoveredInv, Asker, NotAsking
 <2>2. CASE drains'[d] = drains[d]
  <3>1. /\ x \in Admitted /\ ~Asker(x) /\ ~HasSession(cred, ident[x])
        /\ x \in drains[d].left \/ x \notin running
    BY <1>1, <2>1, <2>2 DEF CoveredInv
  <3> QED BY <1>0, <1>11, <2>2, <3>1, AdmittedAre
 <2>3. CASE d = c /\ drains'[c].clients = uncovered /\ drains'[c].left = uncovered
  <3>1. x \in whom
    BY <1>7, <2>1, <2>3 DEF Registers
  <3> QED BY <1>6, <1>11, <2>1, <2>3, <3>1
 <2> QED BY <1>7, <2>2, <2>3 DEF Registers
<1>13. RevokersInv'
 <2>1. request'[c].what = "revoking"
   BY <1>0 DEF Core, Shapes
 <2>2. drains'[c].open => c \in awaited'[c]
   BY <1>7, <1>8 DEF Registers
 <2> QED BY <1>1, <1>10, <2>1, <2>2 DEF RevokersInv, RequestMove, Revokers
<1>14. ASSUME NEW d \in Connection, NEW r, NEW x, Covers(d, r, x)
       PROVE  Covers(d, r, x)' /\ d # c
  BY <1>8, <1>10, <1>14 DEF Covers
<1>15. EndingInv'
 <2>1. SUFFICES ASSUME NEW e \in Connection, NEW r \in ending'[e]
                PROVE  /\ Gone(r)'
                       /\ \A x \in running' : ident'[x] = r =>
                            /\ \E d \in awaited'[e] : Covers(d, r, x)'
                            /\ drains'[e].open => \/ x \in drains'[e].left
                                                  \/ \E d \in drains'[e].dependencies : Covers(d, r, x)'
   BY DEF EndingInv
 <2>2. CASE e # c
  <3>1. r \in ending[e] /\ awaited'[e] = awaited[e] /\ drains'[e] = drains[e]
    BY <1>10, <2>1, <2>2
  <3>2. /\ awaited[e] \subseteq Connection /\ drains[e].dependencies \subseteq Connection
        /\ r \in Connection
    BY <1>1, <3>1 DEF DrainShapes, DrainRecord
  <3>3. Gone(r)
    BY <1>1, <3>1 DEF EndingInv
  <3>4. Gone(r)'
    BY <3>2, <3>3, GoneStays DEF Gone
  <3>5. ASSUME NEW x \in running, ident[x] = r
        PROVE  /\ \E d \in awaited[e] : Covers(d, r, x)'
               /\ drains[e].open => \/ x \in drains[e].left
                                    \/ \E d \in drains[e].dependencies : Covers(d, r, x)'
   <4>1. /\ \E d \in awaited[e] : Covers(d, r, x)
         /\ drains[e].open => x \in drains[e].left \/ \E d \in drains[e].dependencies : Covers(d, r, x)
     BY <1>1, <3>1, <3>5 DEF EndingInv
   <4>2. \A d \in Connection : Covers(d, r, x) => Covers(d, r, x)'
     BY <1>14
   <4> QED BY <3>2, <4>1, <4>2
  <3> QED BY <1>0, <3>1, <3>4, <3>5
 <2>3. CASE e = c
  <3>1. r \in ended \/ \E d \in work : r \in ending[d]
    BY <1>7, <2>1, <2>3 DEF Registers
  <3>2. work \subseteq awaited'[c] /\ (drains'[c].open => drains'[c].dependencies = work)
    BY <1>7, <1>8 DEF Registers
  <3>3. CASE \E d \in work : r \in ending[d]
   <4>1. PICK d \in work : r \in ending[d]
     BY <3>3
   <4>2. d \in Connection /\ drains[d].open /\ r \in Connection
     BY <1>1, <1>7, <1>9, <4>1 DEF Registers, DrainShapes
   <4>3. Gone(r)
     BY <1>1, <4>1, <4>2 DEF EndingInv
   <4>4. Gone(r)'
     BY <4>2, <4>3, GoneStays DEF Gone
   <4>5. \A x \in running' : Covers(d, r, x)'
     BY <1>14, <4>1, <4>2 DEF Covers
   <4> QED BY <2>3, <3>2, <4>1, <4>4, <4>5
  <3>4. CASE r \in ended
   <4>1. Gone(r)'
    <5>1. r \in Admitted /\ ~HasSession(cred', r)
      BY <1>5, <3>4
    <5>2. r \in Admitted'
      BY <5>1 DEF StepFacts, CredMove
    <5> QED BY <5>1, <5>2 DEF Gone
   <4>2. ASSUME NEW x \in running', ident'[x] = r
         PROVE  /\ \E d \in awaited'[c] : Covers(d, r, x)'
                /\ drains'[c].open => \/ x \in drains'[c].left
                                      \/ \E d \in drains'[c].dependencies : Covers(d, r, x)'
    <5>1. x \in running /\ x \in whom
      BY <1>0, <1>6, <3>4, <4>2
    <5>2. CASE x \in uncovered
     <6>1. /\ drains'[c].left = uncovered /\ drains'[c].open /\ c \in awaited'[c]
       BY <1>7, <5>2 DEF Registers
     <6>2. Covers(c, r, x)'
       BY <5>2, <6>1 DEF Covers
     <6> QED BY <5>2, <6>1, <6>2
    <5>3. CASE \E d \in work : x \in drains[d].clients
     <6>1. PICK d \in work : x \in drains[d].clients
       BY <5>3
     <6>2. d \in Connection /\ drains[d].open
       BY <1>7, <1>9, <6>1 DEF Registers
     <6>3. x \in drains[d].left
       BY <1>1, <5>1, <6>1, <6>2 DEF CoveredInv
     <6>4. Covers(d, r, x)'
       BY <1>14, <6>2, <6>3 DEF Covers
     <6> QED BY <3>2, <6>1, <6>4
    <5> QED BY <1>7, <5>1, <5>2, <5>3 DEF Registers
   <4> QED BY <2>3, <4>1, <4>2
  <3> QED BY <3>1, <3>3, <3>4
 <2> QED BY <2>2, <2>3
<1>16. OverInv'
  BY <1>0, <1>1, OverKept DEF OverInv
<1> QED BY <1>12, <1>13, <1>15, <1>16

LEMMA FinalsKept ==
  ASSUME Core, Core', StepFacts, RequestMove, RevokesMove, Deep, Deep', Finals, WebMove
  PROVE  Finals'
<1>1. BackInv'
  BY BackKept DEF Deep, Finals
<1>2. NamesInv'
  BY NamesKept DEF Deep, Finals
<1>3. CoveredInv' /\ RevokersInv' /\ EndingInv' /\ OverInv'
  BY StillRevokes, DrainClientRevokes, DrainDoneRevokes, RevokeReturnsRevokes, ServeRevokeRevokes
     DEF RevokesMove
<1> QED BY <1>1, <1>2, <1>3 DEF Finals

LEMMA FinalsInit ==
  ASSUME ReconnectInit
  PROVE  Finals /\ Stays
<1>1. /\ drains = [c \in Connection |-> NoDrain] /\ awaited = [c \in Connection |-> {}]
      /\ ending = [c \in Connection |-> {}] /\ over = {} /\ request = [c \in Connection |-> NoRequest]
      /\ ident = [p \in Connection |-> Nobody] /\ authorized = [c \in Connection |-> NoToken] /\ running = {}
  BY DEF ReconnectInit
<1>2. \A c \in Connection : drains[c].clients = {} /\ ~drains[c].open /\ ending[c] = {} /\ request[c].what = "none"
  BY <1>1 DEF NoDrain, NoRequest
<1>3. BackInv /\ NamesInv
  BY <1>1, ConnectionsAreNumbers DEF BackInv, NamesInv
<1>4. CoveredInv /\ RevokersInv /\ EndingInv /\ OverInv
  BY <1>1, <1>2 DEF CoveredInv, RevokersInv, EndingInv, OverInv
<1> QED BY <1>1, <1>2, <1>3, <1>4 DEF Finals, Stays

LEMMA StaysKept ==
  ASSUME Core, ~Web, Stays, RequestMove, RevokesMove
  PROVE  Stays'
<1>1. \A c \in Connection : request'[c].what # "revoke"
  BY DEF Stays, RequestMove
<1>2. CASE UNCHANGED revokes
  BY <1>1, <1>2 DEF Stays, revokes
<1>3. ASSUME NEW c \in Connection, ServeRevoke(c)
      PROVE  FALSE
  BY <1>3 DEF Stays, ServeRevoke, Asks
<1>4. ASSUME NEW c \in Connection, NEW x \in Connection, DrainClient(c, x)
      PROVE  Stays'
  BY <1>1, <1>4 DEF Stays, DrainClient
<1>5. ASSUME NEW c \in Connection, DrainDone(c)
      PROVE  Stays'
  BY <1>1, <1>5 DEF Stays, DrainDone
<1>6. ASSUME NEW c \in Connection, RevokeReturns(c)
      PROVE  Stays'
 <2>1. over' = over \cup ending[c] /\ ending' = [ending EXCEPT ![c] = {}]
   BY <1>6 DEF RevokeReturns
 <2>2. over' = {}
   BY <2>1 DEF Stays
 <2>3. \A d \in Connection : ending'[d] = {}
   BY <2>1, DrainsAreShaped DEF Stays, DrainShapes
 <2> QED BY <1>1, <2>2, <2>3 DEF Stays
<1> QED BY <1>2, <1>3, <1>4, <1>5, <1>6 DEF RevokesMove

Endings == (Web => Finals) /\ (~Web => Stays)

LEMMA EndingsKept ==
  ASSUME Core, Kinds, Endings, [ReconnectNext]_reconnectVars
  PROVE  Endings'
<1>1. Core' /\ StepFacts /\ Kinds' /\ RequestMove /\ RevokesMove
  BY CoreKept, EveryStepFacts, KindsKept, RequestsGoOn, RevokesGoOn
<1>2. scene' = scene
  BY <1>1 DEF StepFacts
<1>3. CASE Web
 <2>1. Web'
   BY <1>2, <1>3 DEF Web
 <2>2. Deep /\ Deep' /\ Finals
   BY <1>1, <1>3, <2>1 DEF Kinds, Endings
 <2>3. WebMove
   BY <1>3, <2>2, EveryWebStep
 <2>4. Finals'
   BY <1>1, <2>2, <2>3, FinalsKept
 <2> QED BY <2>1, <2>4 DEF Endings
<1>4. CASE ~Web
 <2>1. ~Web' /\ Stays'
   BY <1>1, <1>2, <1>4, StaysKept DEF Web, Endings
 <2> QED BY <2>1 DEF Endings
<1> QED BY <1>3, <1>4

LEMMA FinalThen ==
  ASSUME Endings
  PROVE  RevokeIsFinal
<1>1. CASE Web
  BY <1>1 DEF Endings, Finals, OverInv, Gone, RevokeIsFinal
<1>2. CASE ~Web
  BY <1>2 DEF Endings, Stays, RevokeIsFinal
<1> QED BY <1>1, <1>2

LEMMA EndingsAlways == ReconnectSpec => [](Core /\ Kinds /\ Endings)
<1>1. ReconnectInit => Core /\ Kinds /\ Endings
  BY CoreInit, DeepInit, FinalsInit DEF Kinds, Endings, ReconnectInit
<1>2. Core /\ Kinds /\ Endings /\ [ReconnectNext]_reconnectVars => (Core /\ Kinds /\ Endings)'
  BY CoreKept, KindsKept, EndingsKept
<1> QED BY <1>1, <1>2, PTL DEF ReconnectSpec

\* After a logout has returned, whoever it ended has no session, and nothing
\* that the player's connections had begun still runs, whether they were
\* registered, replaced by a reconnect, or drained by another logout
\* (buildBrowserRevokePlan, registerBrowserRevokeDrains, completeBrowserRevokeDrain).
THEOREM LogoutsAreFinal == ReconnectSpec => []RevokeIsFinal
<1>1. Core /\ Kinds /\ Endings => RevokeIsFinal
  BY FinalThen
<1> QED BY <1>1, EndingsAlways, PTL

-----------------------------------------------------------------------------
(* The tokens that a device may hold.                                      *)

\* The session of p matters, or will once its rotation is taken back.
Counts(cr, p) == HasSession(cr, p) /\ (Valid(cr, p) \/ cr.rotation[p].by # Nobody)
\* A browser's tokens belong to the rotation that is open, or are the last one.
HeldInv ==
  \A p \in Connection : \A t \in held[p] :
    /\ t \in Token /\ Drawn(cred, Admitted, t) /\ TokenPlayer(cred, t) = p /\ ticket[t] # "issued"
    /\ Counts(cred, p) => t \in Lineage(cred, p)
\* A terminal client's token is the session's, or the one to be put back; the
\* one that replaces it is not told before its handler is done, and nothing is
\* ever asked over HTTP.
TerminalHeld ==
  \A p \in Connection : \A t \in held[p] :
    /\ t \in Token /\ Drawn(cred, Admitted, t) /\ TokenPlayer(cred, t) = p
    /\ Usable(cred, p) => \/ t = cred.session[p].token
                          \/ \E c \in Connection : Window(c) /\ cred.restored[c].player = p /\ seen[c] = t
TerminalWindows ==
  \A c \in Connection : Window(c) =>
    /\ cred.session[cred.restored[c].player].token = New(c)
    /\ New(c) \notin held[cred.restored[c].player]
PageWords == {"ticket", "commit", "committed", "refresh", "revoke"}
Pageless == \A c \in Connection : request[c].what \notin PageWords
TerminalInv == TerminalHeld /\ TerminalWindows /\ Pageless
Holdings == (Web => HeldInv) /\ (~Web => TerminalInv)

\* The rotation of p is settled, or opened anew.
Resettles(p) ==
  /\ cred.rotation[p].by # Nobody
  /\ \/ \E t \in Token : SettledFor(cred, cred', p, t) /\ Usable(cred', p)
     \/ \E c \in Connection : Reborn(p, c)
FirstHeld(p, t) == t \in Token /\ Drawn(cred', Admitted', t) /\ TokenPlayer(cred', t) = p /\ ticket'[t] # "issued"
\* A token that a device may hold from now on belongs to its player's session,
\* and when a rotation is settled, that token is the only one.
HeldMove ==
  \A p \in Connection : \A t \in held'[p] :
    /\ t \in held[p] \/ FirstHeld(p, t)
    /\ Counts(cred', p) => t \in Lineage(cred', p) \/ (t \in held[p] /\ ~Resettles(p))

\* Which tokens are of p's session and rotation.
LEMMA LineageIs ==
  ASSUME NEW cr \in Credentials, NEW p \in Connection, NEW t
  PROVE  t \in Lineage(cr, p) <=>
           \/ t = cr.session[p].token
           \/ cr.rotation[p].by # Nobody /\ t \in {cr.restored[cr.rotation[p].by].previous, New(cr.rotation[p].by)}
<1>1. PICK by : by = cr.rotation[p].by
  OBVIOUS
<1>2. Lineage(cr, p) = {cr.session[p].token} \cup (IF by = Nobody THEN {} ELSE {cr.restored[by].previous, New(by)})
  BY <1>1 DEF Lineage
<1>3. CASE by = Nobody
  BY <1>1, <1>2, <1>3
<1>4. CASE by # Nobody
  BY <1>1, <1>2, <1>4
<1> QED BY <1>3, <1>4

LEMMA LineageStays ==
  ASSUME Core, StepFacts, NEW p \in Connection,
         cred'.rotation[p].by = cred.rotation[p].by, cred'.session[p].token = cred.session[p].token
  PROVE  \A t : t \in Lineage(cred, p) => t \in Lineage(cred', p)
<1>1. cred \in Credentials /\ cred' \in Credentials
  BY DEF Core, StepFacts, CredMove
<1>2. CASE cred.rotation[p].by = Nobody
  BY <1>1, <1>2, LineageIs
<1>3. CASE cred.rotation[p].by # Nobody
 <2>1. /\ cred.rotation[p].by \in Connection /\ cred.restored[cred.rotation[p].by].player = p /\ p # Nobody
   BY <1>3, RotationForm, ConnectionsAreNumbers
 <2>2. cred'.restored[cred.rotation[p].by] = cred.restored[cred.rotation[p].by]
   BY <2>1 DEF StepFacts, CredMove
 <2> QED BY <1>1, <2>2, LineageIs
<1> QED BY <1>2, <1>3

\* A token that was told to the device is not waiting to be told again.
LEMMA UnissuedStays ==
  ASSUME Core, StepFacts, NEW t, Drawn(cred, Admitted, t), ticket[t] # "issued"
  PROVE  ticket'[t] # "issued"
<1>1. t \in Token
  BY NotDrawnYet
<1>2. ~TicketOpens(t)
 <2>1. SUFFICES ASSUME TicketOpens(t) PROVE FALSE
   OBVIOUS
 <2>2. t[1] \in Connection
   BY <1>1, TokenFacts
 <2>3. CASE t = Own(t[1]) /\ doing[t[1]] = "upgraded"
  <3>1. t[1] \in Admitted
    BY NotDrawnYet
  <3> QED BY <2>2, <2>3, <3>1, HandlingFacts DEF HandlingOf, Admitted
 <2>4. CASE t = New(t[1]) /\ doing[t[1]] = "restoring"
  <3>1. cred.restored[t[1]].player # Nobody
    BY <2>2, <2>4, TokenFacts DEF Drawn
  <3> QED BY <2>2, <2>4, <3>1, HandlingFacts DEF HandlingOf
 <2> QED BY <2>1, <2>3, <2>4 DEF TicketOpens
<1>3. ticket'[t] \in {ticket[t], "none"} \/ TicketCommits(t)
  BY <1>1, <1>2 DEF StepFacts, TicketMove
<1> QED BY <1>3 DEF TicketCommits

LEMMA HeldKept ==
  ASSUME Core, Core', StepFacts, WebMove, HeldInv, HeldMove
  PROVE  HeldInv'
<1>0. /\ held' \in [Connection -> SUBSET Token] /\ cred \in Credentials /\ cred' \in Credentials
  BY DEF StepFacts, Shapes, Core, CredMove
<1>1. SUFFICES ASSUME NEW p \in Connection, NEW t \in held'[p]
               PROVE  /\ t \in Token /\ Drawn(cred', Admitted', t) /\ TokenPlayer(cred', t) = p /\ ticket'[t] # "issued"
                      /\ Counts(cred', p) => t \in Lineage(cred', p)
  BY DEF HeldInv
<1>2. ASSUME t \in held[p]
      PROVE  /\ t \in Token /\ Drawn(cred, Admitted, t) /\ TokenPlayer(cred, t) = p /\ ticket[t] # "issued"
             /\ Counts(cred, p) => t \in Lineage(cred, p)
  BY <1>2 DEF HeldInv
<1>3. t \in Token /\ Drawn(cred', Admitted', t) /\ TokenPlayer(cred', t) = p /\ ticket'[t] # "issued"
 <2>1. CASE FirstHeld(p, t)
   BY <2>1 DEF FirstHeld
 <2>2. CASE t \in held[p]
  <3>1. t \in Token /\ Drawn(cred', Admitted', t) /\ TokenPlayer(cred', t) = p
    BY <1>2, <2>2, DrawnStays
  <3>2. ticket'[t] # "issued"
    BY <1>2, <2>2, UnissuedStays
  <3> QED BY <3>1, <3>2
 <2> QED BY <1>1, <2>1, <2>2 DEF HeldMove
<1>4. ASSUME Counts(cred', p)
      PROVE  t \in Lineage(cred', p)
 <2>1. SUFFICES ASSUME t \in held[p], ~Resettles(p)
                PROVE  t \in Lineage(cred', p)
   BY <1>1, <1>4 DEF HeldMove
 <2>2. Turn(p)
   BY DEF WebMove, Turns
 <2>3. HasSession(cred', p) /\ (Valid(cred', p) \/ cred'.rotation[p].by # Nobody)
   BY <1>4 DEF Counts
 <2>4. ASSUME Counts(cred, p), cred'.rotation[p].by = cred.rotation[p].by, cred'.session[p].token = cred.session[p].token
       PROVE  t \in Lineage(cred', p)
   BY <1>2, <2>1, <2>4, LineageStays
 <2>5. CASE Kept(cred, cred', p)
  <3>1. Counts(cred, p)
    BY <2>3, <2>5 DEF Kept, Counts, Usable
  <3> QED BY <2>4, <2>5, <3>1 DEF Kept
 <2>6. CASE Ended(cred, cred', p)
   BY <2>3, <2>6 DEF Ended
 <2>7. ASSUME NEW u \in Token, SettledFor(cred, cred', p, u)
       PROVE  FALSE
  <3>1. cred.rotation[p].by # Nobody /\ cred'.rotation[p].by = Nobody
    BY <2>7 DEF SettledFor, NoRotation
  <3> QED BY <2>1, <2>3, <2>7, <3>1 DEF Resettles, Usable
 <2>8. ASSUME NEW c \in closed', ticket[New(c)] = "issued", TakenBack(cred, cred', p, c)
       PROVE  t \in Lineage(cred', p)
  <3>1. /\ cred.rotation[p].by = c /\ HasSession(cred, p) /\ cred'.session[p].token = cred.restored[c].previous
    BY <2>8 DEF TakenBack
  <3>2. c \in Connection
    BY <2>8 DEF StepFacts, Shapes
  <3>3. c # Nobody
    BY <3>2, ConnectionsAreNumbers
  <3>4. cred.session[p].token = New(c)
    BY <3>1, <3>3, RotationForm
  <3>5. t \in Lineage(cred, p) /\ ticket[t] # "issued"
    BY <1>2, <2>1, <3>1, <3>3 DEF Counts
  <3>6. t = cred.restored[c].previous
    BY <1>0, <2>8, <3>1, <3>4, <3>5, LineageIs
  <3> QED BY <1>0, <3>1, <3>6, LineageIs
 <2>9. ASSUME NEW c \in closed', LeftOpen(cred, cred', p, c)
       PROVE  t \in Lineage(cred', p)
  <3>1. /\ cred.rotation[p].by = c /\ cred'.rotation[p].by = c /\ HasSession(cred, p)
        /\ cred'.session[p].token = cred.session[p].token
    BY <2>9 DEF LeftOpen
  <3>2. c \in Connection
    BY <2>9 DEF StepFacts, Shapes
  <3>3. Counts(cred, p)
    BY <3>1, <3>2, ConnectionsAreNumbers DEF Counts
  <3> QED BY <2>4, <3>1, <3>3
 <2>10. CASE Begun(p)
  <3>1. p \in Admitted
    BY <1>2, <2>1, NotDrawnYet
  <3> QED BY <2>10, <3>1 DEF Begun
 <2>11. ASSUME NEW c \in Connection, Reborn(p, c)
        PROVE  t \in Lineage(cred', p)
  <3>1. cred.rotation[p].by = Nobody
    BY <2>1, <2>11 DEF Resettles
  <3>2. /\ doing[c] = "restoring" /\ cred'.restored[c].player = p /\ p # Nobody
        /\ cred.session[p].token = seen[c] \/ cred.rotation[p].orphaned
        /\ Usable(cred, p) /\ cred'.rotation[p].by = c
    BY <2>11, ConnectionsAreNumbers DEF Reborn
  <3>3. cred.session[p].token = seen[c]
    BY <3>1, <3>2, RotationForm DEF NoRotation
  <3>4. t = seen[c]
    BY <1>0, <1>2, <2>1, <3>1, <3>2, <3>3, LineageIs DEF Counts, Usable
  <3>5. cred'.restored[c].previous = seen'[c]
    BY <3>2 DEF StepFacts, Handling, HandlingOf
  <3>6. seen'[c] = seen[c]
    BY <3>2 DEF StepFacts, ShownMove
  <3> QED BY <1>0, <3>2, <3>4, <3>5, <3>6, ConnectionsAreNumbers, LineageIs
 <2> QED BY <2>2, <2>5, <2>6, <2>7, <2>8, <2>9, <2>10, <2>11 DEF Turn
<1> QED BY <1>3, <1>4

-----------------------------------------------------------------------------
(* What a browser may hold after each step of its server.                  *)

\* Nothing is settled or opened anew for p.
Mild(p) ==
  \/ Kept(cred, cred', p) \/ Ended(cred, cred', p)
  \/ \E c \in Connection : TakenBack(cred, cred', p, c)
  \/ \E c \in Connection : LeftOpen(cred, cred', p, c)

LEMMA MildIs ==
  ASSUME Core, NEW p \in Connection, Mild(p),
         \A c \in Connection : cred.restored[c].player = Nobody => cred'.restored[c].player # p
  PROVE  ~Resettles(p)
<1>1. SUFFICES ASSUME cred.rotation[p].by # Nobody, Resettles(p)
               PROVE  FALSE
  BY DEF Resettles
<1>2. ~(\E c \in Connection : Reborn(p, c))
  BY DEF Reborn
<1>3. PICK t \in Token : SettledFor(cred, cred', p, t) /\ Usable(cred', p)
  BY <1>1, <1>2 DEF Resettles
<1>4. /\ cred'.rotation[p] = NoRotation /\ HasSession(cred', p) /\ cred'.session[p].token = t
      /\ \/ t = New(cred.rotation[p].by)
         \/ t = cred.restored[cred.rotation[p].by].previous /\ cred.rotation[p].orphaned
  BY <1>3 DEF SettledFor
<1>5. NoRotation.by = Nobody
  BY DEF NoRotation
<1>6. CASE Kept(cred, cred', p)
  BY <1>1, <1>4, <1>5, <1>6 DEF Kept
<1>7. CASE Ended(cred, cred', p)
  BY <1>4, <1>7 DEF Ended
<1>8. ASSUME NEW c \in Connection, TakenBack(cred, cred', p, c)
      PROVE  FALSE
 <2>1. /\ cred.restored[c].player = p /\ cred.rotation[p].by = c /\ ~cred.rotation[p].orphaned
       /\ cred'.session[p].token = cred.restored[c].previous
   BY <1>8 DEF TakenBack
 <2>2. cred.restored[c].player # Nobody
   BY <2>1, ConnectionsAreNumbers
 <2>3. cred.restored[c].previous[1] # c
   BY <2>2, RestoreFacts DEF Core, Books
 <2>4. t = New(c)
   BY <1>4, <2>1
 <2> QED BY <1>4, <2>1, <2>3, <2>4, TokenFacts
<1>9. ASSUME NEW c \in Connection, LeftOpen(cred, cred', p, c)
      PROVE  FALSE
 <2>1. cred'.rotation[p].by = c
   BY <1>9 DEF LeftOpen
 <2> QED BY <1>4, <1>5, <2>1, ConnectionsAreNumbers
<1> QED BY <1>6, <1>7, <1>8, <1>9 DEF Mild

LEMMA HeldStill ==
  ASSUME held' = held, \A p \in Connection : ~Resettles(p)
  PROVE  HeldMove
  BY DEF HeldMove

LEMMA MildHeld ==
  ASSUME Core, cred'.restored = cred.restored, held' = held, \A p \in Connection : Mild(p)
  PROVE  HeldMove
<1>1. \A p \in Connection : p # Nobody
  BY ConnectionsAreNumbers
<1>2. \A p \in Connection : ~Resettles(p)
  BY <1>1, MildIs
<1> QED BY <1>2, HeldStill

LEMMA MildClosing ==
  ASSUME Core, NEW cr \in Credentials, NEW A, Books(cr, A), cr.restored = cred.restored,
         NEW gone \in SUBSET Connection, Alone(gone),
         \A q \in Connection : Kept(cred, cr, q) \/ Ended(cred, cr, q),
         cred' = AllInvalidated(cr, gone)
  PROVE  \A p \in Connection : Mild(p)
<1>1. SUFFICES ASSUME NEW p \in Connection
               PROVE  Mild(p)
  OBVIOUS
<1>2. CASE Kept(cr, cred', p)
  BY <1>2, KeptTwice, EndedStaysEnded DEF Mild
<1>3. ASSUME NEW c \in gone, TakenBack(cr, cred', p, c)
      PROVE  Mild(p)
 <2>1. Kept(cred, cr, p)
   BY <1>3 DEF TakenBack, Ended
 <2>2. TakenBack(cred, cred', p, c)
   BY <1>3, <2>1, KeptThenTakenBack
 <2> QED BY <2>2 DEF Mild
<1>4. ASSUME NEW c \in gone, LeftOpen(cr, cred', p, c)
      PROVE  Mild(p)
 <2>1. Kept(cred, cr, p)
   BY <1>4 DEF LeftOpen, Ended
 <2>2. LeftOpen(cred, cred', p, c)
   BY <1>4, <2>1, KeptThenLeftOpen
 <2> QED BY <2>2 DEF Mild
<1> QED BY <1>2, <1>3, <1>4, AllInvalidatedTurn

\* Connections are closed, and nothing else happens.
LEMMA CloseHeld ==
  ASSUME Core, NEW c \in Connection, Closes({c}, cred), cred'.restored = cred.restored, held' = held
  PROVE  HeldMove
<1>1. cred' = AllInvalidated(cred, {c}) /\ Alone({c}) /\ {c} \in SUBSET Connection
  BY DEF Closes, Alone
<1>2. \A q \in Connection : Kept(cred, cred, q)
  BY KeptItself
<1>3. cred \in Credentials /\ Books(cred, Admitted)
  BY DEF Core
<1>4. \A p \in Connection : Mild(p)
  BY <1>1, <1>2, <1>3, MildClosing
<1> QED BY <1>4, MildHeld

LEMMA QuietHeld ==
  ASSUME Core, \A q \in Connection : Kept(cred, cred', q) \/ Ended(cred, cred', q),
         cred'.restored = cred.restored, held' = held
  PROVE  HeldMove
  BY MildHeld DEF Mild

LEMMA StillHeld ==
  ASSUME Core, cred' = cred, held' = held
  PROVE  HeldMove
  BY QuietHeld, KeptItself

LEMMA ClosingsHeld ==
  ASSUME Core, Web, NEW c \in Connection,
         \/ AskReconnect(c) \/ Reacquire(c) \/ UndoRebind(c) \/ UndoRestore(c) \/ DrainRetired(c)
         \/ CloseEarly(c) \/ Disconnect(c) \/ Command(c) \/ EndCommand(c) \/ TicketExpires(c)
         \/ NonceExpires(c)
  PROVE  HeldMove
<1>1. held' = held
  BY DEF AskReconnect, Reacquire, UndoRebind, UndoRestore, DrainRetired, CloseEarly, Disconnect,
     Command,
     EndCommand, TicketExpires, NonceExpires
<1>2. cred'.restored = cred.restored
  BY AskingFacts, ClosingFacts
<1>3. cred' = cred \/ Closes({c}, cred)
 <2>1. CASE AskReconnect(c) \/ Reacquire(c) \/ UndoRebind(c) \/ UndoRestore(c) \/ DrainRetired(c)
   BY <2>1 DEF AskReconnect, Reacquire, UndoRebind, UndoRestore, DrainRetired, Fails, server
 <2>2. CASE ~(AskReconnect(c) \/ Reacquire(c) \/ UndoRebind(c) \/ UndoRestore(c) \/ DrainRetired(c))
   BY <2>2 DEF CloseEarly, Disconnect, Command, EndCommand, TicketExpires, NonceExpires, server
 <2> QED BY <2>1, <2>2
<1> QED BY <1>1, <1>2, <1>3, CloseHeld, StillHeld

LEMMA MarkOfflineHeld ==
  ASSUME Core, NEW c \in Connection, MarkOffline(c)
  PROVE  HeldMove
<1>1. ident[c] \in Connection
 <2>1. HandlingOf(c) /\ doing[c] = "leaving"
   BY HandlingFacts DEF MarkOffline
 <2> QED BY <2>1 DEF Core, Shapes, HandlingOf, ConnectionOrNone
<1>2. \A q \in Connection : Kept(cred, cred', q)
  BY <1>1, OfflineTurn, KeptItself DEF Core, MarkOffline
<1>3. cred'.restored = cred.restored
  BY ClosingFacts
<1> QED BY <1>2, <1>3, QuietHeld DEF MarkOffline

LEMMA ClockTurns ==
  ASSUME Core, TimePasses
  PROVE  \A q \in Connection : Kept(cred, cred', q) \/ Ended(cred, cred', q)
<1>1. ASSUME NEW p \in Connection, Lapse(p)
      PROVE  \A q \in Connection : Kept(cred, cred', q)
  BY <1>1, LapsedTurn DEF Core, Lapse
<1>2. ASSUME NEW p \in Connection, Cleanup(p)
      PROVE  \A q \in Connection : Kept(cred, cred', q) \/ Ended(cred, cred', q)
  BY <1>2, ForgottenTurn, DeletedTurn DEF Core, Cleanup
<1>3. ASSUME NEW t \in Token, AliasExpires(t)
      PROVE  \A q \in Connection : Kept(cred, cred', q)
  BY <1>3, AliasExpiredTurn DEF Core, AliasExpires
<1> QED BY <1>1, <1>2, <1>3 DEF TimePasses

LEMMA ClockHeld ==
  ASSUME Core, TimePasses
  PROVE  HeldMove
<1>1. cred'.restored = cred.restored
  BY StillFacts
<1> QED BY <1>1, ClockTurns, QuietHeld DEF TimePasses

LEMMA DrainClientHeld ==
  ASSUME Core, NEW d \in Connection, NEW x \in Connection, DrainClient(d, x)
  PROVE  HeldMove
<1>1. cred'.restored = cred.restored
  BY RevokingFacts DEF Revoking
<1> QED BY <1>1, CloseHeld DEF DrainClient

LEMMA ServeRevokeHeld ==
  ASSUME Core, Deep, NEW c \in Connection, ServeRevoke(c)
  PROVE  HeldMove
<1>0. NoWindow /\ held' = held
  BY FreeHasNoWindow DEF ServeRevoke
<1>1. PICK p, q, first, tickets, whom, gone, credentials :
        RevokePlan(c, p, q, first, tickets, whom, gone, credentials)
  BY RevokePlans
<1>2. PICK cr : cr = IF q = Nobody THEN first ELSE Deleted(first, q)
  OBVIOUS
<1>3. /\ p \in ConnectionOrNone /\ q \in ConnectionOrNone
      /\ first = IF p = Nobody THEN cred ELSE Deleted(cred, p)
      /\ tickets \in SUBSET Token /\ \A u \in tickets : ticket[u] # "none"
      /\ gone = {u[1] : u \in tickets}
      /\ \A u \in tickets : request[c].cookie \in {u, seen[u[1]]} \/ (u = Own(u[1]) /\ seen[u[1]] = NoToken)
      /\ cred' = AllInvalidated(cr, gone)
  BY <1>1, <1>2 DEF RevokePlan
<1>4. /\ cr \in Credentials /\ Books(cr, Admitted) /\ cr.restored = cred.restored
      /\ \A x \in Connection : Kept(cred, cr, x) \/ Ended(cred, cr, x)
  BY <1>2, <1>3, RevokedTurn
<1>5. Alone(gone)
 <2>1. request[c].cookie \in TokenOrNone
   BY DEF Core, Shapes
 <2> QED BY <1>0, <1>3, <2>1, RevokedAlone DEF Deep, RotatingInv
<1>6. gone \in SUBSET Connection
  BY <1>3, TokenFacts
<1>7. \A x \in Connection : Mild(x)
  BY <1>3, <1>4, <1>5, <1>6, MildClosing
<1>8. cred'.restored = cred.restored
  BY RevokingFacts DEF Revoking
<1> QED BY <1>0, <1>7, <1>8, MildHeld

-----------------------------------------------------------------------------
(* Tokens that are presented, delivered and committed.                     *)

LEMMA DeliverHeld ==
  ASSUME Core, Web, NEW c \in Connection, Deliver(c)
  PROVE  HeldMove
<1> DEFINE p == cred.restored[c].player
           gone == {previous[c]} \ {Nobody}
<1>0. doing[c] = "delivering" /\ Window(c) /\ held' = held
  BY DEF Deliver, Window
<1>1. p \in Connection /\ HasSession(cred, p) /\ Valid(cred, p)
  BY <1>0, WindowFacts DEF Usable
<1>2. cred'.restored = cred.restored
  BY AskingFacts
<1>3. /\ WentOnline(cred, p) \in Credentials /\ WentOnline(cred, p).restored = cred.restored
      /\ Books(WentOnline(cred, p), Admitted)
  BY <1>1, OnlineIs, OnlineBooks DEF Core, Books
<1>4. \A q \in Connection : Kept(cred, WentOnline(cred, p), q)
  BY <1>1, OnlineTurn DEF Core
<1>5. CASE cred' = AllInvalidated(WentOnline(cred, p), gone)
 <2>1. gone \in SUBSET Connection /\ Alone(gone)
   BY DEF Core, Shapes, ConnectionOrNone, Alone
 <2>2. \A q \in Connection : Mild(q)
   BY <1>3, <1>4, <1>5, <2>1, MildClosing
 <2> QED BY <1>0, <1>2, <2>2, MildHeld
<1>6. CASE cred' \in {WentOnline(cred, p), cred}
 <2>1. \A q \in Connection : Kept(cred, cred', q)
   BY <1>4, <1>6, KeptItself
 <2> QED BY <1>0, <1>2, <2>1, QuietHeld
<1> QED BY <1>5, <1>6 DEF Deliver

\* What a browser's server makes of a presented token, and of what the browser
\* may hold then.
Shows(now, h, t) ==
  \A p \in Connection :
    \/ /\ h[p] = {t} /\ t \in Token /\ Drawn(cred, Admitted, t) /\ TokenPlayer(cred, t) = p
       /\ now.session[p].token = t
    \/ h[p] = held[p] /\ \A u \in Token : ~(SettledFor(cred, now, p, u) /\ Usable(now, p))

LEMMA PresentedShows ==
  ASSUME Core, NEW t \in TokenOrNone, NEW h,
         \/ t # NoToken /\ Observes(cred, t) /\ h = [held EXCEPT ![HolderOf(Resolved(cred, t), t)] = {t}]
         \/ ~(t # NoToken /\ Observes(cred, t)) /\ h = held
  PROVE  Shows(Resolved(cred, t), h, t)
<1>1. PICK now : now = Resolved(cred, t)
  OBVIOUS
<1>2. now \in Credentials /\ Books(now, Admitted) /\ now.restored = cred.restored
  BY <1>1, ResolvedBooks, ResolvedShrinks DEF Core, Shrinks
<1>3. SUFFICES ASSUME NEW p \in Connection
               PROVE  \/ /\ h[p] = {t} /\ t \in Token /\ Drawn(cred, Admitted, t) /\ TokenPlayer(cred, t) = p
                         /\ now.session[p].token = t
                      \/ h[p] = held[p] /\ \A u \in Token : ~(SettledFor(cred, now, p, u) /\ Usable(now, p))
  BY <1>1 DEF Shows
<1>4. ASSUME NEW u \in Token, SettledFor(cred, now, p, u), Usable(now, p)
      PROVE  /\ t \in Token /\ now.index[t] = p /\ PlayerOf(now, t) = p
 <2>1. ~Kept(cred, now, p)
   BY <1>4 DEF Kept, SettledFor, NoRotation
 <2>2. SettledFor(cred, now, p, t) /\ t \in Token
   BY <1>1, <2>1, ResolvedTurn DEF Core
 <2>3. now.session[p].token = t /\ HasSession(now, p) /\ Valid(now, p)
   BY <1>4, <2>2 DEF SettledFor, Usable
 <2>4. now.index[t] = p
   BY <1>2, <2>3, TokenSessionFacts DEF Books
 <2> QED BY <2>2, <2>3, <2>4, TokenFacts DEF PlayerOf, HolderOf
<1>5. CASE t # NoToken /\ Observes(cred, t) /\ h = [held EXCEPT ![HolderOf(now, t)] = {t}]
 <2>1. PICK q : q = PlayerOf(now, t)
   OBVIOUS
 <2>2. /\ t \in Token /\ q \in Connection /\ now.session[q].token = t /\ now.index[t] = q
       /\ Drawn(now, Admitted, t) /\ TokenPlayer(now, t) = q
   BY <1>1, <1>2, <1>5, <2>1, PlayerFacts DEF Observes
 <2>3. h = [held EXCEPT ![q] = {t}] /\ held \in [Connection -> SUBSET Token]
   BY <1>5, <2>2 DEF HolderOf, Core, Shapes
 <2>4. Drawn(cred, Admitted, t) /\ TokenPlayer(cred, t) = q
   BY <1>2, <2>2 DEF Drawn, TokenPlayer
 <2>5. CASE p = q
   BY <2>2, <2>3, <2>4, <2>5
 <2>6. CASE p # q
   BY <1>4, <2>1, <2>3, <2>6
 <2> QED BY <2>5, <2>6
<1>6. CASE ~(t # NoToken /\ Observes(cred, t)) /\ h = held
 <2>1. ASSUME NEW u \in Token, SettledFor(cred, now, p, u), Usable(now, p)
       PROVE  FALSE
   BY <1>1, <1>4, <1>6, <2>1, TokenFacts, ConnectionsAreNumbers DEF Observes
 <2> QED BY <1>6, <2>1
<1> QED BY <1>1, <1>5, <1>6

LEMMA PresentingHeld ==
  ASSUME Core, StepFacts, cred'.restored = cred.restored, NEW t \in TokenOrNone, t \in Token => ticket[t] # "issued",
         NEW now, Shows(now, held', t),
         \A p \in Connection :
           \/ held'[p] = {}
           \/ cred'.session[p] = now.session[p] /\ cred'.rotation[p] = now.rotation[p]
  PROVE  HeldMove
<1>1. SUFFICES ASSUME NEW p \in Connection, NEW u \in held'[p]
               PROVE  /\ u \in held[p] \/ FirstHeld(p, u)
                      /\ Counts(cred', p) => u \in Lineage(cred', p) \/ (u \in held[p] /\ ~Resettles(p))
  BY DEF HeldMove
<1>2. cred'.session[p] = now.session[p] /\ cred'.rotation[p] = now.rotation[p]
  BY <1>1
<1>3. CASE /\ held'[p] = {t} /\ t \in Token /\ Drawn(cred, Admitted, t) /\ TokenPlayer(cred, t) = p
           /\ now.session[p].token = t
 <2>1. u = t
   BY <1>1, <1>3
 <2>2. ticket'[t] # "issued"
   BY <1>3, UnissuedStays
 <2>3. FirstHeld(p, t)
   BY <1>3, <2>2, DrawnStays DEF FirstHeld
 <2>4. t \in Lineage(cred', p)
   BY <1>2, <1>3, LineageIs DEF StepFacts, CredMove
 <2> QED BY <2>1, <2>3, <2>4
<1>4. CASE held'[p] = held[p] /\ \A v \in Token : ~(SettledFor(cred, now, p, v) /\ Usable(now, p))
 <2>1. ~(\E c \in Connection : Reborn(p, c))
  <3>1. SUFFICES ASSUME NEW c \in Connection, Reborn(p, c) PROVE FALSE
    OBVIOUS
  <3>2. cred.restored[c].player = Nobody /\ cred'.restored[c].player = p
    BY <3>1 DEF Reborn
  <3> QED BY <3>2, ConnectionsAreNumbers
 <2>2. \A v \in Token : ~(SettledFor(cred, cred', p, v) /\ Usable(cred', p))
   BY <1>2, <1>4 DEF SettledFor, Usable, HasSession, Valid
 <2>3. ~Resettles(p)
   BY <2>1, <2>2 DEF Resettles
 <2> QED BY <1>1, <1>4, <2>3
<1> QED BY <1>3, <1>4 DEF Shows

LEMMA UpgradeHeld ==
  ASSUME Core, StepFacts, Deep, NEW c \in Connection, Upgrade(c)
  PROVE  HeldMove
<1>1. jar.cookie \in TokenOrNone /\ cred' = Resolved(cred, jar.cookie)
  BY DEF Core, Shapes, Upgrade
<1>2. Shows(cred', held', jar.cookie)
  BY <1>1, PresentedShows DEF Upgrade
<1>3. jar.cookie \in Token => ticket[jar.cookie] # "issued"
  BY ShownAre, TokenFacts DEF Deep, AskersInv
<1>4. cred'.restored = cred.restored
  BY OpeningFacts DEF Opening
<1> QED BY <1>1, <1>2, <1>3, <1>4, PresentingHeld

LEMMA ServeRefreshHeld ==
  ASSUME Core, StepFacts, Deep, NEW c \in Connection, ServeRefresh(c)
  PROVE  HeldMove
<1>0. PICK t : t = request[c].cookie
  OBVIOUS
<1>1. t \in TokenOrNone /\ cred' = Resolved(cred, t)
  BY <1>0 DEF Core, Shapes, ServeRefresh
<1>2. \/ t # NoToken /\ Observes(cred, t) /\ held' = [held EXCEPT ![HolderOf(cred', t)] = {t}]
      \/ ~(t # NoToken /\ Observes(cred, t)) /\ held' = held
  BY <1>0 DEF ServeRefresh
<1>3. Shows(cred', held', t)
  BY <1>1, <1>2, PresentedShows
<1>4. t \in Token => ticket[t] # "issued"
  BY <1>0, ShownAre, TokenFacts DEF Deep, AskersInv
<1>5. cred'.restored = cred.restored
  BY PagingFacts DEF Paging
<1> QED BY <1>1, <1>3, <1>4, <1>5, PresentingHeld

LEMMA ActivateBrowserHeld ==
  ASSUME Core, StepFacts, Deep, HeldInv, NEW c \in Connection, ActivateBrowser(c)
  PROVE  HeldMove
<1>0. PICK t, now : t = seen[c] /\ now = Resolved(cred, t)
  OBVIOUS
<1>1. /\ t \in TokenOrNone /\ now \in Credentials /\ Books(now, Admitted)
      /\ doing[c] = "upgraded" /\ held \in [Connection -> SUBSET Token]
 <2>1. t \in TokenOrNone
   BY <1>0 DEF Core, Shapes
 <2> QED BY <1>0, <2>1, ResolvedBooks DEF Core, Shapes, ActivateBrowser
<1>2. t \in Token => ticket[t] # "issued"
  BY <1>0, ShownAre, TokenFacts DEF Deep, AskersInv
<1>3. cred'.restored = cred.restored
  BY OpeningFacts DEF Opening
<1>4. CASE (t # NoToken /\ ~Observes(cred, t)) \/ (t = NoToken /\ c \notin nonces)
 <2>1. cred' = now /\ held' = held
   BY <1>0, <1>4 DEF ActivateBrowser
 <2>2. ~(t # NoToken /\ Observes(cred, t))
   BY <1>4
 <2>3. Shows(now, held', t)
   BY <1>0, <1>1, <2>1, <2>2, PresentedShows
 <2> QED BY <1>1, <1>2, <1>3, <2>1, <2>3, PresentingHeld
<1>5. CASE (t # NoToken /\ Observes(cred, t)) \/ (t = NoToken /\ c \in nonces)
 <2>1. /\ cred' = Created(now, c)
       /\ t = NoToken => held' = held
       /\ t # NoToken => held' = [held EXCEPT ![HolderOf(now, t)] = {t}]
   BY <1>0, <1>5 DEF ActivateBrowser, Admits
 <2>2. \/ t # NoToken /\ Observes(cred, t) /\ held' = [held EXCEPT ![HolderOf(Resolved(cred, t), t)] = {t}]
       \/ ~(t # NoToken /\ Observes(cred, t)) /\ held' = held
   BY <1>0, <1>5, <2>1
 <2>3. Shows(now, held', t)
   BY <1>0, <1>1, <2>2, PresentedShows
 <2>4. c \notin Admitted
   BY <1>1, HandlingFacts DEF HandlingOf, Admitted
 <2>5. held[c] = {}
  <3>1. ASSUME NEW u \in held[c]
        PROVE  FALSE
   <4>1. Drawn(cred, Admitted, u) /\ TokenPlayer(cred, u) = c
     BY <3>1 DEF HeldInv
   <4> QED BY <2>4, <4>1, NotDrawnYet
  <3> QED BY <1>1, <3>1
 <2>6. held'[c] = {}
   BY <2>3, <2>4, <2>5, NotDrawnYet DEF Shows
 <2>7. \A p \in Connection : p # c => cred'.session[p] = now.session[p] /\ cred'.rotation[p] = now.rotation[p]
  <3>1. /\ Created(now, c).session = [now.session EXCEPT ![c] = [token |-> Own(c), online |-> TRUE, lapsed |-> FALSE]]
        /\ Created(now, c).rotation = now.rotation
    BY <1>1, CreatedIs
  <3> QED BY <1>1, <2>1, <3>1 DEF Credentials
 <2> QED BY <1>1, <1>2, <1>3, <2>3, <2>6, <2>7, PresentingHeld
<1> QED BY <1>4, <1>5

LEMMA ServeCommitHeld ==
  ASSUME Core, StepFacts, NEW c \in Connection, ServeCommit(c)
  PROVE  HeldMove
<1>0. PICK t : t = TicketOf(c)
  OBVIOUS
<1>1. cred'.restored = cred.restored
  BY PagingFacts DEF Paging
<1>2. t \in Token /\ t[1] = c /\ held \in [Connection -> SUBSET Token] /\ cred \in Credentials
  BY <1>0, TokenFacts DEF TicketOf, Core, Shapes
<1>3. CASE ~(ticket[t] # "none" /\ Binds(c, t) /\ Committable(c, t))
 <2>1. held' = held /\ (cred' = cred \/ Closes({c}, cred))
   BY <1>0, <1>3 DEF ServeCommit, Commit
 <2> QED BY <1>1, <2>1, CloseHeld, StillHeld
<1>4. CASE ticket[t] # "none" /\ Binds(c, t) /\ Committable(c, t)
 <2>1. /\ cred' = cred /\ ticket' = [ticket EXCEPT ![t] = "committed"]
       /\ held' = [held EXCEPT ![cred.index[t]] = @ \cup {t}]
   BY <1>0, <1>4 DEF ServeCommit, Commit
 <2>2. PICK p : p = cred.index[t]
   OBVIOUS
 <2>3. HasSession(cred, p) /\ CanReconnectToken(cred, t)
   BY <1>2, <1>4, <2>2, TokenFacts DEF Committable, CanReconnectToken, HolderOf
 <2>4. p \in Connection
   BY <1>2, <2>2, <2>3, CredentialTypes DEF HasSession, ConnectionOrNone
 <2>5. Drawn(cred, Admitted, t) /\ TokenPlayer(cred, t) = p
   BY <1>2, <2>2, <2>4, ConnectionsAreNumbers DEF Core, Books, IndexIsRight
 <2>6. t \in Lineage(cred, p)
  <3>1. \/ cred.session[p].token = t
        \/ cred.rotation[p].by # Nobody /\ cred.restored[cred.rotation[p].by].previous = t
    BY <1>2, <2>2, <2>3, TokenFacts DEF CanReconnectToken, HolderOf
  <3> QED BY <1>2, <2>4, <3>1, LineageIs
 <2>7. FirstHeld(p, t)
  <3>1. ticket'[t] = "committed"
    BY <1>2, <2>1 DEF Core, Shapes
  <3> QED BY <1>2, <2>5, <3>1, DrawnStays DEF FirstHeld
 <2>8. \A q \in Connection : ~Resettles(q)
  <3>1. \A q \in Connection : Mild(q) /\ q # Nobody
    BY <2>1, KeptItself, ConnectionsAreNumbers DEF Mild
  <3> QED BY <1>1, <3>1, MildIs
 <2>9. \A q \in Connection : \A u \in held'[q] : u \in held[q] \/ (q = p /\ u = t)
   BY <1>2, <2>1, <2>2, <2>4
 <2> QED BY <2>1, <2>6, <2>7, <2>8, <2>9 DEF HeldMove
<1> QED BY <1>3, <1>4

-----------------------------------------------------------------------------
(* A browser's player comes back, and every step.                          *)

\* The token that c's handler has exchanged, or put back, is of its player's
\* session, and nobody else's matters.
LEMMA BackHeld ==
  ASSUME Core, StepFacts, AskersInv, NEW c \in Connection, NEW p \in Connection, NEW t \in Token, t = seen[c],
         TokenPlayer(cred, t) = p, t \in Lineage(cred', p), Ended(cred, cred', c),
         \A q \in Connection : q # p /\ q # c => Kept(cred, cred', q),
         \/ cred.rotation[p].by = Nobody /\ held' = held
         \/ held' = [held EXCEPT ![p] = {t}],
         \A d \in Connection : cred.restored[d].player = Nobody => cred'.restored[d].player \in {Nobody, p}
  PROVE  HeldMove
<1>1. SUFFICES ASSUME NEW q \in Connection, NEW u \in held'[q]
               PROVE  /\ u \in held[q] \/ FirstHeld(q, u)
                      /\ Counts(cred', q) => u \in Lineage(cred', q) \/ (u \in held[q] /\ ~Resettles(q))
  BY DEF HeldMove
<1>2. held \in [Connection -> SUBSET Token] /\ q # Nobody
  BY ConnectionsAreNumbers DEF Core, Shapes
<1>3. CASE q = p /\ cred.rotation[p].by = Nobody /\ held' = held
  BY <1>1, <1>3 DEF Resettles
<1>4. CASE q = p /\ held' = [held EXCEPT ![p] = {t}]
 <2>1. u = t
   BY <1>1, <1>2, <1>4
 <2>2. Drawn(cred, Admitted, t) /\ ticket[t] = "none"
   BY TokenFacts DEF Core, SeenIsDrawn, AskersInv
 <2>3. FirstHeld(p, t)
   BY <2>2, DrawnStays, UnissuedStays DEF FirstHeld
 <2> QED BY <1>4, <2>1, <2>3
<1>5. CASE q # p
 <2>1. u \in held[q]
   BY <1>1, <1>2, <1>5
 <2>2. Mild(q)
   BY <1>5 DEF Mild
 <2>3. ~Resettles(q)
   BY <1>2, <1>5, <2>2, MildIs
 <2> QED BY <2>1, <2>3
<1> QED BY <1>3, <1>4, <1>5

LEMMA RestoreHeld ==
  ASSUME Core, StepFacts, Web, Deep, NEW c \in Connection, Restore(c)
  PROVE  HeldMove
<1>0. PICK t, settled, p, now : t = seen[c] /\ settled = Resolved(cred, t) /\ p = PlayerOf(settled, t) /\ now = Restored(cred, t, c, Web)
  OBVIOUS
<1>1. /\ c \in Admitted /\ cred.restored[c].player = Nobody /\ ticket[New(c)] = "none" /\ doing[c] = "restoring"
      /\ AskersInv /\ cred \in Credentials /\ cred' \in Credentials
 <2>1. doing[c] = "restoring"
   BY DEF Restore
 <2> QED BY <2>1, RestoringFacts DEF Deep, StepFacts, CredMove, Core
<1>2. CASE ~Restorable(cred, t, Web)
 <2>1. Closes({c}, cred) /\ held' = held
   BY <1>0, <1>2 DEF Restore, Fails
 <2>2. cred'.restored = cred.restored
  <3>1. CalmMove
   <4>1. cred' = AllInvalidated(cred, {c}) /\ ident' = ident
     BY <1>0, <1>2 DEF Restore, Fails, Closes
   <4> QED BY <4>1, CloseMoves
  <3> QED BY <3>1 DEF CalmMove
 <2> QED BY <2>1, <2>2, CloseHeld
<1>3. CASE Restorable(cred, t, Web)
 <2>1. ComesBack(now, p, c) /\ RestoredTo(settled, now, p, t, c, Web, Admitted)
   BY <1>0, <1>1, <1>3, RestoredComesBack, RestoringFacts
 <2>2. /\ p \in Connection /\ t \in Token /\ p # c /\ TokenPlayer(cred, t) = p /\ settled.rotation[p] = NoRotation
       /\ now \in Credentials /\ Books(now, Admitted)
       /\ now.restored[c].player = p /\ now.restored[c].previous = t
       /\ now.session[p].token = New(c) /\ HasSession(now, p)
       /\ now.rotation[p] = [by |-> c, orphaned |-> FALSE] /\ now.index[New(c)] = p
       /\ Ended(cred, now, c) /\ \A q \in Connection : q # p /\ q # c => Kept(cred, now, q)
   BY <1>0, <2>1 DEF ComesBack, RestoredTo
 <2>3. \/ cred.rotation[p].by = Nobody /\ held' = held
       \/ held' = [held EXCEPT ![p] = {t}]
  <3>1. held' = [held EXCEPT ![p] = IF settled = cred THEN @ ELSE {t}]
    BY <1>0, <1>3 DEF Restore
  <3>2. CASE settled = cred
   <4>1. cred.rotation[p].by = Nobody
     BY <2>2, <3>2 DEF NoRotation
   <4>2. held' = held
     BY <3>1, <3>2 DEF Core, Shapes
   <4> QED BY <4>1, <4>2
  <3>3. CASE settled # cred
    BY <3>1, <3>3
  <3> QED BY <3>2, <3>3
 <2>4. \A d \in Connection : cred.restored[d].player = Nobody => cred'.restored[d].player \in {Nobody, p}
  <3>1. /\ \A d \in Connection : d # c => cred'.restored[d] = cred.restored[d]
        /\ cred'.restored[c] = cred.restored[c] \/ cred'.restored[c].player = p
    BY <1>0, RestoreRestores
  <3> QED BY <1>1, <3>1
 <2>5. CASE Fails(c, RolledBack(now, c, Web))
  <3>1. cred' = RolledBack(now, c, TRUE)
   <4>1. cred' = RolledBack(now, c, Web)
     BY <1>1, <2>5, NothingToInvalidate DEF Fails, Closes
   <4> QED BY <4>1
  <3>2. CanRollBack(now, c, TRUE)
    BY <2>2 DEF CanRollBack
  <3>3. RolledBackTo(now, cred', c, TRUE)
    BY <2>2, <3>1, <3>2, RolledBackCases
  <3>4. /\ cred'.session[p].token = t
        /\ \A q \in Connection : q # p =>
             /\ cred'.session[q] = now.session[q] /\ cred'.rotation[q] = now.rotation[q]
             /\ HasSession(cred', q) <=> HasSession(now, q)
             /\ Valid(cred', q) <=> Valid(now, q)
    BY <2>2, <3>3 DEF RolledBackTo
  <3>5. Ended(cred, cred', c)
    BY <2>2, <3>4 DEF Ended
  <3>6. \A q \in Connection : q # p /\ q # c => Kept(cred, cred', q)
    BY <2>2, <3>4 DEF Kept, Usable
  <3>7. t \in Lineage(cred', p)
    BY <1>1, <2>2, <3>4, LineageIs
  <3> QED BY <1>0, <1>1, <2>2, <2>3, <2>4, <3>5, <3>6, <3>7, BackHeld
 <2>6. CASE cred' = now
  <3>1. t \in Lineage(cred', p)
    BY <1>1, <2>2, <2>6, LineageIs, ConnectionsAreNumbers
  <3> QED BY <1>0, <1>1, <2>2, <2>3, <2>4, <2>6, <3>1, BackHeld
 <2> QED BY <1>0, <1>3, <2>5, <2>6 DEF Restore
<1> QED BY <1>2, <1>3

LEMMA EveryWebHeld ==
  ASSUME Core, StepFacts, Web, Deep, HeldInv, [ReconnectNext]_reconnectVars
  PROVE  HeldMove
<1>1. CASE UNCHANGED reconnectVars
  BY <1>1, StillHeld DEF reconnectVars, server
<1>2. CASE TimePasses
  BY <1>2, ClockHeld
<1>3. ASSUME NEW c \in Connection, Opening(c)
      PROVE  HeldMove
 <2>1. ~Dial(c) /\ ~ActivateTerminal(c)
   BY DEF Dial, ActivateTerminal
 <2>2. CASE Abandon(c)
   BY <2>2, StillHeld DEF Abandon
 <2> QED BY <1>3, <2>1, <2>2, UpgradeHeld, ActivateBrowserHeld DEF Opening
<1>4. ASSUME NEW c \in Connection, Reconnecting(c)
      PROVE  HeldMove
  BY <1>4, ClosingsHeld, RestoreHeld, DeliverHeld DEF Reconnecting
<1>5. ASSUME NEW c \in Connection, Ending(c)
      PROVE  HeldMove
  BY <1>5, ClosingsHeld, MarkOfflineHeld DEF Ending
<1>6. ASSUME NEW c \in Connection, Commanding(c) \/ Expiring(c)
      PROVE  HeldMove
  BY <1>6, ClosingsHeld DEF Commanding, Expiring
<1>7. ASSUME NEW c \in Connection, Paging(c)
      PROVE  HeldMove
 <2>1. CASE PostCommit(c) \/ TakeCommit(c) \/ TakeReconnected(c) \/ TakeProvisional(c) \/ Lose(c)
  <3>1. cred' = cred /\ held' = held
    BY <2>1 DEF PostCommit, TakeCommit, TakeReconnected, TakeProvisional, Lose, server
  <3> QED BY <3>1, StillHeld
 <2> QED BY <1>7, <2>1, ServeCommitHeld, ServeRefreshHeld DEF Paging
<1>8. ASSUME NEW c \in Connection, Revoking(c)
      PROVE  HeldMove
 <2>1. CASE PostRevoke(c) \/ RevokeReturns(c) \/ TakeRevoked(c) \/ DrainDone(c)
  <3>1. cred' = cred /\ held' = held
    BY <2>1 DEF PostRevoke, RevokeReturns, TakeRevoked, DrainDone, server
  <3> QED BY <3>1, StillHeld
 <2> QED BY <1>8, <2>1, ServeRevokeHeld, DrainClientHeld DEF Revoking
<1> QED BY <1>1, <1>2, <1>3, <1>4, <1>5, <1>6, <1>7, <1>8 DEF ReconnectNext

-----------------------------------------------------------------------------
(* What a terminal client may hold.                                        *)

\* A terminal client's connections have no ticket that would take a rotation
\* back when they close.
LEMMA NothingCloses ==
  ASSUME Core, ~Web, NEW gone \in SUBSET Connection, NEW cr
  PROVE  AllInvalidated(cr, gone) = cr
<1>1. {c \in gone : ticket[New(c)] # "none"} = {}
  BY TokenFacts DEF Core, TerminalBooks
<1> QED BY <1>1 DEF AllInvalidated

LEMMA ClosesNothing ==
  ASSUME Core, ~Web, NEW c \in Connection, NEW cr, Closes({c}, cr)
  PROVE  cred' = cr
  BY NothingCloses DEF Closes

\* No rotation is open, so that presenting a token changes nothing.
LEMMA PresentsNothing ==
  ASSUME Core, ~Web, NEW t \in TokenOrNone
  PROVE  Resolved(cred, t) = cred
<1>1. ~Settles(cred, t)
 <2>1. SUFFICES ASSUME Settles(cred, t) PROVE FALSE
   OBVIOUS
 <2>2. t # NoToken /\ cred.index[t] # Nobody /\ cred.rotation[cred.index[t]].by # Nobody
   BY <2>1 DEF Settles
 <2>3. cred.index[t] \in Connection
   BY <2>2, CredentialTypes, TokenFacts DEF Core, ConnectionOrNone, TokenOrNone
 <2> QED BY <2>2, <2>3 DEF Core, TerminalBooks, TuiBooks, NoRotation
<1> QED BY <1>1, ResolvedCases DEF Core

LEMMA WindowsSame ==
  ASSUME Core, NEW c \in Connection, NEW w, Goes(c, w),
         Window(c) <=> w \in {"delivering", "undoing", "undone"}
  PROVE  \A d \in Connection : Window(d)' <=> Window(d)
<1>1. doing' = [doing EXCEPT ![c] = w] /\ doing \in [Connection -> Phases]
  BY DEF Goes, Core, Shapes
<1>2. doing'[c] = w /\ \A d \in Connection : d # c => doing'[d] = doing[d]
  BY <1>1
<1> QED BY <1>2 DEF Window

LEMMA WindowsStay == ASSUME UNCHANGED doing PROVE \A d \in Connection : Window(d)' <=> Window(d)
  BY DEF Window

\* What stays in a window while it is open.
LEMMA WindowStays ==
  ASSUME Core, StepFacts, NEW c \in Connection, Window(c)
  PROVE  /\ cred'.restored[c] = cred.restored[c] /\ seen'[c] = seen[c]
         /\ cred.restored[c].player \in Connection /\ Usable(cred', cred.restored[c].player)
<1>1. cred.restored[c].player # Nobody /\ cred.restored[c].player \in Connection
  BY WindowFacts
<1>2. seen'[c] = seen[c]
  BY DEF Window, StepFacts, ShownMove
<1> QED BY <1>1, <1>2 DEF StepFacts, CredMove

\* A step that tells nothing, and makes no session but perhaps ends one.
LEMMA QuietTerminal ==
  ASSUME Core, StepFacts, TerminalHeld, TerminalWindows, held' = held,
         \A p \in Connection : Kept(cred, cred', p) \/ Ended(cred, cred', p),
         \A d \in Connection : Window(d)' <=> Window(d)
  PROVE  TerminalHeld' /\ TerminalWindows'
<1>1. ASSUME NEW p \in Connection, Usable(cred', p)
      PROVE  Usable(cred, p) /\ cred'.session[p].token = cred.session[p].token
  BY <1>1 DEF Kept, Ended, Usable
<1>2. ASSUME NEW p \in Connection, NEW t \in held'[p]
      PROVE  /\ t \in Token /\ Drawn(cred', Admitted', t) /\ TokenPlayer(cred', t) = p
             /\ Usable(cred', p) =>
                  \/ t = cred'.session[p].token
                  \/ \E c \in Connection : Window(c)' /\ cred'.restored[c].player = p /\ seen'[c] = t
 <2>1. /\ t \in Token /\ Drawn(cred, Admitted, t) /\ TokenPlayer(cred, t) = p
       /\ Usable(cred, p) => \/ t = cred.session[p].token
                             \/ \E c \in Connection : Window(c) /\ cred.restored[c].player = p /\ seen[c] = t
   BY <1>2 DEF TerminalHeld
 <2>2. ASSUME NEW c \in Connection, Window(c), cred.restored[c].player = p, seen[c] = t
       PROVE  Window(c)' /\ cred'.restored[c].player = p /\ seen'[c] = t
   BY <2>2, WindowStays
 <2> QED BY <1>1, <2>1, <2>2, DrawnStays
<1>3. ASSUME NEW c \in Connection, Window(c)'
      PROVE  /\ cred'.session[cred'.restored[c].player].token = New(c)
             /\ New(c) \notin held'[cred'.restored[c].player]
  BY <1>1, <1>3, WindowStays DEF TerminalWindows
<1>4. TerminalHeld'
  BY <1>2 DEF TerminalHeld
<1>5. TerminalWindows'
  BY <1>3 DEF TerminalWindows
<1> QED BY <1>4, <1>5

LEMMA StillTerminal ==
  ASSUME Core, StepFacts, TerminalHeld, TerminalWindows, held' = held, cred' = cred,
         \A d \in Connection : Window(d)' <=> Window(d)
  PROVE  TerminalHeld' /\ TerminalWindows'
<1>1. \A p \in Connection : Kept(cred, cred', p)
  BY KeptItself
<1> QED BY <1>1, QuietTerminal

\* Nothing is asked over HTTP.
LEMMA PagelessStays ==
  ASSUME Pageless, UNCHANGED request
  PROVE  Pageless'
  BY DEF Pageless

LEMMA PagelessAnswers ==
  ASSUME Core, Pageless, NEW c \in Connection, NEW what, what \notin PageWords,
         Becomes(c, what) \/ \E cookie : Answers(c, what, cookie)
  PROVE  Pageless'
<1>1. request'[c].what = what /\ \A d \in Connection : d # c => request'[d] = request[d]
 <2>1. request'[c].what = what
   BY Says
 <2>2. \A d \in Connection : d # c => request'[d] = request[d]
   BY DEF Becomes, Answers, Core, Shapes
 <2> QED BY <2>1, <2>2
<1> QED BY <1>1 DEF Pageless

\* Steps in which nothing happens to the tokens.
LEMMA IdleTerminal ==
  ASSUME Core, StepFacts, ~Web, TerminalInv, NEW c \in Connection,
         \/ Dial(c) \/ Abandon(c) \/ AskReconnect(c) \/ Reacquire(c) \/ UndoRebind(c) \/ DrainRetired(c)
         \/ CloseEarly(c) \/ Disconnect(c) \/ EndCommand(c) \/ NonceExpires(c)
  PROVE  TerminalInv'
<1>0. TerminalHeld /\ TerminalWindows /\ Pageless
  BY DEF TerminalInv
<1>1. held' = held
  BY DEF Dial, Abandon, AskReconnect, Reacquire, UndoRebind, DrainRetired, CloseEarly, Disconnect,
     EndCommand, NonceExpires
<1>2. cred' = cred
 <2>1. CASE Closes({c}, cred)
   BY <2>1, ClosesNothing
 <2>2. CASE ~Closes({c}, cred)
   BY <2>2 DEF Dial, Abandon, AskReconnect, Reacquire, UndoRebind, DrainRetired, CloseEarly,
      Disconnect, EndCommand,
      NonceExpires, server, Fails
 <2> QED BY <2>1, <2>2
<1>3. \A d \in Connection : Window(d)' <=> Window(d)
 <2>1. CASE UNCHANGED doing
   BY <2>1, WindowsStay
 <2>2. CASE ~Window(c) /\ \E w \in {"upgraded", "gone", "restoring", "idle", "leaving"} : Goes(c, w)
   BY <2>2, WindowsSame
 <2>3. CASE Window(c) /\ Goes(c, "undone")
   BY <2>3, WindowsSame
 <2>4. CASE Dial(c) \/ Abandon(c)
  <3>1. Goes(c, "upgraded") \/ Goes(c, "gone")
    BY <2>4 DEF Dial, Abandon
  <3>2. ~Window(c)
    BY <2>4 DEF Dial, Abandon, IsNext, Window
  <3> QED BY <2>2, <3>1, <3>2
 <2>5. CASE AskReconnect(c) \/ Reacquire(c)
  <3>1. (Goes(c, "restoring") \/ Goes(c, "idle")) \/ Goes(c, "draining")
    BY <2>5 DEF AskReconnect, Reacquire, Fails
  <3>2. ~Window(c)
    BY <2>5 DEF AskReconnect, Reacquire, Window
  <3> QED BY <3>1, <3>2, WindowsSame
 <2>6. CASE UndoRebind(c)
   BY <2>3, <2>6 DEF UndoRebind, Window
 <2>7. CASE DrainRetired(c) \/ CloseEarly(c) \/ EndCommand(c) \/ NonceExpires(c)
   BY <2>1, <2>7 DEF DrainRetired, CloseEarly, EndCommand, NonceExpires, server
 <2>8. CASE Disconnect(c)
  <3>1. (Goes(c, "leaving") \/ Goes(c, "gone")) /\ ~Window(c)
    BY <2>8 DEF Disconnect, Window
  <3> QED BY <2>2, <3>1
 <2> QED BY <2>4, <2>5, <2>6, <2>7, <2>8
<1>4. Pageless'
 <2>1. UNCHANGED request \/ \E what \in {"asked", "failed"} : Becomes(c, what)
   BY DEF Dial, Abandon, AskReconnect, Reacquire, UndoRebind, DrainRetired, CloseEarly, Disconnect,
      EndCommand,
      NonceExpires, device, Fails
 <2> QED BY <1>0, <2>1, PagelessStays, PagelessAnswers DEF PageWords
<1> QED BY <1>0, <1>1, <1>2, <1>3, <1>4, StillTerminal DEF TerminalInv

LEMMA TalkTerminal ==
  ASSUME Core, StepFacts, ~Web, TerminalInv, NEW c \in Connection, Paging(c) \/ Revoking(c) \/ Command(c) \/ TicketExpires(c)
  PROVE  TerminalInv'
<1>0. /\ TerminalHeld /\ TerminalWindows /\ Pageless
      /\ request[c].what \notin PageWords /\ ticket[Own(c)] = "none" /\ ticket[New(c)] = "none"
  BY TokenFacts DEF TerminalInv, Pageless, Core, TerminalBooks
<1>1. \/ TakeReconnected(c) \/ TakeProvisional(c) \/ Lose(c) \/ RevokeReturns(c) \/ TakeRevoked(c) \/ DrainDone(c)
      \/ \E x \in Connection : DrainClient(c, x)
  BY <1>0 DEF PageWords, Paging, Revoking, Command, TicketExpires, PostCommit, ServeCommit,
     TakeCommit, ServeRefresh,
     PostRevoke, ServeRevoke, Asks
<1>2. held' = held /\ doing' = doing
  BY <1>1 DEF TakeReconnected, TakeProvisional, Lose, RevokeReturns, TakeRevoked, DrainDone,
     DrainClient, server
<1>3. cred' = cred
 <2>1. ASSUME NEW x \in Connection, DrainClient(c, x)
       PROVE  cred' = cred
   BY <2>1, ClosesNothing DEF DrainClient
 <2> QED BY <1>1, <2>1 DEF TakeReconnected, TakeProvisional, Lose, RevokeReturns, TakeRevoked,
      DrainDone, server
<1>4. Pageless'
 <2>1. UNCHANGED request \/ \E what \in {"up", "failed", "revoked", "out"} : Becomes(c, what)
   BY <1>1 DEF TakeReconnected, TakeProvisional, Lose, RevokeReturns, TakeRevoked, DrainDone,
      DrainClient, device
 <2> QED BY <1>0, <2>1, PagelessStays, PagelessAnswers DEF PageWords
<1>5. \A d \in Connection : Window(d)' <=> Window(d)
  BY <1>2, WindowsStay
<1> QED BY <1>0, <1>2, <1>3, <1>4, <1>5, StillTerminal DEF TerminalInv

LEMMA OfflineTerminal ==
  ASSUME Core, StepFacts, ~Web, TerminalInv, NEW c \in Connection, MarkOffline(c)
  PROVE  TerminalInv'
<1>0. TerminalHeld /\ TerminalWindows /\ Pageless
  BY DEF TerminalInv
<1>1. ident[c] \in Connection /\ ~Window(c)
 <2>1. HandlingOf(c) /\ doing[c] = "leaving"
   BY HandlingFacts DEF MarkOffline
 <2> QED BY <2>1 DEF Core, Shapes, HandlingOf, ConnectionOrNone, Window
<1>2. \A q \in Connection : Kept(cred, cred', q)
  BY <1>1, OfflineTurn, KeptItself DEF Core, MarkOffline
<1>3. \A d \in Connection : Window(d)' <=> Window(d)
  BY <1>1, WindowsSame DEF MarkOffline
<1>4. Pageless' /\ held' = held
  BY <1>0, PagelessStays DEF MarkOffline, device
<1> QED BY <1>0, <1>2, <1>3, <1>4, QuietTerminal DEF TerminalInv

LEMMA ClockTerminal ==
  ASSUME Core, StepFacts, TerminalInv, TimePasses
  PROVE  TerminalInv'
<1>0. TerminalHeld /\ TerminalWindows /\ Pageless
  BY DEF TerminalInv
<1>1. \A q \in Connection : Kept(cred, cred', q) \/ Ended(cred, cred', q)
  BY ClockTurns
<1>2. \A d \in Connection : Window(d)' <=> Window(d)
  BY WindowsStay DEF TimePasses
<1>3. Pageless' /\ held' = held
  BY <1>0, PagelessStays DEF TimePasses, device
<1> QED BY <1>0, <1>1, <1>2, <1>3, QuietTerminal DEF TerminalInv

-----------------------------------------------------------------------------
(* A terminal client begins, comes back, and its handler undoes that.      *)

LEMMA TokensHeld ==
  ASSUME Core, StepFacts, TerminalHeld, NEW p \in Connection, NEW t \in held[p]
  PROVE  /\ t \in Token /\ Drawn(cred, Admitted, t) /\ TokenPlayer(cred, t) = p
         /\ Drawn(cred', Admitted', t) /\ TokenPlayer(cred', t) = p
<1>1. t \in Token /\ Drawn(cred, Admitted, t) /\ TokenPlayer(cred, t) = p
  BY DEF TerminalHeld
<1> QED BY <1>1, DrawnStays

LEMMA ActivateTerminalHeld ==
  ASSUME Core, StepFacts, TerminalInv, NEW c \in Connection, ActivateTerminal(c)
  PROVE  TerminalInv'
<1>0. /\ TerminalHeld /\ TerminalWindows /\ Pageless /\ doing[c] = "upgraded" /\ c \notin Admitted
      /\ cred \in Credentials /\ held \in [Connection -> SUBSET Token] /\ ident \in [Connection -> ConnectionOrNone]
 <2>1. doing[c] = "upgraded"
   BY DEF ActivateTerminal
 <2> QED BY <2>1, HandlingFacts DEF TerminalInv, HandlingOf, Admitted, Core, Shapes
<1>1. /\ cred' = Created(cred, c) /\ held' = [held EXCEPT ![c] = {Own(c)}] /\ ident' = [ident EXCEPT ![c] = c]
      /\ Goes(c, "idle")
  BY DEF ActivateTerminal, Admits
<1>2. /\ cred'.session[c].token = Own(c) /\ cred'.restored = cred.restored
      /\ \A q \in Connection : q # c => cred'.session[q] = cred.session[q]
 <2>1. /\ Created(cred, c).session = [cred.session EXCEPT ![c] = [token |-> Own(c), online |-> TRUE, lapsed |-> FALSE]]
       /\ Created(cred, c).restored = cred.restored
   BY <1>0, CreatedIs
 <2> QED BY <1>0, <1>1, <2>1 DEF Credentials
<1>3. \A d \in Connection : Window(d)' <=> Window(d)
  BY <1>0, <1>1, WindowsSame DEF Window
<1>4. ASSUME NEW p \in Connection, NEW t \in held'[p]
      PROVE  /\ t \in Token /\ Drawn(cred', Admitted', t) /\ TokenPlayer(cred', t) = p
             /\ Usable(cred', p) =>
                  \/ t = cred'.session[p].token
                  \/ \E d \in Connection : Window(d)' /\ cred'.restored[d].player = p /\ seen'[d] = t
 <2>1. CASE p = c
  <3>1. t = Own(c) /\ t \in Token /\ c \in Admitted'
    BY <1>0, <1>1, <1>4, <2>1, TokenFacts, ConnectionsAreNumbers DEF Admitted
  <3> QED BY <1>2, <2>1, <3>1, TokenFacts DEF Drawn, TokenPlayer
 <2>2. CASE p # c
  <3>1. t \in held[p]
    BY <1>0, <1>1, <1>4, <2>2
  <3>2. Usable(cred', p) => Usable(cred, p) /\ cred'.session[p].token = cred.session[p].token
    BY <1>2, <2>2 DEF Usable, HasSession, Valid
  <3>3. Usable(cred, p) => \/ t = cred.session[p].token
                           \/ \E d \in Connection : Window(d) /\ cred.restored[d].player = p /\ seen[d] = t
    BY <1>0, <3>1 DEF TerminalHeld
  <3>4. \A d \in Connection : Window(d) => seen'[d] = seen[d]
    BY WindowStays
  <3> QED BY <1>0, <1>2, <1>3, <3>1, <3>2, <3>3, <3>4, TokensHeld
 <2> QED BY <2>1, <2>2
<1>5. ASSUME NEW d \in Connection, Window(d)'
      PROVE  /\ cred'.session[cred'.restored[d].player].token = New(d)
             /\ New(d) \notin held'[cred'.restored[d].player]
 <2>1. Window(d)
   BY <1>3, <1>5
 <2>2. cred.restored[d].player \in Connection /\ cred.restored[d].player # c
   BY <1>0, <2>1, WindowFacts
 <2> QED BY <1>0, <1>1, <1>2, <2>1, <2>2 DEF TerminalWindows
<1>6. TerminalHeld'
  BY <1>4 DEF TerminalHeld
<1>7. TerminalWindows'
  BY <1>5 DEF TerminalWindows
<1>8. Pageless'
 <2>1. \E what \in {"up", "ask"} : Becomes(c, what)
   BY DEF ActivateTerminal
 <2> QED BY <1>0, <2>1, PagelessAnswers DEF PageWords
<1> QED BY <1>6, <1>7, <1>8 DEF TerminalInv

\* The handler of c is done: no window is left.
LEMMA WindowsEnd ==
  ASSUME Core, NEW c \in Connection, Window(c), Goes(c, "idle")
  PROVE  \A d \in Connection : ~Window(d)'
<1>1. doing'[c] = "idle" /\ \A d \in Connection : d # c => doing'[d] = doing[d]
  BY DEF Goes, Core, Shapes
<1>2. \A d \in Connection : Window(d) => d = c
  BY WindowFacts
<1> QED BY <1>1, <1>2 DEF Window

\* ... and each player's device has the token that his session has then.
LEMMA HandledTerminal ==
  ASSUME Core, StepFacts, TerminalHeld, \A d \in Connection : ~Window(d)',
         \A p \in Connection : \A t \in held'[p] :
           /\ t \in held[p] \/ (t \in Token /\ Drawn(cred', Admitted', t) /\ TokenPlayer(cred', t) = p)
           /\ Usable(cred', p) => t = cred'.session[p].token
  PROVE  TerminalHeld' /\ TerminalWindows'
<1>1. \A p \in Connection : \A t \in held'[p] : t \in Token /\ Drawn(cred', Admitted', t) /\ TokenPlayer(cred', t) = p
  BY TokensHeld
<1> QED BY <1>1 DEF TerminalHeld, TerminalWindows

LEMMA DeliverTerminal ==
  ASSUME Core, StepFacts, ~Web, TerminalInv, NEW c \in Connection, Deliver(c)
  PROVE  TerminalInv'
<1>0. /\ TerminalHeld /\ TerminalWindows /\ Pageless /\ Window(c) /\ doing[c] = "delivering"
      /\ held \in [Connection -> SUBSET Token]
  BY DEF TerminalInv, Deliver, Window, Core, Shapes
<1>1. PICK p : p = cred.restored[c].player
  OBVIOUS
<1>2. /\ p \in Connection /\ HasSession(cred, p) /\ Valid(cred, p) /\ cred.session[p].token = New(c)
      /\ \A d \in Connection : Window(d) => d = c
  BY <1>0, <1>1, WindowFacts DEF Usable, TerminalWindows
<1>3. \A q \in Connection : Kept(cred, WentOnline(cred, p), q)
  BY <1>2, OnlineTurn DEF Core
<1>4. CASE /\ cred' = AllInvalidated(WentOnline(cred, p), {previous[c]} \ {Nobody}) /\ Goes(c, "idle")
           /\ held' = [held EXCEPT ![p] = {New(c)}] /\ Answers(c, "reconnected", New(c))
 <2>1. cred' = WentOnline(cred, p)
  <3>1. {previous[c]} \ {Nobody} \in SUBSET Connection
    BY DEF Core, Shapes, ConnectionOrNone
  <3> QED BY <1>4, <3>1, NothingCloses
 <2>2. \A d \in Connection : ~Window(d)'
   BY <1>0, <1>4, WindowsEnd
 <2>3. cred'.restored = cred.restored
   BY AskingFacts
 <2>4. ASSUME NEW q \in Connection, NEW t \in held'[q]
       PROVE  /\ t \in held[q] \/ (t \in Token /\ Drawn(cred', Admitted', t) /\ TokenPlayer(cred', t) = q)
              /\ Usable(cred', q) => t = cred'.session[q].token
  <3>1. CASE q = p
   <4>1. t = New(c)
     BY <1>0, <1>4, <2>4, <3>1
   <4>2. t \in Token /\ Drawn(cred', Admitted', t) /\ TokenPlayer(cred', t) = q
     BY <1>1, <1>2, <2>3, <3>1, <4>1, TokenFacts, ConnectionsAreNumbers DEF Drawn, TokenPlayer
   <4> QED BY <1>2, <1>3, <2>1, <3>1, <4>1, <4>2 DEF Kept
  <3>2. CASE q # p
   <4>1. t \in held[q]
     BY <1>0, <1>4, <2>4, <3>2
   <4>2. Usable(cred, q) => t = cred.session[q].token
     BY <1>0, <1>1, <1>2, <3>2, <4>1 DEF TerminalHeld
   <4> QED BY <1>3, <2>1, <4>1, <4>2 DEF Kept
  <3> QED BY <3>1, <3>2
 <2>5. Pageless'
   BY <1>0, <1>4, PagelessAnswers DEF PageWords
 <2> QED BY <1>0, <2>2, <2>4, <2>5, HandledTerminal DEF TerminalInv
<1>5. CASE cred' \in {WentOnline(cred, p), cred} /\ Goes(c, "undoing") /\ UNCHANGED << held, request >>
 <2>1. \A q \in Connection : Kept(cred, cred', q)
   BY <1>3, <1>5, KeptItself
 <2>2. \A d \in Connection : Window(d)' <=> Window(d)
   BY <1>0, <1>5, WindowsSame
 <2> QED BY <1>0, <1>5, <2>1, <2>2, QuietTerminal, PagelessStays DEF TerminalInv
<1> QED BY <1>1, <1>4, <1>5 DEF Deliver

LEMMA UndoRestoreTerminal ==
  ASSUME Core, StepFacts, ~Web, TerminalInv, NEW c \in Connection, UndoRestore(c)
  PROVE  TerminalInv'
<1>0. /\ TerminalHeld /\ TerminalWindows /\ Pageless /\ Window(c) /\ held' = held
      /\ Goes(c, "idle") /\ Becomes(c, "failed") /\ Closes({c}, RolledBack(cred, c, FALSE))
  BY DEF TerminalInv, UndoRestore, Window, Fails
<1>1. PICK p : p = cred.restored[c].player
  OBVIOUS
<1>2. /\ p \in Connection /\ HasSession(cred, p) /\ Valid(cred, p) /\ cred.session[p].token = New(c)
      /\ cred.restored[c].previous = seen[c] /\ New(c) \notin held[p]
      /\ \A d \in Connection : Window(d) => d = c
  BY <1>0, <1>1, WindowFacts DEF Usable, TerminalWindows
<1>3. CanRollBack(cred, c, FALSE)
 <2>1. cred.index[New(c)] = p
   BY <1>2, TokenSessionFacts DEF Core, Books
 <2> QED BY <1>1, <1>2, <2>1 DEF CanRollBack
<1>4. RolledBackTo(cred, cred', c, FALSE)
  BY <1>0, <1>3, ClosesNothing, RolledBackCases DEF Core
<1>5. /\ cred'.session[p].token = seen[c]
      /\ \A q \in Connection : q # p => cred'.session[q] = cred.session[q]
  BY <1>1, <1>2, <1>4 DEF RolledBackTo
<1>6. ASSUME NEW q \in Connection, NEW t \in held'[q]
      PROVE  t \in held[q] /\ (Usable(cred', q) => t = cred'.session[q].token)
 <2>1. t \in held[q]
   BY <1>0, <1>6
 <2>2. Usable(cred, q) => t = cred.session[q].token \/ (q = p /\ seen[c] = t)
   BY <1>0, <1>1, <1>2, <2>1 DEF TerminalHeld
 <2>3. CASE q = p
   BY <1>2, <1>5, <2>1, <2>2, <2>3 DEF Usable
 <2>4. CASE q # p
   BY <1>5, <2>1, <2>2, <2>4 DEF Usable, HasSession, Valid
 <2> QED BY <2>3, <2>4
<1>7. \A d \in Connection : ~Window(d)'
  BY <1>0, WindowsEnd
<1>8. Pageless'
  BY <1>0, PagelessAnswers DEF PageWords
<1> QED BY <1>0, <1>6, <1>7, <1>8, HandledTerminal DEF TerminalInv

LEMMA RestoreTerminal ==
  ASSUME Core, StepFacts, ~Web, TerminalInv, NEW c \in Connection, Restore(c)
  PROVE  TerminalInv'
<1>0. PICK t, p, now : t = seen[c] /\ p = PlayerOf(Resolved(cred, t), t) /\ now = Restored(cred, t, c, Web)
  OBVIOUS
<1>1. /\ TerminalHeld /\ TerminalWindows /\ Pageless /\ doing[c] = "restoring" /\ seen' = seen
      /\ held \in [Connection -> SUBSET Token]
      /\ cred.restored[c].player = Nobody /\ Web \in BOOLEAN /\ t \in TokenOrNone
      /\ ~(\E d \in Connection : Window(d)) /\ ~Window(c)
 <2>1. doing[c] = "restoring" /\ seen' = seen
   BY DEF Restore
 <2> QED BY <1>0, <2>1, RestoringFacts DEF TerminalInv, Core, Shapes
<1>2. Resolved(cred, t) = cred
  BY <1>1, PresentsNothing
<1>3. CASE ~Restorable(cred, t, Web)
 <2>1. Goes(c, "idle") /\ Answers(c, "rejected", Own(c)) /\ cred' = cred /\ held' = held
   BY <1>0, <1>3 DEF Restore
 <2>2. \A d \in Connection : Window(d)' <=> Window(d)
   BY <1>1, <2>1, WindowsSame
 <2>3. Pageless'
   BY <1>1, <2>1, PagelessAnswers DEF PageWords
 <2> QED BY <1>1, <2>1, <2>2, <2>3, StillTerminal DEF TerminalInv
<1>4. CASE Restorable(cred, t, Web)
 <2>1. RestoredTo(cred, now, p, t, c, Web, Admitted) /\ Books(now, Admitted)
   BY <1>0, <1>1, <1>2, <1>4, RestoringFacts
 <2>2. /\ now \in Credentials /\ p \in Connection /\ p # c /\ t \in Token
       /\ HasSession(cred, p) /\ Valid(cred, p) /\ cred.session[p].token = t /\ cred.rotation[p] = NoRotation
       /\ now.session[p].token = New(c) /\ HasSession(now, p) /\ now.rotation[p] = NoRotation
       /\ now.restored[c].player = p /\ now.restored[c].previous = t /\ now.index[New(c)] = p
       /\ ~HasSession(now, c) /\ now.rotation[c] = NoRotation
       /\ \A q \in Connection : q # p /\ q # c =>
            /\ now.session[q] = cred.session[q] /\ now.rotation[q] = cred.rotation[q]
            /\ HasSession(now, q) <=> HasSession(cred, q)
            /\ Valid(now, q) <=> Valid(cred, q)
   BY <2>1 DEF RestoredTo
 <2>3. held' = held
  <3>1. held' = [held EXCEPT ![p] = IF Resolved(cred, t) = cred THEN @ ELSE {t}]
    BY <1>0, <1>4 DEF Restore
  <3> QED BY <1>1, <1>2, <3>1
 <2>4. CASE Fails(c, RolledBack(now, c, Web))
  <3>1. /\ cred' = RolledBack(now, c, Web) /\ Goes(c, "idle") /\ Becomes(c, "failed")
    BY <2>4, ClosesNothing DEF Fails
  <3>2. CanRollBack(now, c, Web)
    BY <2>2 DEF CanRollBack
  <3>3. RolledBackTo(now, cred', c, Web)
    BY <1>1, <2>1, <2>2, <3>1, <3>2, RolledBackCases
  <3>4. /\ cred'.session[p].token = t /\ HasSession(cred', p) /\ cred'.rotation[p] = NoRotation
        /\ \A q \in Connection : q # p =>
             /\ cred'.session[q] = now.session[q] /\ cred'.rotation[q] = now.rotation[q]
             /\ HasSession(cred', q) <=> HasSession(now, q)
             /\ Valid(cred', q) <=> Valid(now, q)
    BY <2>2, <3>3 DEF RolledBackTo
  <3>5. Kept(cred, cred', p)
    BY <2>2, <3>4 DEF Kept, Usable
  <3>6. Ended(cred, cred', c)
    BY <2>2, <3>4 DEF Ended
  <3>7. \A q \in Connection : q # p /\ q # c => Kept(cred, cred', q)
    BY <2>2, <3>4 DEF Kept, Usable
  <3>8. \A d \in Connection : Window(d)' <=> Window(d)
    BY <1>1, <3>1, WindowsSame
  <3>9. Pageless'
    BY <1>1, <3>1, PagelessAnswers DEF PageWords
  <3> QED BY <1>1, <2>3, <3>5, <3>6, <3>7, <3>8, <3>9, QuietTerminal DEF TerminalInv
 <2>5. CASE cred' = now /\ Goes(c, "delivering") /\ UNCHANGED request
  <3>1. Window(c)' /\ \A d \in Connection : d # c => ~Window(d)'
   <4>1. doing'[c] = "delivering" /\ \A d \in Connection : d # c => doing'[d] = doing[d]
     BY <2>5 DEF Goes, Core, Shapes
   <4> QED BY <1>1, <4>1 DEF Window
  <3>2. ASSUME NEW q \in Connection, NEW u \in held'[q]
        PROVE  /\ u \in Token /\ Drawn(cred', Admitted', u) /\ TokenPlayer(cred', u) = q
               /\ Usable(cred', q) =>
                    \/ u = cred'.session[q].token
                    \/ \E d \in Connection : Window(d)' /\ cred'.restored[d].player = q /\ seen'[d] = u
   <4>1. u \in held[q]
     BY <2>3, <3>2
   <4>2. Usable(cred, q) => u = cred.session[q].token
     BY <1>1, <4>1 DEF TerminalHeld
   <4>3. CASE q = p
    <5>1. u = t
      BY <2>2, <4>2, <4>3 DEF Usable
    <5>2. Window(c)' /\ cred'.restored[c].player = q /\ seen'[c] = u
      BY <1>0, <1>1, <2>2, <2>5, <3>1, <4>3, <5>1
    <5> QED BY <1>1, <4>1, <5>2, TokensHeld
   <4>4. CASE q = c
     BY <1>1, <2>2, <2>5, <4>1, <4>4, TokensHeld DEF Usable
   <4>5. CASE q # p /\ q # c
     BY <1>1, <2>2, <2>5, <4>1, <4>2, <4>5, TokensHeld DEF Usable
   <4> QED BY <4>3, <4>4, <4>5
  <3>3. New(c) \notin held[p]
   <4>1. ~Drawn(cred, Admitted, New(c))
     BY <1>1, TokenFacts DEF Drawn
   <4> QED BY <1>1, <2>2, <4>1 DEF TerminalHeld
  <3>4. TerminalHeld'
    BY <3>2 DEF TerminalHeld
  <3>5. TerminalWindows'
   <4>1. ASSUME NEW d \in Connection, Window(d)'
         PROVE  /\ cred'.session[cred'.restored[d].player].token = New(d)
                /\ New(d) \notin held'[cred'.restored[d].player]
     BY <2>2, <2>3, <2>5, <3>1, <3>3, <4>1
   <4> QED BY <4>1 DEF TerminalWindows
  <3> QED BY <1>1, <2>5, <3>4, <3>5, PagelessStays DEF TerminalInv
 <2> QED BY <1>0, <1>4, <2>4, <2>5 DEF Restore
<1> QED BY <1>3, <1>4

LEMMA EveryTerminalStep ==
  ASSUME Core, StepFacts, ~Web, TerminalInv, [ReconnectNext]_reconnectVars
  PROVE  TerminalInv'
<1>1. CASE UNCHANGED reconnectVars
 <2>1. cred' = cred /\ held' = held /\ doing' = doing /\ request' = request
   BY <1>1 DEF reconnectVars, server, device
 <2> QED BY <2>1, StillTerminal, WindowsStay, PagelessStays DEF TerminalInv
<1>2. CASE TimePasses
  BY <1>2, ClockTerminal
<1>3. ASSUME NEW c \in Connection, Opening(c)
      PROVE  TerminalInv'
 <2>1. ~Upgrade(c) /\ ~ActivateBrowser(c)
   BY DEF Upgrade, ActivateBrowser
 <2> QED BY <1>3, <2>1, IdleTerminal, ActivateTerminalHeld DEF Opening
<1>4. ASSUME NEW c \in Connection, Reconnecting(c)
      PROVE  TerminalInv'
  BY <1>4, IdleTerminal, RestoreTerminal, DeliverTerminal, UndoRestoreTerminal DEF Reconnecting
<1>5. ASSUME NEW c \in Connection, Ending(c) \/ Commanding(c) \/ Expiring(c)
      PROVE  TerminalInv'
  BY <1>5, IdleTerminal, OfflineTerminal, TalkTerminal DEF Ending, Commanding, Expiring
<1>6. ASSUME NEW c \in Connection, Paging(c) \/ Revoking(c)
      PROVE  TerminalInv'
  BY <1>6, TalkTerminal
<1> QED BY <1>1, <1>2, <1>3, <1>4, <1>5, <1>6 DEF ReconnectNext

LEMMA HoldingsKept ==
  ASSUME Core, Kinds, Holdings, [ReconnectNext]_reconnectVars
  PROVE  Holdings'
<1>1. StepFacts /\ Core' /\ (Web' <=> Web)
  BY EveryStepFacts, CoreKept DEF StepFacts, Web
<1>2. CASE Web
 <2>1. Deep /\ HeldInv
   BY <1>2 DEF Kinds, Holdings
 <2>2. HeldMove /\ WebMove
   BY <1>1, <1>2, <2>1, EveryWebHeld, EveryWebStep
 <2> QED BY <1>1, <1>2, <2>1, <2>2, HeldKept DEF Holdings
<1>3. CASE ~Web
 <2>1. TerminalInv'
   BY <1>1, <1>3, EveryTerminalStep DEF Holdings
 <2> QED BY <1>1, <1>3, <2>1 DEF Holdings
<1> QED BY <1>2, <1>3

LEMMA HoldingsInit ==
  ASSUME ReconnectInit
  PROVE  Holdings
<1>1. \A p \in Connection : held[p] = {}
  BY DEF ReconnectInit
<1>2. HeldInv /\ TerminalHeld
  BY <1>1 DEF HeldInv, TerminalHeld
<1>3. TerminalWindows
  BY NobodyHasCome DEF TerminalWindows
<1>4. Pageless
  BY DEF ReconnectInit, NoRequest, Pageless, PageWords
<1> QED BY <1>2, <1>3, <1>4 DEF Holdings, TerminalInv

LEMMA HoldingsAlways == ReconnectSpec => [](Core /\ Kinds /\ Holdings)
<1>1. ReconnectInit => Core /\ Kinds /\ Holdings
  BY CoreInit, DeepInit, HoldingsInit DEF Kinds, ReconnectInit
<1>2. Core /\ Kinds /\ Holdings /\ [ReconnectNext]_reconnectVars => (Core /\ Kinds /\ Holdings)'
  BY CoreKept, KindsKept, HoldingsKept
<1> QED BY <1>1, <1>2, PTL DEF ReconnectSpec

\* Every token of a player's lineage leads to him while his credential is good.
LEMMA LineageLeadsBack ==
  ASSUME Core, NEW p \in Connection, HasSession(cred, p), Valid(cred, p), NEW t \in Lineage(cred, p)
  PROVE  cred.index[t] = p
<1>1. cred.index[cred.session[p].token] = p
  BY TokenSessionFacts DEF Core, Books
<1>2. CASE cred.rotation[p].by = Nobody
  BY <1>1, <1>2, LineageIs DEF Core
<1>3. CASE cred.rotation[p].by # Nobody
 <2>1. /\ cred.session[p].token = New(cred.rotation[p].by)
       /\ cred.index[cred.restored[cred.rotation[p].by].previous] = p
   BY <1>3, RotationFacts DEF Core, Books
 <2> QED BY <1>1, <1>3, <2>1, LineageIs DEF Core
<1> QED BY <1>2, <1>3

LEMMA HeldThen ==
  ASSUME Core, Holdings
  PROVE  HeldTokensComeBack
<1>1. SUFFICES ASSUME NEW p \in Connection, HasSession(cred, p), Valid(cred, p), NEW t \in held[p]
               PROVE  (cred.index[t] = p /\ t \in Lineage(cred, p)) \/ GoesBack(p, t)
  BY DEF HeldTokensComeBack
<1>2. CASE t \in Lineage(cred, p)
  BY <1>1, <1>2, LineageLeadsBack
<1>3. CASE Web
 <2>1. t \in Lineage(cred, p)
   BY <1>1, <1>3 DEF Holdings, HeldInv, Counts
 <2> QED BY <1>2, <2>1
<1>4. CASE ~Web
 <2>1. TerminalHeld /\ cred \in Credentials
   BY <1>4 DEF Holdings, TerminalInv, Core
 <2>2. CASE t = cred.session[p].token
   BY <1>2, <2>1, <2>2, LineageIs
 <2>3. ASSUME NEW c \in Connection, Window(c), cred.restored[c].player = p, seen[c] = t
       PROVE  GoesBack(p, t)
   BY <2>3, WindowFacts DEF GoesBack, Window
 <2> QED BY <1>1, <2>1, <2>2, <2>3 DEF TerminalHeld, Usable
<1> QED BY <1>3, <1>4

\* While the credential of a player is good, every token that the device may
\* still hold leads to that player or is about to be put back, whichever answer was lost;
\* a rotation that is open has its ticket, and no two tickets are for one
\* player's (OrphanBrowserRestore, RollbackRestore, invalidateEntry).
THEOREM TokensStayKept == ReconnectSpec => []TokensAreKept
<1>1. Core /\ Kinds /\ Holdings => TokensAreKept
 <2>1. Core => ReconnectTypeOK
   BY DEF Core, Shapes, ReconnectTypeOK, ConnectionOrNone, TokenOrNone
 <2>2. Core /\ Holdings => HeldTokensComeBack
   BY HeldThen
 <2>3. Core /\ Kinds => RotationEnds /\ OneRotationTicket
   BY RotationsEndThen
 <2> QED BY <2>1, <2>2, <2>3 DEF TokensAreKept
<1> QED BY <1>1, HoldingsAlways, PTL
=============================================================================
