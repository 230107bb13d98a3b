-------------------------- MODULE ReconnectProofs ---------------------------
(***************************************************************************)
(* What holds of identities, tokens and browser sessions, for any          *)
(* connections and devices.                                                *)
(*                                                                         *)
(* First the session manager alone: its books (Books) relate the index of  *)
(* tokens, the sessions, the rotations, the aliases of spent tokens and    *)
(* what the handlers restored, and each of its operations keeps them.      *)
(* Then every step of the connections, the handler, the browser and its    *)
(* logouts: what it does to the books, to the shape of the state, to how   *)
(* far each connection has come, to the tokens a device may show and to    *)
(* the tickets. Together these are inductive (Core).                       *)
(*                                                                         *)
(***************************************************************************)
EXTENDS Reconnect, TLAPS

-----------------------------------------------------------------------------
(* The words of the proofs                                                 *)

Phases == {"unborn", "upgraded", "idle", "draining", "restoring", "delivering", "undoing",
           "undone", "leaving", "gone"}
Requests == {"none", "ask", "asked", "ticket", "commit", "committed", "refresh", "up", "failed",
             "reconnected", "rejected", "revoke", "revoking", "revoked", "out"}
TokenOrNone == Token \cup {NoToken}
ConnectionOrNone == Connection \cup {Nobody}

\* The player a token was drawn for, and who has been admitted.
TokenPlayer(cr, t) == IF t[2] = "own" THEN t[1] ELSE cr.restored[t[1]].player
Admitted == {c \in Connection : ident[c] # Nobody}

\* Whether a token can have been drawn yet.
Drawn(cr, A, t) == t \in Token /\ IF t[2] = "own" THEN t[1] \in A ELSE cr.restored[t[1]].player # Nobody

\* A session that one can still come back to.
Usable(cr, p) == HasSession(cr, p) /\ Valid(cr, p)

\* A token leads to the player it was drawn for.
IndexIsRight(cr, A) == \A t \in Token : cr.index[t] # Nobody =>
  Drawn(cr, A, t) /\ cr.index[t] = TokenPlayer(cr, t)

\* A spent token leads to nobody any more.
AliasIsSpent(cr, A) == \A t \in Token : cr.alias[t] # Nobody =>
  Drawn(cr, A, t) /\ cr.alias[t] = TokenPlayer(cr, t) /\ cr.index[t] = Nobody

\* The token of a session, and its credential.
SessionHasToken(cr, A) == \A p \in Connection : HasSession(cr, p) =>
  LET t == cr.session[p].token IN
  /\ p \in A /\ Drawn(cr, A, t) /\ TokenPlayer(cr, t) = p /\ cr.alias[t] = Nobody
  /\ cr.session[p].online => ~cr.session[p].lapsed
  /\ Valid(cr, p) => cr.index[t] = p

\* What was restored was a token of its player.
RestoresLeadBack(cr, A) == \A c \in Connection :
  IF cr.restored[c].player = Nobody THEN cr.restored[c] = NotRestored ELSE
  LET p == cr.restored[c].player  t == cr.restored[c].previous IN
  /\ c \in A /\ p \in A /\ p # c /\ Drawn(cr, A, t) /\ TokenPlayer(cr, t) = p /\ t[1] # c

\* An open rotation has both its tokens.
RotationsAreOpen(cr, A) == \A p \in Connection : LET by == cr.rotation[p].by IN
  IF by = Nobody THEN cr.rotation[p] = NoRotation ELSE
  /\ HasSession(cr, p) /\ cr.session[p].token = New(by) /\ cr.restored[by].player = p
  /\ cr.alias[cr.restored[by].previous] = Nobody
  /\ Valid(cr, p) => cr.index[cr.restored[by].previous] = p

Books(cr, A) == IndexIsRight(cr, A) /\ AliasIsSpent(cr, A) /\ SessionHasToken(cr, A)
                /\ RestoresLeadBack(cr, A) /\ RotationsAreOpen(cr, A)

\* Terminal clients leave no rotation open.
TuiBooks(cr) == (\A p \in Connection : cr.rotation[p] = NoRotation) /\ (\A t \in Token : cr.alias[t] = Nobody)

\* How far the handling of a reconnect has come.
Window(c) == doing[c] \in {"delivering", "undoing", "undone"}
Holding(c) == Window(c) \/ doing[c] = "restoring"
Busy(c) == Holding(c) \/ doing[c] = "draining"
Asker(c) == request[c].what \in {"ask", "asked"}

-----------------------------------------------------------------------------
(* The operations of the session manager                                   *)

LEMMA ConnectionsAreNumbers == Connection \subseteq Nat \ {0} /\ Nobody \notin Connection /\ Nobody = 0
  BY CredentialsAssumption DEF Nobody

LEMMA TokenFacts ==
  /\ \A c \in Connection : Own(c) \in Token /\ New(c) \in Token
  /\ NoToken \notin Token
  /\ \A c, d : Own(c) # New(d) /\ (Own(c) = Own(d) => c = d) /\ (New(c) = New(d) => c = d)
  /\ \A t \in Token : t[1] \in Connection /\ t[2] \in {"own", "new"}
  /\ \A t \in Token : t[2] = "own" => t = Own(t[1])
  /\ \A t \in Token : t[2] = "new" => t = New(t[1])
  /\ \A c : Own(c)[1] = c /\ Own(c)[2] = "own" /\ New(c)[1] = c /\ New(c)[2] = "new"
  BY ConnectionsAreNumbers DEF Token, NoToken, Own, New

LEMMA CredentialTypes ==
  ASSUME NEW cr \in Credentials
  PROVE  /\ \A p \in Connection :
              /\ cr.session[p] \in [token : TokenOrNone, online : BOOLEAN, lapsed : BOOLEAN]
              /\ cr.session[p].token \in TokenOrNone
              /\ cr.session[p].online \in BOOLEAN /\ cr.session[p].lapsed \in BOOLEAN
              /\ cr.rotation[p] \in [by : ConnectionOrNone, orphaned : BOOLEAN]
              /\ cr.rotation[p].by \in ConnectionOrNone /\ cr.rotation[p].orphaned \in BOOLEAN
              /\ cr.restored[p].player \in ConnectionOrNone
              /\ cr.restored[p].previous \in TokenOrNone
              /\ cr.restored[p].online \in BOOLEAN
         /\ \A t \in Token : cr.index[t] \in ConnectionOrNone /\ cr.alias[t] \in ConnectionOrNone
  BY DEF Credentials, TokenOrNone, ConnectionOrNone

\* What the books say of one player, session, rotation and restore.
LEMMA SessionFacts ==
  ASSUME NEW cr \in Credentials, NEW A, SessionHasToken(cr, A), NEW p \in Connection
  PROVE  /\ HasSession(cr, p) <=> cr.session[p].token # NoToken
         /\ HasSession(cr, p) => cr.session[p].token \in Token
         /\ ~HasSession(cr, p) => cr.session[p] = NoSession /\ cr.session[p].token = NoToken
<1>1. ~HasSession(cr, p) => cr.session[p] = NoSession /\ cr.session[p].token = NoToken
  BY ConnectionsAreNumbers DEF HasSession, NoSession
<1>2. HasSession(cr, p) => Drawn(cr, A, cr.session[p].token)
  BY DEF SessionHasToken
<1>3. HasSession(cr, p) => cr.session[p].token \in Token
  BY <1>2 DEF Drawn
<1> QED BY <1>1, <1>3, TokenFacts

LEMMA TokenSessionFacts ==
  ASSUME NEW cr \in Credentials, NEW A, SessionHasToken(cr, A), NEW p \in Connection,
         HasSession(cr, p)
  PROVE  /\ p \in A /\ cr.session[p].token \in Token /\ Drawn(cr, A, cr.session[p].token)
         /\ TokenPlayer(cr, cr.session[p].token) = p
         /\ cr.alias[cr.session[p].token] = Nobody
         /\ cr.session[p].online => ~cr.session[p].lapsed
         /\ Valid(cr, p) => cr.index[cr.session[p].token] = p
  BY SessionFacts DEF SessionHasToken

LEMMA RestoreFacts ==
  ASSUME NEW cr \in Credentials, NEW A, RestoresLeadBack(cr, A), NEW c \in Connection,
         cr.restored[c].player # Nobody
  PROVE  /\ c \in A /\ cr.restored[c].player \in A /\ cr.restored[c].player \in Connection
         /\ cr.restored[c].player # c
         /\ cr.restored[c].previous \in Token /\ Drawn(cr, A, cr.restored[c].previous)
         /\ TokenPlayer(cr, cr.restored[c].previous) = cr.restored[c].player
         /\ cr.restored[c].previous[1] # c
<1>1. cr.restored[c].player \in Connection
  BY CredentialTypes DEF ConnectionOrNone
<1>2. /\ c \in A /\ cr.restored[c].player \in A
      /\ cr.restored[c].player # c
      /\ Drawn(cr, A, cr.restored[c].previous)
      /\ TokenPlayer(cr, cr.restored[c].previous) = cr.restored[c].player
      /\ cr.restored[c].previous[1] # c
  BY DEF RestoresLeadBack
<1> QED BY <1>1, <1>2 DEF Drawn

LEMMA RotationFacts ==
  ASSUME NEW cr \in Credentials, NEW A, RotationsAreOpen(cr, A), NEW p \in Connection,
         cr.rotation[p].by # Nobody
  PROVE  /\ cr.rotation[p].by \in Connection /\ HasSession(cr, p)
         /\ cr.session[p].token = New(cr.rotation[p].by)
         /\ cr.restored[cr.rotation[p].by].player = p
         /\ cr.alias[cr.restored[cr.rotation[p].by].previous] = Nobody
         /\ Valid(cr, p) => cr.index[cr.restored[cr.rotation[p].by].previous] = p
<1>1. cr.rotation[p].by \in Connection
  BY CredentialTypes DEF ConnectionOrNone
<1> QED BY <1>1 DEF RotationsAreOpen

\* An open rotation: its two tokens, and the restore that opened it.
LEMMA OpenRotation ==
  ASSUME NEW cr \in Credentials, NEW A, Books(cr, A), NEW p \in Connection,
         cr.rotation[p].by # Nobody
  PROVE  /\ cr.rotation[p].by \in Connection /\ cr.rotation[p].by \in A /\ p \in A
         /\ HasSession(cr, p) /\ p # cr.rotation[p].by
         /\ cr.session[p].token = New(cr.rotation[p].by)
         /\ cr.restored[cr.rotation[p].by].player = p
         /\ cr.restored[cr.rotation[p].by].previous \in Token
         /\ Drawn(cr, A, cr.restored[cr.rotation[p].by].previous)
         /\ TokenPlayer(cr, cr.restored[cr.rotation[p].by].previous) = p
         /\ cr.restored[cr.rotation[p].by].previous # New(cr.rotation[p].by)
         /\ cr.alias[cr.restored[cr.rotation[p].by].previous] = Nobody
         /\ Valid(cr, p) => cr.index[cr.restored[cr.rotation[p].by].previous] = p
<1>1. PICK by \in Connection : by = cr.rotation[p].by
  BY CredentialTypes DEF ConnectionOrNone
<1>2. /\ HasSession(cr, p) /\ cr.session[p].token = New(by) /\ cr.restored[by].player = p
      /\ cr.alias[cr.restored[by].previous] = Nobody
      /\ Valid(cr, p) => cr.index[cr.restored[by].previous] = p
  BY <1>1, RotationFacts DEF Books
<1>3. cr.restored[by].player # Nobody
  BY <1>2, ConnectionsAreNumbers
<1>4. RestoresLeadBack(cr, A)
  BY DEF Books
<1>5. /\ by \in A /\ p \in A /\ p # by
      /\ cr.restored[by].previous \in Token /\ Drawn(cr, A, cr.restored[by].previous)
      /\ TokenPlayer(cr, cr.restored[by].previous) = p
      /\ cr.restored[by].previous[1] # by
  BY <1>2, <1>3, <1>4, RestoreFacts
<1>6. cr.restored[by].previous # New(by)
  BY <1>5, TokenFacts
<1> QED BY <1>1, <1>2, <1>5, <1>6

LEMMA OpenRotationBy ==
  ASSUME NEW cr \in Credentials, NEW A, Books(cr, A), NEW p \in Connection, NEW by \in Connection,
         cr.rotation[p].by = by
  PROVE  /\ by \in A /\ p \in A /\ HasSession(cr, p) /\ p # by
         /\ cr.session[p].token = New(by) /\ cr.restored[by].player = p
         /\ cr.restored[by].previous \in Token /\ Drawn(cr, A, cr.restored[by].previous)
         /\ TokenPlayer(cr, cr.restored[by].previous) = p
         /\ cr.restored[by].previous # New(by)
         /\ cr.alias[cr.restored[by].previous] = Nobody
         /\ Valid(cr, p) => cr.index[cr.restored[by].previous] = p
<1>1. cr.rotation[p].by # Nobody
  BY ConnectionsAreNumbers
<1> QED BY <1>1, OpenRotation

LEMMA CreatedIs ==
  ASSUME NEW cr \in Credentials, NEW p \in Connection
  PROVE  LET now == Created(cr, p) IN
         /\ now \in Credentials
         /\ now.session = [cr.session EXCEPT ![p] = [token |-> Own(p), online |-> TRUE, lapsed |-> FALSE]]
         /\ now.index = [cr.index EXCEPT ![Own(p)] = p]
         /\ now.rotation = cr.rotation /\ now.alias = cr.alias /\ now.restored = cr.restored
  BY TokenFacts DEF Created, Credentials

LEMMA CreatedBooks ==
  ASSUME NEW cr \in Credentials, NEW A \in SUBSET Connection, Books(cr, A),
         NEW p \in Connection, p \notin A
  PROVE  Books(Created(cr, p), A \cup {p})
<1> DEFINE now == Created(cr, p)
<1>1. /\ now \in Credentials
      /\ now.session = [cr.session EXCEPT ![p] = [token |-> Own(p), online |-> TRUE, lapsed |-> FALSE]]
      /\ now.index = [cr.index EXCEPT ![Own(p)] = p]
      /\ now.rotation = cr.rotation /\ now.alias = cr.alias /\ now.restored = cr.restored
  BY CreatedIs
<1> HIDE DEF now
<1> USE TokenFacts, CredentialTypes, ConnectionsAreNumbers DEF Books
<1>2. IndexIsRight(now, A \cup {p})
  BY <1>1 DEF IndexIsRight, Drawn, TokenPlayer, Credentials
<1>3. AliasIsSpent(now, A \cup {p})
  BY <1>1 DEF AliasIsSpent, Drawn, TokenPlayer, Credentials
<1>4. SessionHasToken(now, A \cup {p})
  BY <1>1 DEF SessionHasToken, AliasIsSpent, Drawn, TokenPlayer, Credentials, HasSession, Valid
<1>5. RestoresLeadBack(now, A \cup {p})
  BY <1>1 DEF RestoresLeadBack, Drawn, TokenPlayer, Credentials
<1>6. RotationsAreOpen(now, A \cup {p})
 <2>1. ~HasSession(cr, p)
   BY DEF SessionHasToken
 <2>2. cr.rotation[p] = NoRotation
   BY <2>1 DEF RotationsAreOpen, NoRotation
 <2>3. ASSUME NEW q \in Connection, cr.rotation[q].by # Nobody
       PROVE  /\ q # p /\ cr.rotation[q].by \in Connection
              /\ cr.restored[cr.rotation[q].by].previous \in Token \ {Own(p)}
  <3>1. q # p
    BY <2>2, <2>3 DEF NoRotation
  <3>2. /\ cr.rotation[q].by \in Connection
        /\ cr.restored[cr.rotation[q].by].previous \in Token
        /\ Drawn(cr, A, cr.restored[cr.rotation[q].by].previous)
    BY <2>3, OpenRotation
  <3>4. ~Drawn(cr, A, Own(p))
    BY DEF Drawn
  <3> QED BY <3>1, <3>2, <3>4
 <2> QED
   BY <1>1, <2>2, <2>3
   DEF RotationsAreOpen, Credentials, HasSession, Valid, NoRotation
<1> QED BY <1>2, <1>3, <1>4, <1>5, <1>6 DEF now

LEMMA OfflineIs ==
  ASSUME NEW cr \in Credentials, NEW A, SessionHasToken(cr, A), NEW p \in Connection
  PROVE  LET now == WentOffline(cr, p) IN
         /\ now \in Credentials
         /\ \A q \in Connection :
              /\ now.session[q].token = cr.session[q].token
              /\ q # p => now.session[q] = cr.session[q]
              /\ now.session[q].online => cr.session[q].online
              /\ now.session[q].lapsed => cr.session[q].lapsed
              /\ HasSession(now, q) <=> HasSession(cr, q)
              /\ HasSession(cr, q) => (Valid(now, q) <=> Valid(cr, q))
         /\ now.index = cr.index
         /\ now.rotation = cr.rotation /\ now.alias = cr.alias /\ now.restored = cr.restored
<1> DEFINE now == WentOffline(cr, p)
<1>1. CASE ~cr.session[p].online
  BY <1>1, CredentialTypes DEF WentOffline
<1>2. CASE cr.session[p].online
 <2>1. now = [cr EXCEPT !.session[p] = [@ EXCEPT !.online = FALSE, !.lapsed = FALSE]]
   BY <1>2 DEF WentOffline
 <2> HIDE DEF now
 <2>2. HasSession(cr, p)
   BY <1>2, CredentialTypes, SessionFacts DEF NoSession
 <2>0. [cr.session[p] EXCEPT !.online = FALSE, !.lapsed = FALSE]
          \in [token : TokenOrNone, online : BOOLEAN, lapsed : BOOLEAN]
   BY CredentialTypes
 <2>3. /\ now.index = cr.index /\ now.rotation = cr.rotation /\ now.alias = cr.alias
       /\ now.restored = cr.restored /\ now \in Credentials
       /\ now.session = [cr.session EXCEPT ![p] = [@ EXCEPT !.online = FALSE, !.lapsed = FALSE]]
   BY <2>0, <2>1 DEF Credentials, TokenOrNone
 <2>4. \A q \in Connection :
         /\ now.session[q].token = cr.session[q].token
         /\ q # p => now.session[q] = cr.session[q]
         /\ now.session[q].online => cr.session[q].online
         /\ now.session[q].lapsed => cr.session[q].lapsed
   BY <2>3, CredentialTypes DEF Credentials
 <2>5. HasSession(now, p)
  <3>1. now.session[p].token # NoToken
    BY <2>2, <2>4, SessionFacts
  <3> QED BY <3>1, ConnectionsAreNumbers DEF HasSession, NoSession
 <2>6. Valid(now, p) /\ Valid(cr, p)
   BY <1>2, <2>3, CredentialTypes DEF Credentials, Valid
 <2>7. \A q \in Connection : q # p =>
         /\ HasSession(now, q) <=> HasSession(cr, q)
         /\ Valid(now, q) <=> Valid(cr, q)
   BY <2>4 DEF HasSession, Valid
 <2> QED BY <2>2, <2>3, <2>4, <2>5, <2>6, <2>7 DEF now
<1> QED BY <1>1, <1>2

\* An operation that leaves the tokens as they are leaves the books right.
LEMMA SameTokensBooks ==
  ASSUME NEW cr \in Credentials, NEW A, Books(cr, A), NEW now \in Credentials,
         now.index = cr.index, now.rotation = cr.rotation, now.restored = cr.restored,
         \A t \in Token : now.alias[t] \in {cr.alias[t], Nobody},
         \A q \in Connection :
           /\ now.session[q].token = cr.session[q].token
           /\ HasSession(now, q) <=> HasSession(cr, q)
           /\ HasSession(cr, q) /\ Valid(now, q) => Valid(cr, q)
           /\ now.session[q].online => ~now.session[q].lapsed
  PROVE  Books(now, A)
<1>1. \A t : (Drawn(now, A, t) <=> Drawn(cr, A, t)) /\ TokenPlayer(now, t) = TokenPlayer(cr, t)
  BY DEF Drawn, TokenPlayer
<1>2. IndexIsRight(now, A)
  BY <1>1 DEF Books, IndexIsRight
<1>3. AliasIsSpent(now, A)
  BY <1>1 DEF Books, AliasIsSpent
<1>4. SessionHasToken(now, A)
  BY <1>1, SessionFacts, ConnectionsAreNumbers DEF Books, SessionHasToken
<1>5. RestoresLeadBack(now, A)
  BY <1>1 DEF Books, RestoresLeadBack
<1>6. RotationsAreOpen(now, A)
 <2>1. ASSUME NEW p \in Connection, cr.rotation[p].by # Nobody
       PROVE  cr.restored[cr.rotation[p].by].previous \in Token
   BY <2>1, OpenRotation
 <2>2. ASSUME NEW p \in Connection, cr.rotation[p].by # Nobody
       PROVE  /\ HasSession(now, p)
              /\ now.session[p].token = New(cr.rotation[p].by)
              /\ cr.restored[cr.rotation[p].by].player = p
              /\ now.alias[cr.restored[cr.rotation[p].by].previous] = Nobody
              /\ Valid(now, p) => cr.index[cr.restored[cr.rotation[p].by].previous] = p
   BY <2>1, <2>2, RotationFacts DEF Books
 <2> QED BY <2>2 DEF Books, RotationsAreOpen
<1> QED BY <1>2, <1>3, <1>4, <1>5, <1>6 DEF Books

LEMMA OfflineBooks ==
  ASSUME NEW cr \in Credentials, NEW A, Books(cr, A), NEW p \in Connection
  PROVE  Books(WentOffline(cr, p), A)
<1> DEFINE now == WentOffline(cr, p)
<1>1. SessionHasToken(cr, A)
  BY DEF Books
<1>2. /\ now \in Credentials
      /\ \A q \in Connection :
           /\ now.session[q].token = cr.session[q].token
           /\ now.session[q].online => cr.session[q].online
           /\ now.session[q].lapsed => cr.session[q].lapsed
           /\ HasSession(now, q) <=> HasSession(cr, q)
           /\ HasSession(cr, q) => (Valid(now, q) <=> Valid(cr, q))
      /\ now.index = cr.index
      /\ now.rotation = cr.rotation /\ now.alias = cr.alias /\ now.restored = cr.restored
  BY <1>1, OfflineIs
<1> HIDE DEF now
<1>3. \A q \in Connection : cr.session[q].online => ~cr.session[q].lapsed
  BY <1>1, SessionFacts DEF SessionHasToken, NoSession
<1>4. Books(now, A)
  BY <1>2, <1>3, SameTokensBooks
<1> QED BY <1>4 DEF now

LEMMA OnlineIs ==
  ASSUME NEW cr \in Credentials, NEW A, SessionHasToken(cr, A), NEW p \in Connection
  PROVE  LET now == WentOnline(cr, p) IN
         /\ now \in Credentials
         /\ \A q \in Connection :
              /\ now.session[q].token = cr.session[q].token
              /\ q # p => now.session[q] = cr.session[q]
              /\ HasSession(now, q) <=> HasSession(cr, q)
              /\ q = p /\ HasSession(cr, q) => now.session[q].online /\ ~now.session[q].lapsed
         /\ ~HasSession(cr, p) => now = cr
         /\ now.index = cr.index
         /\ now.rotation = cr.rotation /\ now.alias = cr.alias /\ now.restored = cr.restored
<1> DEFINE now == WentOnline(cr, p)
<1>1. CASE ~HasSession(cr, p)
  BY <1>1 DEF WentOnline
<1>2. CASE HasSession(cr, p)
 <2>1. now = [cr EXCEPT !.session[p] = [@ EXCEPT !.online = TRUE, !.lapsed = FALSE]]
   BY <1>2 DEF WentOnline
 <2> HIDE DEF now
 <2>0. [cr.session[p] EXCEPT !.online = TRUE, !.lapsed = FALSE]
          \in [token : TokenOrNone, online : BOOLEAN, lapsed : BOOLEAN]
   BY CredentialTypes
 <2>3. /\ now.index = cr.index /\ now.rotation = cr.rotation /\ now.alias = cr.alias
       /\ now.restored = cr.restored /\ now \in Credentials
       /\ now.session = [cr.session EXCEPT ![p] = [@ EXCEPT !.online = TRUE, !.lapsed = FALSE]]
   BY <2>0, <2>1 DEF Credentials, TokenOrNone
 <2>4. \A q \in Connection :
         /\ now.session[q].token = cr.session[q].token
         /\ q # p => now.session[q] = cr.session[q]
         /\ q = p => now.session[q].online /\ ~now.session[q].lapsed
   BY <2>3, CredentialTypes DEF Credentials
 <2>5. HasSession(now, p)
  <3>1. now.session[p].token # NoToken
    BY <1>2, <2>4, SessionFacts
  <3> QED BY <3>1, ConnectionsAreNumbers DEF HasSession, NoSession
 <2>7. \A q \in Connection : q # p => (HasSession(now, q) <=> HasSession(cr, q))
   BY <2>4 DEF HasSession
 <2> QED BY <1>2, <2>3, <2>4, <2>5, <2>7 DEF now
<1> QED BY <1>1, <1>2

LEMMA OnlineBooks ==
  ASSUME NEW cr \in Credentials, NEW A, Books(cr, A), NEW p \in Connection,
         HasSession(cr, p) => Valid(cr, p)
  PROVE  Books(WentOnline(cr, p), A)
<1> DEFINE now == WentOnline(cr, p)
<1>1. SessionHasToken(cr, A)
  BY DEF Books
<1>2. /\ now \in Credentials
      /\ \A q \in Connection :
           /\ now.session[q].token = cr.session[q].token
           /\ q # p => now.session[q] = cr.session[q]
           /\ HasSession(now, q) <=> HasSession(cr, q)
           /\ q = p /\ HasSession(cr, q) => now.session[q].online /\ ~now.session[q].lapsed
      /\ ~HasSession(cr, p) => now = cr
      /\ now.index = cr.index
      /\ now.rotation = cr.rotation /\ now.alias = cr.alias /\ now.restored = cr.restored
  BY <1>1, OnlineIs
<1> HIDE DEF now
<1>3. \A q \in Connection : cr.session[q].online => ~cr.session[q].lapsed
  BY <1>1, SessionFacts DEF SessionHasToken, NoSession
<1>4. ASSUME NEW q \in Connection
      PROVE  /\ HasSession(cr, q) /\ Valid(now, q) => Valid(cr, q)
             /\ now.session[q].online => ~now.session[q].lapsed
 <2>1. CASE q # p
   BY <1>2, <1>3, <2>1 DEF Valid
 <2>2. CASE q = p
   BY <1>2, <1>3, <2>2
 <2> QED BY <2>1, <2>2
<1>5. Books(now, A)
  BY <1>2, <1>4, SameTokensBooks
<1> QED BY <1>5 DEF now

LEMMA LapsedIs ==
  ASSUME NEW cr \in Credentials, NEW A, SessionHasToken(cr, A), NEW p \in Connection
  PROVE  LET now == Lapsed(cr, p) IN
         /\ now \in Credentials
         /\ \A q \in Connection :
              /\ now.session[q].token = cr.session[q].token
              /\ now.session[q].online = cr.session[q].online
              /\ q # p => now.session[q] = cr.session[q]
              /\ HasSession(cr, q) => HasSession(now, q)
              /\ q # p => (HasSession(now, q) <=> HasSession(cr, q))
         /\ now.session[p].lapsed
         /\ now.index = cr.index
         /\ now.rotation = cr.rotation /\ now.alias = cr.alias /\ now.restored = cr.restored
<1> DEFINE now == Lapsed(cr, p)
<1>1. now = [cr EXCEPT !.session[p] = [@ EXCEPT !.lapsed = TRUE]]
  BY DEF Lapsed
<1> HIDE DEF now
<1>2. [cr.session[p] EXCEPT !.lapsed = TRUE] \in [token : TokenOrNone, online : BOOLEAN, lapsed : BOOLEAN]
  BY CredentialTypes
<1>3. /\ now.index = cr.index /\ now.rotation = cr.rotation /\ now.alias = cr.alias
      /\ now.restored = cr.restored /\ now \in Credentials
      /\ now.session = [cr.session EXCEPT ![p] = [@ EXCEPT !.lapsed = TRUE]]
  BY <1>1, <1>2 DEF Credentials, TokenOrNone
<1>4. \A q \in Connection :
        /\ now.session[q].token = cr.session[q].token
        /\ now.session[q].online = cr.session[q].online
        /\ q # p => now.session[q] = cr.session[q]
  BY <1>3, CredentialTypes DEF Credentials
<1>5. now.session[p].lapsed
  BY <1>3, CredentialTypes DEF Credentials
<1>6. HasSession(now, p)
 <2>1. now.session[p] # NoSession
   BY <1>5 DEF NoSession
 <2> QED BY <2>1, ConnectionsAreNumbers DEF HasSession
<1>7. \A q \in Connection : q # p => (HasSession(now, q) <=> HasSession(cr, q))
  BY <1>4 DEF HasSession
<1> QED BY <1>3, <1>4, <1>5, <1>6, <1>7 DEF now

LEMMA LapsedBooks ==
  ASSUME NEW cr \in Credentials, NEW A, Books(cr, A), NEW p \in Connection,
         HasSession(cr, p), ~cr.session[p].online
  PROVE  Books(Lapsed(cr, p), A)
<1> DEFINE now == Lapsed(cr, p)
<1>1. SessionHasToken(cr, A)
  BY DEF Books
<1>2. /\ now \in Credentials
      /\ \A q \in Connection :
           /\ now.session[q].token = cr.session[q].token
           /\ now.session[q].online = cr.session[q].online
           /\ q # p => now.session[q] = cr.session[q]
           /\ HasSession(cr, q) => HasSession(now, q)
           /\ q # p => (HasSession(now, q) <=> HasSession(cr, q))
      /\ now.session[p].lapsed
      /\ now.index = cr.index
      /\ now.rotation = cr.rotation /\ now.alias = cr.alias /\ now.restored = cr.restored
  BY <1>1, LapsedIs
<1> HIDE DEF now
<1>3. \A q \in Connection : cr.session[q].online => ~cr.session[q].lapsed
  BY <1>1, SessionFacts DEF SessionHasToken, NoSession
<1>4. ASSUME NEW q \in Connection
      PROVE  /\ HasSession(now, q) <=> HasSession(cr, q)
             /\ HasSession(cr, q) /\ Valid(now, q) => Valid(cr, q)
             /\ now.session[q].online => ~now.session[q].lapsed
 <2>1. CASE q # p
   BY <1>2, <1>3, <2>1 DEF Valid
 <2>2. CASE q = p
   BY <1>2, <1>3, <2>2 DEF Valid
 <2> QED BY <2>1, <2>2
<1>5. Books(now, A)
  BY <1>2, <1>4, SameTokensBooks
<1> QED BY <1>5 DEF now

LEMMA AliasExpiredIs ==
  ASSUME NEW cr \in Credentials, NEW t \in Token
  PROVE  LET now == AliasExpired(cr, t) IN
         /\ now \in Credentials
         /\ now.alias = [cr.alias EXCEPT ![t] = Nobody]
         /\ now.session = cr.session /\ now.index = cr.index
         /\ now.rotation = cr.rotation /\ now.restored = cr.restored
  BY DEF AliasExpired, Credentials

LEMMA AliasExpiredBooks ==
  ASSUME NEW cr \in Credentials, NEW A, Books(cr, A), NEW t \in Token
  PROVE  Books(AliasExpired(cr, t), A)
<1> DEFINE now == AliasExpired(cr, t)
<1>1. /\ now \in Credentials
      /\ now.alias = [cr.alias EXCEPT ![t] = Nobody]
      /\ now.session = cr.session /\ now.index = cr.index
      /\ now.rotation = cr.rotation /\ now.restored = cr.restored
  BY AliasExpiredIs
<1> HIDE DEF now
<1>2. SessionHasToken(cr, A)
  BY DEF Books
<1>3. \A q \in Connection : cr.session[q].online => ~cr.session[q].lapsed
  BY <1>2, SessionFacts DEF SessionHasToken, NoSession
<1>4. \A u \in Token : now.alias[u] \in {cr.alias[u], Nobody}
  BY <1>1 DEF Credentials
<1>5. \A q \in Connection :
        /\ now.session[q].token = cr.session[q].token
        /\ HasSession(now, q) <=> HasSession(cr, q)
        /\ HasSession(cr, q) /\ Valid(now, q) => Valid(cr, q)
        /\ now.session[q].online => ~now.session[q].lapsed
  BY <1>1, <1>3 DEF HasSession, Valid
<1>6. Books(now, A)
  BY <1>1, <1>4, <1>5, SameTokensBooks
<1> QED BY <1>6 DEF now

\* An operation that takes tokens of p only, and its session with its rotation
\* or neither, leaves the books right.
LEMMA FewerTokensBooks ==
  ASSUME NEW cr \in Credentials, NEW A, Books(cr, A), NEW now \in Credentials,
         NEW p \in Connection, now.restored = cr.restored,
         \A t \in Token : /\ now.index[t] \in {cr.index[t], Nobody}
                          /\ now.alias[t] \in {cr.alias[t], Nobody}
                          /\ Drawn(cr, A, t) /\ TokenPlayer(cr, t) # p => now.index[t] = cr.index[t],
         \A q \in Connection : q # p => now.session[q] = cr.session[q] /\ now.rotation[q] = cr.rotation[q],
         \/ now.session[p] = NoSession /\ now.rotation[p] = NoRotation
         \/ now.session[p] = cr.session[p] /\ now.rotation[p] = cr.rotation[p] /\ ~Valid(cr, p)
  PROVE  Books(now, A)
<1> USE ConnectionsAreNumbers
<1>1. \A t : (Drawn(now, A, t) <=> Drawn(cr, A, t)) /\ TokenPlayer(now, t) = TokenPlayer(cr, t)
  BY DEF Drawn, TokenPlayer
<1>2. IndexIsRight(now, A)
  BY <1>1 DEF Books, IndexIsRight
<1>3. AliasIsSpent(now, A)
  BY <1>1 DEF Books, AliasIsSpent
<1>4. SessionHasToken(cr, A)
  BY DEF Books
<1>5. ASSUME NEW q \in Connection
      PROVE  \/ ~HasSession(now, q) /\ now.session[q] = NoSession /\ now.rotation[q] = NoRotation
             \/ /\ now.session[q] = cr.session[q] /\ now.rotation[q] = cr.rotation[q]
                /\ HasSession(now, q) <=> HasSession(cr, q)
                /\ Valid(now, q) <=> Valid(cr, q)
                /\ q # p \/ ~Valid(cr, q)
  BY DEF HasSession, Valid
<1>6. SessionHasToken(now, A)
 <2>1. ASSUME NEW q \in Connection, HasSession(now, q)
       PROVE  LET t == now.session[q].token IN
              /\ q \in A /\ Drawn(now, A, t) /\ TokenPlayer(now, t) = q /\ now.alias[t] = Nobody
              /\ now.session[q].online => ~now.session[q].lapsed
              /\ Valid(now, q) => now.index[t] = q
  <3>1. /\ now.session[q] = cr.session[q] /\ HasSession(cr, q)
        /\ Valid(now, q) <=> Valid(cr, q)
        /\ q # p \/ ~Valid(cr, q)
    BY <1>5, <2>1
  <3> DEFINE t == cr.session[q].token
  <3>2. /\ q \in A /\ t \in Token /\ Drawn(cr, A, t) /\ TokenPlayer(cr, t) = q
        /\ cr.alias[t] = Nobody
        /\ cr.session[q].online => ~cr.session[q].lapsed
        /\ Valid(cr, q) => cr.index[t] = q
    BY <3>1, <1>4, TokenSessionFacts
  <3> HIDE DEF t
  <3>3. now.alias[t] = Nobody
    BY <3>2
  <3>4. Valid(now, q) => now.index[t] = q
    BY <3>1, <3>2
  <3> QED BY <1>1, <3>1, <3>2, <3>3, <3>4 DEF t
 <2> QED BY <2>1 DEF SessionHasToken
<1>7. RestoresLeadBack(now, A)
  BY <1>1 DEF Books, RestoresLeadBack
<1>8. RotationsAreOpen(now, A)
 <2>1. ASSUME NEW q \in Connection, now.rotation[q].by # Nobody
       PROVE  /\ HasSession(now, q) /\ now.session[q].token = New(now.rotation[q].by)
              /\ now.restored[now.rotation[q].by].player = q
              /\ now.alias[now.restored[now.rotation[q].by].previous] = Nobody
              /\ Valid(now, q) => now.index[now.restored[now.rotation[q].by].previous] = q
  <3>1. /\ now.session[q] = cr.session[q] /\ now.rotation[q] = cr.rotation[q]
        /\ HasSession(now, q) <=> HasSession(cr, q)
        /\ Valid(now, q) <=> Valid(cr, q)
        /\ q # p \/ ~Valid(cr, q)
    BY <1>5, <2>1 DEF NoRotation
  <3> DEFINE t == cr.restored[cr.rotation[q].by].previous
  <3>2. /\ HasSession(cr, q)
        /\ cr.session[q].token = New(cr.rotation[q].by)
        /\ cr.restored[cr.rotation[q].by].player = q
        /\ t \in Token /\ Drawn(cr, A, t) /\ TokenPlayer(cr, t) = q
        /\ cr.alias[t] = Nobody
        /\ Valid(cr, q) => cr.index[t] = q
    BY <2>1, <3>1, OpenRotation
  <3> HIDE DEF t
  <3>3. now.alias[t] = Nobody
    BY <3>2
  <3>4. Valid(now, q) => now.index[t] = q
    BY <3>1, <3>2
  <3> QED BY <3>1, <3>2, <3>3, <3>4 DEF t
 <2>2. \A q \in Connection : now.rotation[q].by = Nobody => now.rotation[q] = NoRotation
   BY <1>5 DEF Books, RotationsAreOpen
 <2> QED BY <2>1, <2>2 DEF RotationsAreOpen
<1> QED BY <1>2, <1>3, <1>6, <1>7, <1>8 DEF Books

\* The tokens of a lineage are its player's.
LEMMA LineageFacts ==
  ASSUME NEW cr \in Credentials, NEW A, Books(cr, A), NEW p \in Connection, NEW t \in Lineage(cr, p)
  PROVE  \/ t = NoToken
         \/ /\ t \in Token /\ Drawn(cr, A, t)
            /\ TokenPlayer(cr, t) = p /\ HasSession(cr, p)
<1>1. CASE t = cr.session[p].token
  BY <1>1, SessionFacts, TokenSessionFacts DEF Books
<1>2. CASE cr.rotation[p].by # Nobody /\ t \in {cr.restored[cr.rotation[p].by].previous, New(cr.rotation[p].by)}
 <2>1. /\ HasSession(cr, p) /\ cr.session[p].token = New(cr.rotation[p].by)
       /\ cr.restored[cr.rotation[p].by].previous \in Token
       /\ Drawn(cr, A, cr.restored[cr.rotation[p].by].previous)
       /\ TokenPlayer(cr, cr.restored[cr.rotation[p].by].previous) = p
   BY <1>2, OpenRotation
 <2>2. CASE t = New(cr.rotation[p].by)
   BY <1>1, <2>1, <2>2
 <2>3. CASE t = cr.restored[cr.rotation[p].by].previous
   BY <2>1, <2>3
 <2> QED BY <1>2, <2>2, <2>3
<1> QED BY <1>1, <1>2 DEF Lineage

LEMMA DeletedIs ==
  ASSUME NEW cr \in Credentials, NEW A, Books(cr, A), NEW p \in Connection
  PROVE  LET now == Deleted(cr, p) IN
         /\ now \in Credentials /\ now.restored = cr.restored
         /\ \A t \in Token :
              /\ t \in Lineage(cr, p) => now.index[t] = Nobody
              /\ t \notin Lineage(cr, p) => now.index[t] = cr.index[t]
              /\ cr.alias[t] = p => now.alias[t] = Nobody
              /\ cr.alias[t] # p => now.alias[t] = cr.alias[t]
              /\ Drawn(cr, A, t) /\ TokenPlayer(cr, t) # p => now.index[t] = cr.index[t]
         /\ ~HasSession(now, p) /\ now.session[p] = NoSession /\ now.rotation[p] = NoRotation
         /\ \A q \in Connection : q # p =>
              /\ now.session[q] = cr.session[q] /\ now.rotation[q] = cr.rotation[q]
              /\ HasSession(now, q) <=> HasSession(cr, q)
<1> DEFINE now == Deleted(cr, p)
           gone == Lineage(cr, p)
<1>1. now = [cr EXCEPT !.session[p] = NoSession, !.rotation[p] = NoRotation,
             !.index = [t \in Token |-> IF t \in gone THEN Nobody ELSE cr.index[t]],
             !.alias = [t \in Token |-> IF cr.alias[t] = p THEN Nobody ELSE cr.alias[t]]]
  BY DEF Deleted
<1>2. \A t \in Token : t \in gone => TokenPlayer(cr, t) = p
  BY LineageFacts, TokenFacts
<1> HIDE DEF now, gone
<1>3. NoSession \in [token : TokenOrNone, online : BOOLEAN, lapsed : BOOLEAN]
      /\ NoRotation \in [by : ConnectionOrNone, orphaned : BOOLEAN]
  BY DEF NoSession, NoRotation, TokenOrNone, ConnectionOrNone
<1>4. /\ now.restored = cr.restored
      /\ now.session = [cr.session EXCEPT ![p] = NoSession]
      /\ now.rotation = [cr.rotation EXCEPT ![p] = NoRotation]
      /\ now.index = [t \in Token |-> IF t \in gone THEN Nobody ELSE cr.index[t]]
      /\ now.alias = [t \in Token |-> IF cr.alias[t] = p THEN Nobody ELSE cr.alias[t]]
  BY <1>1 DEF Credentials
<1>10. [t \in Token |-> IF t \in gone THEN Nobody ELSE cr.index[t]] \in [Token -> ConnectionOrNone]
  BY CredentialTypes DEF ConnectionOrNone
<1>11. [t \in Token |-> IF cr.alias[t] = p THEN Nobody ELSE cr.alias[t]] \in [Token -> ConnectionOrNone]
  BY CredentialTypes DEF ConnectionOrNone
<1>12. now \in Credentials
  BY <1>1, <1>3, <1>10, <1>11 DEF Credentials, TokenOrNone, ConnectionOrNone
<1>5. \A t \in Token :
        /\ t \in gone => now.index[t] = Nobody
        /\ t \notin gone => now.index[t] = cr.index[t]
        /\ cr.alias[t] = p => now.alias[t] = Nobody
        /\ cr.alias[t] # p => now.alias[t] = cr.alias[t]
        /\ Drawn(cr, A, t) /\ TokenPlayer(cr, t) # p => now.index[t] = cr.index[t]
  BY <1>2, <1>4
<1>6. now.session[p] = NoSession /\ now.rotation[p] = NoRotation
  BY <1>4 DEF Credentials
<1>7. \A q \in Connection : q # p =>
        /\ now.session[q] = cr.session[q] /\ now.rotation[q] = cr.rotation[q]
  BY <1>4 DEF Credentials
<1> QED BY <1>4, <1>5, <1>6, <1>7, <1>12 DEF now, gone, HasSession

LEMMA DeletedBooks ==
  ASSUME NEW cr \in Credentials, NEW A, Books(cr, A), NEW p \in Connection
  PROVE  Books(Deleted(cr, p), A)
<1> DEFINE now == Deleted(cr, p)
<1>1. /\ now \in Credentials /\ now.restored = cr.restored
      /\ \A t \in Token :
           /\ t \in Lineage(cr, p) => now.index[t] = Nobody
           /\ t \notin Lineage(cr, p) => now.index[t] = cr.index[t]
           /\ cr.alias[t] = p => now.alias[t] = Nobody
           /\ cr.alias[t] # p => now.alias[t] = cr.alias[t]
           /\ Drawn(cr, A, t) /\ TokenPlayer(cr, t) # p => now.index[t] = cr.index[t]
      /\ now.session[p] = NoSession /\ now.rotation[p] = NoRotation
      /\ \A q \in Connection : q # p =>
           now.session[q] = cr.session[q] /\ now.rotation[q] = cr.rotation[q]
  BY DeletedIs
<1> HIDE DEF now
<1>2. Books(now, A)
  BY <1>1, FewerTokensBooks
<1> QED BY <1>2 DEF now

LEMMA ForgottenIs ==
  ASSUME NEW cr \in Credentials, NEW A, Books(cr, A), NEW p \in Connection
  PROVE  LET now == Forgotten(cr, p) IN
         /\ now \in Credentials /\ now.restored = cr.restored /\ now.session = cr.session
         /\ now.rotation = cr.rotation /\ now.alias = cr.alias
         /\ \A t \in Token : /\ now.index[t] \in {cr.index[t], Nobody}
                             /\ Drawn(cr, A, t) /\ TokenPlayer(cr, t) # p => now.index[t] = cr.index[t]
<1> DEFINE now == Forgotten(cr, p)
           by == cr.rotation[p].by
           gone == {cr.session[p].token} \cup (IF by = Nobody THEN {} ELSE {cr.restored[by].previous})
<1>1. now = [cr EXCEPT !.index = [t \in Token |-> IF t \in gone THEN Nobody ELSE cr.index[t]]]
  BY DEF Forgotten
<1>2. \A t \in Token : t \in gone => t \in Lineage(cr, p)
  BY DEF Lineage
<1>3. \A t \in Token : t \in gone => TokenPlayer(cr, t) = p
  BY <1>2, LineageFacts, TokenFacts
<1> HIDE DEF now, gone
<1>4. /\ now.restored = cr.restored /\ now.session = cr.session
      /\ now.rotation = cr.rotation /\ now.alias = cr.alias
      /\ now.index = [t \in Token |-> IF t \in gone THEN Nobody ELSE cr.index[t]]
      /\ now \in Credentials
  BY <1>1 DEF Credentials
<1> QED BY <1>3, <1>4 DEF now

LEMMA ForgottenBooks ==
  ASSUME NEW cr \in Credentials, NEW A, Books(cr, A), NEW p \in Connection, ~Valid(cr, p)
  PROVE  Books(Forgotten(cr, p), A)
<1> DEFINE now == Forgotten(cr, p)
<1>1. /\ now \in Credentials /\ now.restored = cr.restored /\ now.session = cr.session
      /\ now.rotation = cr.rotation /\ now.alias = cr.alias
      /\ \A t \in Token : /\ now.index[t] \in {cr.index[t], Nobody}
                          /\ Drawn(cr, A, t) /\ TokenPlayer(cr, t) # p => now.index[t] = cr.index[t]
  BY ForgottenIs
<1> HIDE DEF now
<1>2. Books(now, A)
  BY <1>1, FewerTokensBooks
<1> QED BY <1>2 DEF now

LEMMA OrphanedIs ==
  ASSUME NEW cr \in Credentials, NEW A, Books(cr, A), NEW c \in Connection
  PROVE  LET now == Orphaned(cr, c) IN
         /\ now \in Credentials /\ now.restored = cr.restored /\ now.session = cr.session
         /\ now.index = cr.index /\ now.alias = cr.alias
         /\ \A q \in Connection :
              /\ now.rotation[q].by = cr.rotation[q].by
              /\ cr.rotation[q].by = Nobody \/ cr.rotation[q].by # c => now.rotation[q] = cr.rotation[q]
              /\ cr.rotation[q].by = c => now.rotation[q] = [by |-> c, orphaned |-> TRUE]
<1> DEFINE now == Orphaned(cr, c)
           p == cr.restored[c].player
<1>1. ASSUME NEW q \in Connection, cr.rotation[q].by = c
      PROVE  q = p /\ p # Nobody
 <2>1. cr.rotation[q].by # Nobody
   BY <1>1, ConnectionsAreNumbers
 <2>2. cr.restored[cr.rotation[q].by].player = q
   BY <2>1, OpenRotation
 <2> QED BY <1>1, <2>2, ConnectionsAreNumbers
<1>2. CASE p # Nobody /\ cr.rotation[p].by = c
 <2>1. now = [cr EXCEPT !.rotation[p].orphaned = TRUE]
   BY <1>2 DEF Orphaned
 <2>2. p \in Connection
   BY <1>2, CredentialTypes DEF ConnectionOrNone
 <2> HIDE DEF now
 <2>3. [cr.rotation[p] EXCEPT !.orphaned = TRUE] = [by |-> c, orphaned |-> TRUE]
  <3>1. PICK r \in [by : ConnectionOrNone, orphaned : BOOLEAN] : r = cr.rotation[p]
    BY <2>2, CredentialTypes
  <3>2. r.by = c
    BY <3>1, <1>2
  <3>4. PICK o : o = [r EXCEPT !.orphaned = TRUE]
    OBVIOUS
  <3>5. o \in [by : ConnectionOrNone, orphaned : BOOLEAN] /\ o.by = r.by /\ o.orphaned = TRUE
    BY <3>1, <3>4
  <3>3. o = [by |-> c, orphaned |-> TRUE]
    BY <3>2, <3>5
  <3> QED BY <3>1, <3>3, <3>4
 <2>4. /\ now.restored = cr.restored /\ now.session = cr.session
       /\ now.index = cr.index /\ now.alias = cr.alias
       /\ now.rotation = [cr.rotation EXCEPT ![p] = [by |-> c, orphaned |-> TRUE]]
       /\ now \in Credentials
   BY <2>1, <2>2, <2>3 DEF Credentials
 <2>5. \A q \in Connection :
         now.rotation[q] = IF q = p THEN [by |-> c, orphaned |-> TRUE] ELSE cr.rotation[q]
   BY <2>2, <2>4 DEF Credentials
 <2>6. ASSUME NEW q \in Connection
       PROVE  /\ now.rotation[q].by = cr.rotation[q].by
              /\ cr.rotation[q].by = Nobody \/ cr.rotation[q].by # c => now.rotation[q] = cr.rotation[q]
              /\ cr.rotation[q].by = c => now.rotation[q] = [by |-> c, orphaned |-> TRUE]
  <3>1. CASE q = p
   <4>1. now.rotation[q] = [by |-> c, orphaned |-> TRUE]
     BY <2>5, <3>1
   <4>2. cr.rotation[q].by = c /\ c # Nobody
     BY <1>2, <3>1, ConnectionsAreNumbers
   <4> QED BY <4>1, <4>2
  <3>2. CASE q # p
    BY <1>1, <2>5, <3>2
  <3> QED BY <3>1, <3>2
 <2> QED BY <2>4, <2>6 DEF now
<1>3. CASE ~(p # Nobody /\ cr.rotation[p].by = c)
 <2>1. now = cr
   BY <1>3 DEF Orphaned
 <2>2. \A q \in Connection : cr.rotation[q].by # c
   BY <1>1, <1>3
 <2> QED BY <2>1, <2>2
<1> QED BY <1>2, <1>3

LEMMA OrphanedBooks ==
  ASSUME NEW cr \in Credentials, NEW A, Books(cr, A), NEW c \in Connection
  PROVE  Books(Orphaned(cr, c), A)
<1> DEFINE now == Orphaned(cr, c)
<1>1. /\ now \in Credentials /\ now.restored = cr.restored /\ now.session = cr.session
      /\ now.index = cr.index /\ now.alias = cr.alias
      /\ \A q \in Connection :
           /\ now.rotation[q].by = cr.rotation[q].by
           /\ cr.rotation[q].by = Nobody \/ cr.rotation[q].by # c => now.rotation[q] = cr.rotation[q]
  BY OrphanedIs
<1> HIDE DEF now
<1>2. \A t : (Drawn(now, A, t) <=> Drawn(cr, A, t)) /\ TokenPlayer(now, t) = TokenPlayer(cr, t)
  BY <1>1 DEF Drawn, TokenPlayer
<1>3. \A q : (HasSession(now, q) <=> HasSession(cr, q)) /\ (Valid(now, q) <=> Valid(cr, q))
  BY <1>1 DEF HasSession, Valid
<1>4. IndexIsRight(now, A) /\ AliasIsSpent(now, A) /\ RestoresLeadBack(now, A)
  BY <1>1, <1>2 DEF Books, IndexIsRight, AliasIsSpent, RestoresLeadBack
<1>5. SessionHasToken(now, A)
  BY <1>1, <1>2, <1>3 DEF Books, SessionHasToken
<1>6. RotationsAreOpen(now, A)
 <2>1. ASSUME NEW q \in Connection, now.rotation[q].by # Nobody
       PROVE  /\ HasSession(now, q) /\ now.session[q].token = New(now.rotation[q].by)
              /\ now.restored[now.rotation[q].by].player = q
              /\ now.alias[now.restored[now.rotation[q].by].previous] = Nobody
              /\ Valid(now, q) => now.index[now.restored[now.rotation[q].by].previous] = q
   BY <1>1, <1>3, <2>1, OpenRotation
 <2>2. \A q \in Connection : now.rotation[q].by = Nobody => now.rotation[q] = NoRotation
   BY <1>1 DEF Books, RotationsAreOpen
 <2> QED BY <2>1, <2>2 DEF RotationsAreOpen
<1>7. Books(now, A)
  BY <1>4, <1>5, <1>6 DEF Books
<1> QED BY <1>7 DEF now

-----------------------------------------------------------------------------
(* Settling a rotation: the token that is presented stays.                 *)

Settles(cr, t) ==
  /\ t # NoToken /\ cr.index[t] # Nobody
  /\ LET by == cr.rotation[cr.index[t]].by IN
     /\ by # Nobody
     /\ t = New(by) \/ (t = cr.restored[by].previous /\ cr.rotation[cr.index[t]].orphaned)

SettledTo(cr, now, p, by, winner, loser) ==
  /\ p \in Connection /\ by \in Connection /\ HasSession(cr, p)
  /\ cr.index[winner] = p /\ cr.rotation[p].by = by
  /\ \/ winner = New(by) /\ loser = cr.restored[by].previous
     \/ winner = cr.restored[by].previous /\ loser = New(by) /\ cr.rotation[p].orphaned
  /\ winner \in Token /\ loser \in Token /\ winner # loser
  /\ now \in Credentials /\ now.restored = cr.restored
  /\ \A q \in Connection : q # p =>
       /\ now.session[q] = cr.session[q] /\ now.rotation[q] = cr.rotation[q]
  /\ \A q \in Connection :
       /\ HasSession(now, q) <=> HasSession(cr, q)
       /\ Valid(now, q) <=> Valid(cr, q)
       /\ now.session[q].online <=> cr.session[q].online
       /\ now.session[q].lapsed <=> cr.session[q].lapsed
  /\ now.session[p].token = winner /\ now.rotation[p] = NoRotation
  /\ now.index[loser] = Nobody /\ now.alias[loser] = p
  /\ \A u \in Token : u # loser => now.index[u] = cr.index[u] /\ now.alias[u] = cr.alias[u]

LEMMA SettledIs ==
  ASSUME NEW cr \in Credentials, NEW A, Books(cr, A), NEW p \in Connection, NEW by \in Connection,
         cr.rotation[p].by = by,
         NEW winner \in Token, NEW loser \in Token, cr.index[winner] = p,
         \/ winner = New(by) /\ loser = cr.restored[by].previous
         \/ winner = cr.restored[by].previous /\ loser = New(by) /\ cr.rotation[p].orphaned
  PROVE  SettledTo(cr, Settled(cr, p, winner, loser), p, by, winner, loser)
<1> DEFINE now == Settled(cr, p, winner, loser)
<1>1. now = [cr EXCEPT !.session[p].token = winner, !.index[loser] = Nobody,
                       !.alias[loser] = p, !.rotation[p] = NoRotation]
  BY DEF Settled
<1> HIDE DEF now
<1>2. by # Nobody
  BY ConnectionsAreNumbers
<1>3. winner # loser /\ HasSession(cr, p)
  BY <1>2, OpenRotation
<1>4. [cr.session[p] EXCEPT !.token = winner] \in [token : TokenOrNone, online : BOOLEAN, lapsed : BOOLEAN]
  BY CredentialTypes DEF TokenOrNone
<1>5. NoRotation \in [by : ConnectionOrNone, orphaned : BOOLEAN]
  BY DEF NoRotation, ConnectionOrNone
<1>6. /\ now.restored = cr.restored
      /\ now.session = [cr.session EXCEPT ![p] = [@ EXCEPT !.token = winner]]
      /\ now.rotation = [cr.rotation EXCEPT ![p] = NoRotation]
      /\ now.index = [cr.index EXCEPT ![loser] = Nobody]
      /\ now.alias = [cr.alias EXCEPT ![loser] = p]
  BY <1>1 DEF Credentials
<1>7. now \in Credentials
  BY <1>1, <1>4, <1>5 DEF Credentials, TokenOrNone, ConnectionOrNone
<1>8. \A q \in Connection : q # p =>
        now.session[q] = cr.session[q] /\ now.rotation[q] = cr.rotation[q]
  BY <1>6 DEF Credentials
<1>9. /\ now.session[p].token = winner /\ now.rotation[p] = NoRotation
      /\ now.session[p].online = cr.session[p].online
      /\ now.session[p].lapsed = cr.session[p].lapsed
  BY <1>6, CredentialTypes DEF Credentials
<1>10. /\ now.index[loser] = Nobody /\ now.alias[loser] = p
       /\ \A u \in Token : u # loser => now.index[u] = cr.index[u] /\ now.alias[u] = cr.alias[u]
  BY <1>6 DEF Credentials
<1>11. HasSession(now, p)
 <2>1. now.session[p] # NoSession
   BY <1>9, TokenFacts DEF NoSession
 <2> QED BY <2>1, ConnectionsAreNumbers DEF HasSession
<1>12. \A q \in Connection :
         /\ HasSession(now, q) <=> HasSession(cr, q)
         /\ Valid(now, q) <=> Valid(cr, q)
         /\ now.session[q].online <=> cr.session[q].online
         /\ now.session[q].lapsed <=> cr.session[q].lapsed
  BY <1>3, <1>8, <1>9, <1>11 DEF HasSession, Valid
<1>13. SettledTo(cr, now, p, by, winner, loser)
  BY <1>3, <1>6, <1>7, <1>8, <1>9, <1>10, <1>12 DEF SettledTo
<1> QED BY <1>13 DEF now

\* Presenting a token settles the rotation it decides, or does nothing.
LEMMA ResolvedCases ==
  ASSUME NEW cr \in Credentials, NEW A, Books(cr, A), NEW t \in TokenOrNone
  PROVE  \/ ~Settles(cr, t) /\ Resolved(cr, t) = cr
         \/ /\ Settles(cr, t) /\ t \in Token
            /\ \E p, by \in Connection, loser \in Token :
                  SettledTo(cr, Resolved(cr, t), p, by, t, loser)
<1>1. CASE t = NoToken
  BY <1>1 DEF Resolved, HolderOf, Settles
<1>2. CASE t # NoToken
 <2>0. t \in Token
   BY <1>2 DEF TokenOrNone
 <2>1. PICK p \in ConnectionOrNone : p = cr.index[t]
   BY <2>0, CredentialTypes
 <2>2. HolderOf(cr, t) = p
   BY <1>2, <2>1 DEF HolderOf
 <2>3. CASE p = Nobody
   BY <2>1, <2>2, <2>3 DEF Resolved, Settles
 <2>4. CASE p # Nobody
  <3>1. p \in Connection
    BY <2>4 DEF ConnectionOrNone
  <3>2. PICK by \in ConnectionOrNone : by = cr.rotation[p].by
    BY <3>1, CredentialTypes
  <3>3. CASE by = Nobody
    BY <2>1, <2>2, <3>2, <3>3 DEF Resolved, Settles
  <3>4. CASE by # Nobody
   <4>1. by \in Connection
     BY <3>4 DEF ConnectionOrNone
   <4>2. PICK before \in Token : before = cr.restored[by].previous
     BY <3>1, <3>2, <3>4, OpenRotation
   <4>3. HasSession(cr, p) /\ before # New(by)
     BY <3>1, <3>2, <3>4, <4>2, OpenRotation
   <4>4. CASE t = New(by)
    <5>1. Resolved(cr, t) = Settled(cr, p, t, before)
      BY <2>2, <2>4, <3>2, <3>4, <4>2, <4>3, <4>4 DEF Resolved
    <5>2. SettledTo(cr, Settled(cr, p, t, before), p, by, t, before)
      BY <2>0, <2>1, <3>1, <3>2, <4>1, <4>2, <4>4, SettledIs
    <5>3. Settles(cr, t)
      BY <1>2, <2>1, <2>4, <3>2, <3>4, <4>4 DEF Settles
    <5> QED BY <2>0, <3>1, <4>1, <4>2, <5>1, <5>2, <5>3
   <4>5. CASE t # New(by) /\ t = before /\ cr.rotation[p].orphaned
    <5>1. Resolved(cr, t) = Settled(cr, p, t, New(by))
      BY <2>2, <2>4, <3>2, <3>4, <4>2, <4>3, <4>5 DEF Resolved
    <5>2. New(by) \in Token
      BY <4>1, TokenFacts
    <5>3. SettledTo(cr, Settled(cr, p, t, New(by)), p, by, t, New(by))
      BY <2>0, <2>1, <3>1, <3>2, <4>1, <4>2, <4>5, <5>2, SettledIs
    <5>4. Settles(cr, t)
      BY <1>2, <2>1, <2>4, <3>2, <3>4, <4>2, <4>5 DEF Settles
    <5> QED BY <2>0, <3>1, <4>1, <5>1, <5>2, <5>3, <5>4
   <4>6. CASE t # New(by) /\ ~(t = before /\ cr.rotation[p].orphaned)
     BY <2>1, <2>2, <3>2, <4>2, <4>6 DEF Resolved, Settles
   <4> QED BY <4>4, <4>5, <4>6
  <3> QED BY <3>3, <3>4
 <2> QED BY <2>3, <2>4
<1> QED BY <1>1, <1>2

LEMMA SettledBooks ==
  ASSUME NEW cr \in Credentials, NEW A, Books(cr, A), NEW now, NEW p, NEW by, NEW winner, NEW loser,
         SettledTo(cr, now, p, by, winner, loser)
  PROVE  now \in Credentials /\ Books(now, A)
<1> USE ConnectionsAreNumbers
<1>0. /\ now \in Credentials /\ now.restored = cr.restored
      /\ p \in Connection /\ by \in Connection /\ cr.rotation[p].by = by
      /\ winner \in Token /\ loser \in Token /\ winner # loser
      /\ cr.index[winner] = p /\ HasSession(cr, p)
      /\ now.index[loser] = Nobody /\ now.alias[loser] = p
      /\ \A u \in Token : u # loser => now.index[u] = cr.index[u] /\ now.alias[u] = cr.alias[u]
      /\ {winner, loser} = {New(by), cr.restored[by].previous}
  BY DEF SettledTo
<1>1. \A t : (Drawn(now, A, t) <=> Drawn(cr, A, t)) /\ TokenPlayer(now, t) = TokenPlayer(cr, t)
  BY <1>0 DEF Drawn, TokenPlayer
<1>2. /\ p \in A /\ cr.session[p].token = New(by) /\ cr.restored[by].player = p
      /\ cr.alias[cr.restored[by].previous] = Nobody
      /\ TokenPlayer(cr, cr.restored[by].previous) = p /\ Drawn(cr, A, cr.restored[by].previous)
 <2>1. p \in Connection /\ by \in Connection /\ cr.rotation[p].by = by
   BY <1>0
 <2> QED BY <2>1, OpenRotationBy
<1>3. /\ cr.alias[New(by)] = Nobody /\ Drawn(cr, A, New(by)) /\ TokenPlayer(cr, New(by)) = p
  BY <1>0, <1>2, TokenSessionFacts DEF Books
<1>4. /\ TokenPlayer(cr, winner) = p /\ TokenPlayer(cr, loser) = p
      /\ Drawn(cr, A, winner) /\ Drawn(cr, A, loser) /\ cr.alias[winner] = Nobody
  BY <1>0, <1>2, <1>3
<1>5. IndexIsRight(now, A)
  BY <1>0, <1>1 DEF Books, IndexIsRight
<1>6. AliasIsSpent(now, A)
  BY <1>0, <1>1, <1>4 DEF Books, AliasIsSpent
<1>7. ASSUME NEW q \in Connection
      PROVE  /\ HasSession(now, q) <=> HasSession(cr, q)
             /\ Valid(now, q) <=> Valid(cr, q)
             /\ now.session[q].online <=> cr.session[q].online
             /\ now.session[q].lapsed <=> cr.session[q].lapsed
             /\ q # p => now.session[q] = cr.session[q] /\ now.rotation[q] = cr.rotation[q]
             /\ q = p => now.session[q].token = winner /\ now.rotation[q] = NoRotation
  BY DEF SettledTo
<1>8. SessionHasToken(now, A)
 <2>1. ASSUME NEW q \in Connection, HasSession(now, q)
       PROVE  LET t == now.session[q].token IN
              /\ q \in A /\ Drawn(now, A, t) /\ TokenPlayer(now, t) = q /\ now.alias[t] = Nobody
              /\ now.session[q].online => ~now.session[q].lapsed
              /\ Valid(now, q) => now.index[t] = q
  <3>1. /\ q \in A /\ cr.session[q].token \in Token /\ Drawn(cr, A, cr.session[q].token)
        /\ TokenPlayer(cr, cr.session[q].token) = q
        /\ cr.alias[cr.session[q].token] = Nobody
        /\ cr.session[q].online => ~cr.session[q].lapsed
        /\ Valid(cr, q) => cr.index[cr.session[q].token] = q
    BY <1>7, <2>1, TokenSessionFacts DEF Books
  <3>2. CASE q = p
   <4>1. now.session[q].token = winner
     BY <1>7, <3>2
   <4>2. Drawn(now, A, winner) /\ TokenPlayer(now, winner) = q
     BY <1>1, <1>4, <3>2
   <4>3. now.alias[winner] = Nobody /\ now.index[winner] = q
     BY <1>0, <1>4, <3>2
   <4> QED BY <1>7, <3>1, <4>1, <4>2, <4>3
  <3>3. CASE q # p
   <4>1. now.session[q].token = cr.session[q].token
     BY <1>7, <3>3
   <4>2. cr.session[q].token # loser
     BY <1>4, <3>1, <3>3
   <4>3. now.alias[cr.session[q].token] = Nobody
         /\ now.index[cr.session[q].token] = cr.index[cr.session[q].token]
     BY <1>0, <3>1, <4>2
   <4> QED BY <1>1, <1>7, <3>1, <4>1, <4>3
  <3> QED BY <3>2, <3>3
 <2> QED BY <2>1 DEF SessionHasToken
<1>9. RestoresLeadBack(now, A)
  BY <1>0, <1>1 DEF Books, RestoresLeadBack
<1>10. RotationsAreOpen(now, A)
 <2>1. ASSUME NEW q \in Connection, now.rotation[q].by # Nobody
       PROVE  /\ HasSession(now, q) /\ now.session[q].token = New(now.rotation[q].by)
              /\ now.restored[now.rotation[q].by].player = q
              /\ now.alias[now.restored[now.rotation[q].by].previous] = Nobody
              /\ Valid(now, q) => now.index[now.restored[now.rotation[q].by].previous] = q
  <3>1. q # p
    BY <1>7, <2>1 DEF NoRotation
  <3>2. now.session[q] = cr.session[q] /\ now.rotation[q] = cr.rotation[q]
    BY <1>7, <3>1
  <3> DEFINE t == cr.restored[cr.rotation[q].by].previous
  <3>3. /\ HasSession(cr, q)
        /\ cr.session[q].token = New(cr.rotation[q].by)
        /\ cr.restored[cr.rotation[q].by].player = q
        /\ t \in Token /\ Drawn(cr, A, t) /\ TokenPlayer(cr, t) = q
        /\ cr.alias[t] = Nobody
        /\ Valid(cr, q) => cr.index[t] = q
    BY <2>1, <3>2, OpenRotation
  <3> HIDE DEF t
  <3>4. t # loser
    BY <1>4, <3>1, <3>3
  <3>5. now.alias[t] = Nobody /\ now.index[t] = cr.index[t]
    BY <1>0, <3>3, <3>4
  <3> QED BY <1>0, <1>7, <3>2, <3>3, <3>5 DEF t
 <2>2. \A q \in Connection : now.rotation[q].by = Nobody => now.rotation[q] = NoRotation
   BY <1>7 DEF Books, RotationsAreOpen
 <2> QED BY <2>1, <2>2 DEF RotationsAreOpen
<1> QED BY <1>0, <1>5, <1>6, <1>8, <1>9, <1>10 DEF Books

LEMMA ResolvedBooks ==
  ASSUME NEW cr \in Credentials, NEW A, Books(cr, A), NEW t \in TokenOrNone
  PROVE  Resolved(cr, t) \in Credentials /\ Books(Resolved(cr, t), A)
  BY ResolvedCases, SettledBooks

-----------------------------------------------------------------------------
(* Taking a rotation back, and opening one.                                *)

RolledBackTo(cr, now, c, web) ==
  LET p == cr.restored[c].player  t == cr.restored[c].previous IN
  /\ now \in Credentials /\ now.restored = cr.restored /\ now.alias = cr.alias
  /\ p \in Connection /\ t \in Token /\ HasSession(cr, p)
  /\ cr.session[p].token = New(c) /\ cr.index[New(c)] = p
  /\ web => cr.rotation[p] = [by |-> c, orphaned |-> FALSE]
  /\ now.session[p].token = t /\ HasSession(now, p) /\ ~now.session[p].lapsed
  /\ now.session[p].online <=> cr.restored[c].online
  /\ now.rotation[p] = NoRotation
  /\ now.index[New(c)] = Nobody /\ now.index[t] = p
  /\ \A u \in Token : u # New(c) /\ u # t => now.index[u] = cr.index[u]
  /\ \A q \in Connection : q # p =>
       /\ now.session[q] = cr.session[q] /\ now.rotation[q] = cr.rotation[q]
       /\ HasSession(now, q) <=> HasSession(cr, q)
       /\ Valid(now, q) <=> Valid(cr, q)

LEMMA RolledBackCases ==
  ASSUME NEW cr \in Credentials, NEW A, Books(cr, A), NEW c \in Connection, NEW web \in BOOLEAN
  PROVE  \/ /\ ~CanRollBack(cr, c, web) /\ ~HasSession(cr, cr.restored[c].player)
            /\ RolledBack(cr, c, web) = cr
         \/ /\ ~CanRollBack(cr, c, web) /\ HasSession(cr, cr.restored[c].player)
            /\ cr.restored[c].player \in Connection
            /\ RolledBack(cr, c, web) = WentOffline(cr, cr.restored[c].player)
         \/ CanRollBack(cr, c, web) /\ RolledBackTo(cr, RolledBack(cr, c, web), c, web)
<1>1. PICK p \in ConnectionOrNone : p = cr.restored[c].player
  BY CredentialTypes
<1>2. HasSession(cr, p) => p \in Connection
  BY DEF HasSession, ConnectionOrNone
<1>3. CASE ~CanRollBack(cr, c, web)
  BY <1>1, <1>2, <1>3 DEF RolledBack
<1>4. CASE CanRollBack(cr, c, web)
 <2>1. /\ HasSession(cr, p) /\ cr.index[New(c)] = p /\ cr.session[p].token = New(c)
       /\ web => cr.rotation[p] = [by |-> c, orphaned |-> FALSE]
   BY <1>1, <1>4 DEF CanRollBack
 <2>2. p \in Connection /\ p # Nobody
   BY <1>2, <2>1, ConnectionsAreNumbers
 <2>3. PICK t \in Token : t = cr.restored[c].previous
   BY <1>1, <2>2, RestoreFacts DEF Books
 <2>4. PICK on \in BOOLEAN : on = cr.restored[c].online
   BY CredentialTypes
 <2>5. t # New(c)
   BY <1>1, <2>2, <2>3, RestoreFacts, TokenFacts DEF Books
 <2>6. New(c) \in Token
   BY TokenFacts
 <2> DEFINE now == RolledBack(cr, c, web)
 <2>7. now = [cr EXCEPT !.index[New(c)] = Nobody, !.index[t] = p,
                        !.session[p] = [token |-> t, online |-> on, lapsed |-> FALSE],
                        !.rotation[p] = NoRotation]
   BY <1>1, <1>4, <2>3, <2>4 DEF RolledBack
 <2> HIDE DEF now
 <2>8. /\ now.restored = cr.restored /\ now.alias = cr.alias
       /\ now.session = [cr.session EXCEPT ![p] = [token |-> t, online |-> on, lapsed |-> FALSE]]
       /\ now.rotation = [cr.rotation EXCEPT ![p] = NoRotation]
       /\ now.index = [cr.index EXCEPT ![New(c)] = Nobody, ![t] = p]
   BY <2>7 DEF Credentials
 <2>9. NoRotation \in [by : ConnectionOrNone, orphaned : BOOLEAN]
   BY DEF NoRotation, ConnectionOrNone
 <2>10. now \in Credentials
   BY <2>2, <2>7, <2>9 DEF Credentials, ConnectionOrNone
 <2>11. now.session[p] = [token |-> t, online |-> on, lapsed |-> FALSE] /\ now.rotation[p] = NoRotation
   BY <2>2, <2>8 DEF Credentials
 <2>12. now.index[New(c)] = Nobody /\ now.index[t] = p
   BY <2>5, <2>6, <2>8 DEF Credentials
 <2>13. \A u \in Token : u # New(c) /\ u # t => now.index[u] = cr.index[u]
   BY <2>8 DEF Credentials
 <2>14. \A q \in Connection : q # p =>
          /\ now.session[q] = cr.session[q] /\ now.rotation[q] = cr.rotation[q]
          /\ HasSession(now, q) <=> HasSession(cr, q)
          /\ Valid(now, q) <=> Valid(cr, q)
   BY <2>8 DEF Credentials, HasSession, Valid
 <2>15. /\ now.session[p].token = t /\ HasSession(now, p) /\ ~now.session[p].lapsed
        /\ now.session[p].online <=> cr.restored[c].online
   BY <2>2, <2>4, <2>11, TokenFacts DEF HasSession, NoSession
 <2>16. RolledBackTo(cr, now, c, web)
   BY <1>1, <2>1, <2>2, <2>3, <2>8, <2>10, <2>11, <2>12, <2>13, <2>14, <2>15 DEF RolledBackTo
 <2> QED BY <1>4, <2>16 DEF now
<1> QED BY <1>3, <1>4

LEMMA RolledBackBooks ==
  ASSUME NEW cr \in Credentials, NEW A, Books(cr, A), NEW c \in Connection, NEW web \in BOOLEAN,
         NEW now, RolledBackTo(cr, now, c, web), ~web => cr.alias[cr.restored[c].previous] = Nobody
  PROVE  now \in Credentials /\ Books(now, A) /\ cr.alias[cr.restored[c].previous] = Nobody
<1> USE ConnectionsAreNumbers
<1>1. PICK p \in Connection, t \in Token : p = cr.restored[c].player /\ t = cr.restored[c].previous
  BY DEF RolledBackTo
<1>2. /\ now \in Credentials /\ now.restored = cr.restored /\ now.alias = cr.alias
      /\ HasSession(cr, p) /\ cr.session[p].token = New(c) /\ cr.index[New(c)] = p
      /\ web => cr.rotation[p] = [by |-> c, orphaned |-> FALSE]
      /\ now.session[p].token = t /\ HasSession(now, p) /\ ~now.session[p].lapsed
      /\ now.rotation[p] = NoRotation
      /\ now.index[New(c)] = Nobody /\ now.index[t] = p
      /\ \A u \in Token : u # New(c) /\ u # t => now.index[u] = cr.index[u]
      /\ \A q \in Connection : q # p =>
           /\ now.session[q] = cr.session[q] /\ now.rotation[q] = cr.rotation[q]
           /\ HasSession(now, q) <=> HasSession(cr, q)
           /\ Valid(now, q) <=> Valid(cr, q)
  BY <1>1 DEF RolledBackTo
<1>3. p # Nobody /\ c # Nobody
  OBVIOUS
<1>4. /\ c \in A /\ p \in A /\ Drawn(cr, A, t) /\ TokenPlayer(cr, t) = p /\ t[1] # c
  BY <1>1, <1>3, RestoreFacts DEF Books
<1>5. cr.alias[t] = Nobody
 <2>1. CASE web
  <3>1. cr.rotation[p].by = c
    BY <1>2, <2>1
  <3> QED BY <1>1, <3>1, OpenRotationBy
 <2> QED BY <1>1, <2>1
<1>6. \A u : (Drawn(now, A, u) <=> Drawn(cr, A, u)) /\ TokenPlayer(now, u) = TokenPlayer(cr, u)
  BY <1>2 DEF Drawn, TokenPlayer
<1>7. New(c) \in Token /\ TokenPlayer(cr, New(c)) = p
  BY <1>1, TokenFacts DEF TokenPlayer
<1>8. IndexIsRight(now, A)
 <2>1. ASSUME NEW u \in Token, now.index[u] # Nobody
       PROVE  Drawn(now, A, u) /\ now.index[u] = TokenPlayer(now, u)
  <3>1. u # New(c)
    BY <1>2, <2>1
  <3>2. CASE u = t
    BY <1>2, <1>4, <1>6, <3>2
  <3>3. CASE u # t
    BY <1>2, <1>6, <2>1, <3>1, <3>3 DEF Books, IndexIsRight
  <3> QED BY <3>2, <3>3
 <2> QED BY <2>1 DEF IndexIsRight
<1>9. AliasIsSpent(now, A)
 <2>1. ASSUME NEW u \in Token, now.alias[u] # Nobody
       PROVE  Drawn(now, A, u) /\ now.alias[u] = TokenPlayer(now, u) /\ now.index[u] = Nobody
  <3>1. Drawn(cr, A, u) /\ cr.alias[u] = TokenPlayer(cr, u) /\ cr.index[u] = Nobody
    BY <1>2, <2>1 DEF Books, AliasIsSpent
  <3>2. u # t
    BY <1>2, <1>5, <2>1
  <3>3. now.index[u] = Nobody
    BY <1>2, <3>1, <3>2
  <3> QED BY <1>2, <1>6, <3>1, <3>3
 <2> QED BY <2>1 DEF AliasIsSpent
<1>10. SessionHasToken(now, A)
 <2>1. ASSUME NEW q \in Connection, HasSession(now, q)
       PROVE  LET u == now.session[q].token IN
              /\ q \in A /\ Drawn(now, A, u) /\ TokenPlayer(now, u) = q /\ now.alias[u] = Nobody
              /\ now.session[q].online => ~now.session[q].lapsed
              /\ Valid(now, q) => now.index[u] = q
  <3>1. CASE q = p
    BY <1>2, <1>4, <1>5, <1>6, <3>1
  <3>2. CASE q # p
   <4>1. HasSession(cr, q) /\ now.session[q] = cr.session[q] /\ (Valid(now, q) <=> Valid(cr, q))
     BY <1>2, <2>1, <3>2
   <4>2. /\ q \in A /\ cr.session[q].token \in Token /\ Drawn(cr, A, cr.session[q].token)
         /\ TokenPlayer(cr, cr.session[q].token) = q
         /\ cr.alias[cr.session[q].token] = Nobody
         /\ cr.session[q].online => ~cr.session[q].lapsed
         /\ Valid(cr, q) => cr.index[cr.session[q].token] = q
     BY <4>1, TokenSessionFacts DEF Books
   <4>3. cr.session[q].token # t /\ cr.session[q].token # New(c)
     BY <1>4, <1>7, <3>2, <4>2
   <4>4. now.index[cr.session[q].token] = cr.index[cr.session[q].token]
     BY <1>2, <4>2, <4>3
   <4> QED BY <1>2, <1>6, <4>1, <4>2, <4>4
  <3> QED BY <3>1, <3>2
 <2> QED BY <2>1 DEF SessionHasToken
<1>11. RestoresLeadBack(now, A)
  BY <1>2, <1>6 DEF Books, RestoresLeadBack
<1>12. RotationsAreOpen(now, A)
 <2>1. ASSUME NEW q \in Connection, now.rotation[q].by # Nobody
       PROVE  /\ HasSession(now, q) /\ now.session[q].token = New(now.rotation[q].by)
              /\ now.restored[now.rotation[q].by].player = q
              /\ now.alias[now.restored[now.rotation[q].by].previous] = Nobody
              /\ Valid(now, q) => now.index[now.restored[now.rotation[q].by].previous] = q
  <3>1. q # p
    BY <1>2, <2>1 DEF NoRotation
  <3>2. /\ now.session[q] = cr.session[q] /\ now.rotation[q] = cr.rotation[q]
        /\ HasSession(now, q) <=> HasSession(cr, q)
        /\ Valid(now, q) <=> Valid(cr, q)
    BY <1>2, <3>1
  <3> DEFINE u == cr.restored[cr.rotation[q].by].previous
  <3>3. /\ HasSession(cr, q)
        /\ cr.session[q].token = New(cr.rotation[q].by)
        /\ cr.restored[cr.rotation[q].by].player = q
        /\ u \in Token /\ TokenPlayer(cr, u) = q
        /\ cr.alias[u] = Nobody
        /\ Valid(cr, q) => cr.index[u] = q
    BY <2>1, <3>2, OpenRotation
  <3> HIDE DEF u
  <3>4. u # t /\ u # New(c)
    BY <1>4, <1>7, <3>1, <3>3
  <3>5. now.index[u] = cr.index[u]
    BY <1>2, <3>3, <3>4
  <3> QED BY <1>2, <3>2, <3>3, <3>5 DEF u
 <2>2. \A q \in Connection : now.rotation[q].by = Nobody => now.rotation[q] = NoRotation
   BY <1>2 DEF Books, RotationsAreOpen
 <2> QED BY <2>1, <2>2 DEF RotationsAreOpen
<1> QED BY <1>1, <1>2, <1>5, <1>8, <1>9, <1>10, <1>11, <1>12 DEF Books

LEMMA PlayerFacts ==
  ASSUME NEW cr \in Credentials, NEW A, Books(cr, A), NEW t \in TokenOrNone
  PROVE  /\ PlayerOf(cr, t) \in ConnectionOrNone
         /\ PlayerOf(cr, t) # Nobody =>
              /\ t \in Token /\ PlayerOf(cr, t) \in Connection /\ PlayerOf(cr, t) \in A
              /\ HasSession(cr, PlayerOf(cr, t)) /\ Valid(cr, PlayerOf(cr, t))
              /\ cr.session[PlayerOf(cr, t)].token = t /\ cr.index[t] = PlayerOf(cr, t)
              /\ cr.alias[t] = Nobody /\ Drawn(cr, A, t) /\ TokenPlayer(cr, t) = PlayerOf(cr, t)
<1>1. CASE t = NoToken
  BY <1>1 DEF PlayerOf, HolderOf, HasSession, ConnectionOrNone
<1>2. CASE t # NoToken
 <2>1. t \in Token
   BY <1>2 DEF TokenOrNone
 <2>2. PICK p \in ConnectionOrNone : p = cr.index[t]
   BY <2>1, CredentialTypes
 <2>3. HolderOf(cr, t) = p
   BY <1>2, <2>2 DEF HolderOf
 <2>4. CASE HasSession(cr, p) /\ cr.session[p].token = t /\ Valid(cr, p)
  <3>1. PlayerOf(cr, t) = p
    BY <2>3, <2>4 DEF PlayerOf
  <3>2. p \in Connection
    BY <2>4 DEF HasSession, ConnectionOrNone
  <3>3. p \in A /\ Drawn(cr, A, t) /\ TokenPlayer(cr, t) = p /\ cr.alias[t] = Nobody
    BY <2>4, <3>2, TokenSessionFacts DEF Books
  <3> QED BY <2>1, <2>2, <2>4, <3>1, <3>2, <3>3
 <2>5. CASE ~(HasSession(cr, p) /\ cr.session[p].token = t /\ Valid(cr, p))
   BY <2>3, <2>5 DEF PlayerOf, ConnectionOrNone
 <2> QED BY <2>4, <2>5
<1> QED BY <1>1, <1>2

\* Who may come back does so with the token of his session, and no rotation of
\* it is open once it has been presented.
LEMMA RestorableFacts ==
  ASSUME NEW cr \in Credentials, NEW A, Books(cr, A), NEW t \in TokenOrNone, NEW web \in BOOLEAN,
         Restorable(cr, t, web)
  PROVE  LET settled == Resolved(cr, t)  p == PlayerOf(settled, t) IN
         /\ t \in Token /\ p \in Connection /\ p \in A
         /\ HasSession(settled, p) /\ Valid(settled, p)
         /\ settled.session[p].token = t /\ settled.index[t] = p /\ settled.alias[t] = Nobody
         /\ Drawn(settled, A, t) /\ TokenPlayer(settled, t) = p
         /\ settled.rotation[p] = NoRotation
<1> DEFINE settled == Resolved(cr, t)
<1>1. settled \in Credentials /\ Books(settled, A)
  BY ResolvedBooks
<1>2. PICK p : p = PlayerOf(settled, t)
  OBVIOUS
<1>3. p # Nobody
  BY <1>2 DEF Restorable
<1>4. /\ t \in Token /\ p \in Connection /\ p \in A
      /\ HasSession(settled, p) /\ Valid(settled, p)
      /\ settled.session[p].token = t /\ settled.index[t] = p /\ settled.alias[t] = Nobody
      /\ Drawn(settled, A, t) /\ TokenPlayer(settled, t) = p
 <2> HIDE DEF settled
 <2> QED BY <1>1, <1>2, <1>3, PlayerFacts
<1>5. settled.rotation[p] = NoRotation
 <2>1. CASE ~Settles(cr, t) /\ settled = cr
  <3>1. t # NoToken
    BY <1>4, TokenFacts
  <3>2. HolderOf(cr, t) = p
    BY <1>4, <2>1, <3>1 DEF HolderOf
  <3>3. cr.rotation[p].by = Nobody \/ cr.rotation[p].orphaned
    BY <3>2 DEF Restorable
  <3>4. CASE cr.rotation[p].by = Nobody
    BY <1>4, <2>1, <3>4 DEF Books, RotationsAreOpen
  <3>5. CASE cr.rotation[p].by # Nobody
   <4>1. cr.session[p].token = New(cr.rotation[p].by)
     BY <1>4, <3>5, OpenRotation
   <4>2. Settles(cr, t)
     BY <1>4, <2>1, <3>1, <3>5, <4>1, ConnectionsAreNumbers DEF Settles
   <4> QED BY <2>1, <4>2
  <3> QED BY <3>4, <3>5
 <2>2. ASSUME NEW q \in Connection, NEW by \in Connection, NEW loser \in Token,
              SettledTo(cr, settled, q, by, t, loser)
       PROVE  settled.rotation[p] = NoRotation
  <3>1. settled.index[t] = q /\ settled.rotation[q] = NoRotation
    BY <2>2 DEF SettledTo
  <3> QED BY <1>4, <3>1
 <2> QED BY <2>1, <2>2, ResolvedCases
<1> QED BY <1>2, <1>4, <1>5

\* What Restored makes of the settled credentials, before c's own session goes.
Rotated(cr, p, t, c, web) ==
  [cr EXCEPT
     !.session[p] = [token |-> New(c), online |-> TRUE, lapsed |-> FALSE],
     !.index[New(c)] = p, !.index[t] = IF web THEN p ELSE Nobody,
     !.rotation[p] = IF web THEN [by |-> c, orphaned |-> FALSE] ELSE @,
     !.restored[c] = [player |-> p, previous |-> t, online |-> cr.session[p].online]]

LEMMA RotatedIs ==
  ASSUME NEW cr \in Credentials, NEW A, Books(cr, A), NEW web \in BOOLEAN,
         NEW p \in Connection, NEW c \in Connection, p # c, cr.restored[c].player = Nobody,
         NEW t \in Token, t[1] # c
  PROVE  LET now == Rotated(cr, p, t, c, web) IN
         /\ now \in Credentials /\ now.alias = cr.alias
         /\ now.session[p].token = New(c) /\ now.session[p].online /\ ~now.session[p].lapsed
         /\ HasSession(now, p)
         /\ web => now.rotation[p] = [by |-> c, orphaned |-> FALSE]
         /\ ~web => now.rotation[p] = cr.rotation[p]
         /\ now.restored[c].player = p /\ now.restored[c].previous = t
         /\ now.restored[c].online <=> cr.session[p].online
         /\ now.index[New(c)] = p /\ (web => now.index[t] = p) /\ (~web => now.index[t] = Nobody)
         /\ \A u \in Token : u # New(c) /\ u # t => now.index[u] = cr.index[u]
         /\ \A d \in Connection : d # c => now.restored[d] = cr.restored[d]
         /\ \A q \in Connection : q # p =>
              /\ now.session[q] = cr.session[q] /\ now.rotation[q] = cr.rotation[q]
              /\ HasSession(now, q) <=> HasSession(cr, q)
              /\ Valid(now, q) <=> Valid(cr, q)
<1> DEFINE now == Rotated(cr, p, t, c, web)
<1>1. PICK on \in BOOLEAN : on = cr.session[p].online
  BY CredentialTypes
<1>2. New(c) \in Token /\ t # New(c)
  BY TokenFacts
<1>3. PICK i \in ConnectionOrNone : i = IF web THEN p ELSE Nobody
  BY DEF ConnectionOrNone
<1>4. PICK r \in [by : ConnectionOrNone, orphaned : BOOLEAN] :
         r = IF web THEN [by |-> c, orphaned |-> FALSE] ELSE cr.rotation[p]
 <2>1. [by |-> c, orphaned |-> FALSE] \in [by : ConnectionOrNone, orphaned : BOOLEAN]
   BY DEF ConnectionOrNone
 <2> QED BY <2>1, CredentialTypes
<1>5. now = [cr EXCEPT
              !.session[p] = [token |-> New(c), online |-> TRUE, lapsed |-> FALSE],
              !.index[New(c)] = p, !.index[t] = i, !.rotation[p] = r,
              !.restored[c] = [player |-> p, previous |-> t, online |-> on]]
  BY <1>1, <1>3, <1>4 DEF Rotated, Credentials
<1> HIDE DEF now
<1>6. /\ now.session = [cr.session EXCEPT ![p] = [token |-> New(c), online |-> TRUE, lapsed |-> FALSE]]
      /\ now.index = [cr.index EXCEPT ![New(c)] = p, ![t] = i]
      /\ now.rotation = [cr.rotation EXCEPT ![p] = r]
      /\ now.restored = [cr.restored EXCEPT ![c] = [player |-> p, previous |-> t, online |-> on]]
      /\ now.alias = cr.alias
  BY <1>5 DEF Credentials
<1>7. now \in Credentials
  BY <1>2, <1>5 DEF Credentials, ConnectionOrNone
<1>8. /\ now.session[p] = [token |-> New(c), online |-> TRUE, lapsed |-> FALSE]
      /\ now.rotation[p] = r
      /\ now.restored[c] = [player |-> p, previous |-> t, online |-> on]
      /\ now.index[New(c)] = p /\ now.index[t] = i
  BY <1>2, <1>6 DEF Credentials
<1>9. /\ \A u \in Token : u # New(c) /\ u # t => now.index[u] = cr.index[u]
      /\ \A d \in Connection : d # c => now.restored[d] = cr.restored[d]
      /\ \A q \in Connection : q # p =>
           /\ now.session[q] = cr.session[q] /\ now.rotation[q] = cr.rotation[q]
           /\ HasSession(now, q) <=> HasSession(cr, q)
           /\ Valid(now, q) <=> Valid(cr, q)
  BY <1>6 DEF Credentials, HasSession, Valid
<1>10. HasSession(now, p)
  BY <1>2, <1>8, TokenFacts, ConnectionsAreNumbers DEF HasSession, NoSession
<1> QED BY <1>1, <1>3, <1>4, <1>6, <1>7, <1>8, <1>9, <1>10 DEF now

LEMMA RotatedBooks ==
  ASSUME NEW cr \in Credentials, NEW A, Books(cr, A), NEW web \in BOOLEAN,
         NEW p \in Connection, NEW c \in Connection, p # c, cr.restored[c].player = Nobody,
         c \in A, NEW t \in Token, t[1] # c,
         HasSession(cr, p), cr.session[p].token = t, Valid(cr, p), cr.rotation[p] = NoRotation
  PROVE  Books(Rotated(cr, p, t, c, web), A)
<1> USE ConnectionsAreNumbers
<1> DEFINE now == Rotated(cr, p, t, c, web)
<1>1. /\ now \in Credentials /\ now.alias = cr.alias
      /\ now.session[p].token = New(c) /\ now.session[p].online /\ ~now.session[p].lapsed
      /\ HasSession(now, p)
      /\ web => now.rotation[p] = [by |-> c, orphaned |-> FALSE]
      /\ ~web => now.rotation[p] = cr.rotation[p]
      /\ now.restored[c].player = p /\ now.restored[c].previous = t
      /\ now.index[New(c)] = p /\ (web => now.index[t] = p) /\ (~web => now.index[t] = Nobody)
      /\ \A u \in Token : u # New(c) /\ u # t => now.index[u] = cr.index[u]
      /\ \A d \in Connection : d # c => now.restored[d] = cr.restored[d]
      /\ \A q \in Connection : q # p =>
           /\ now.session[q] = cr.session[q] /\ now.rotation[q] = cr.rotation[q]
           /\ HasSession(now, q) <=> HasSession(cr, q)
           /\ Valid(now, q) <=> Valid(cr, q)
  BY RotatedIs
<1> HIDE DEF now
<1>2. /\ p \in A /\ Drawn(cr, A, t) /\ TokenPlayer(cr, t) = p /\ cr.alias[t] = Nobody
      /\ cr.index[t] = p
  BY TokenSessionFacts DEF Books
<1>3. New(c) \in Token /\ t # New(c) /\ ~Drawn(cr, A, New(c))
  BY TokenFacts DEF Drawn
<1>4. \A u \in Token : u # New(c) =>
        (Drawn(now, A, u) <=> Drawn(cr, A, u)) /\ TokenPlayer(now, u) = TokenPlayer(cr, u)
 <2>1. ASSUME NEW u \in Token, u # New(c)
       PROVE  (Drawn(now, A, u) <=> Drawn(cr, A, u)) /\ TokenPlayer(now, u) = TokenPlayer(cr, u)
  <3>1. CASE u[2] = "own"
    BY <3>1 DEF Drawn, TokenPlayer
  <3>2. CASE u[2] # "own"
   <4>1. u[1] \in Connection /\ u[1] # c
     BY <2>1, <3>2, TokenFacts
   <4>2. now.restored[u[1]] = cr.restored[u[1]]
     BY <1>1, <4>1
   <4> QED BY <3>2, <4>2 DEF Drawn, TokenPlayer
  <3> QED BY <3>1, <3>2
 <2> QED BY <2>1
<1>5. Drawn(now, A, New(c)) /\ TokenPlayer(now, New(c)) = p
  BY <1>1, <1>3, TokenFacts DEF Drawn, TokenPlayer
<1>6. cr.index[New(c)] = Nobody /\ cr.alias[New(c)] = Nobody
  BY <1>3 DEF Books, IndexIsRight, AliasIsSpent
<1>7. IndexIsRight(now, A)
 <2>1. ASSUME NEW u \in Token, now.index[u] # Nobody
       PROVE  Drawn(now, A, u) /\ now.index[u] = TokenPlayer(now, u)
  <3>1. CASE u = New(c)
    BY <1>1, <1>5, <3>1
  <3>2. CASE u = t
    BY <1>1, <1>2, <1>3, <1>4, <2>1, <3>2
  <3>3. CASE u # New(c) /\ u # t
    BY <1>1, <1>4, <2>1, <3>3 DEF Books, IndexIsRight
  <3> QED BY <3>1, <3>2, <3>3
 <2> QED BY <2>1 DEF IndexIsRight
<1>8. AliasIsSpent(now, A)
 <2>1. ASSUME NEW u \in Token, now.alias[u] # Nobody
       PROVE  Drawn(now, A, u) /\ now.alias[u] = TokenPlayer(now, u) /\ now.index[u] = Nobody
  <3>1. u # New(c) /\ u # t
    BY <1>1, <1>2, <1>6, <2>1
  <3> QED BY <1>1, <1>4, <2>1, <3>1 DEF Books, AliasIsSpent
 <2> QED BY <2>1 DEF AliasIsSpent
<1>9. SessionHasToken(now, A)
 <2>1. ASSUME NEW q \in Connection, HasSession(now, q)
       PROVE  LET u == now.session[q].token IN
              /\ q \in A /\ Drawn(now, A, u) /\ TokenPlayer(now, u) = q /\ now.alias[u] = Nobody
              /\ now.session[q].online => ~now.session[q].lapsed
              /\ Valid(now, q) => now.index[u] = q
  <3>1. CASE q = p
    BY <1>1, <1>2, <1>5, <1>6, <3>1
  <3>2. CASE q # p
   <4>1. HasSession(cr, q) /\ now.session[q] = cr.session[q] /\ (Valid(now, q) <=> Valid(cr, q))
     BY <1>1, <2>1, <3>2
   <4>2. /\ q \in A /\ cr.session[q].token \in Token /\ Drawn(cr, A, cr.session[q].token)
         /\ TokenPlayer(cr, cr.session[q].token) = q
         /\ cr.alias[cr.session[q].token] = Nobody
         /\ cr.session[q].online => ~cr.session[q].lapsed
         /\ Valid(cr, q) => cr.index[cr.session[q].token] = q
     BY <4>1, TokenSessionFacts DEF Books
   <4>3. cr.session[q].token # t /\ cr.session[q].token # New(c)
     BY <1>2, <1>3, <3>2, <4>2
   <4>4. now.index[cr.session[q].token] = cr.index[cr.session[q].token]
     BY <1>1, <4>2, <4>3
   <4> QED BY <1>1, <1>4, <4>1, <4>2, <4>3, <4>4
  <3> QED BY <3>1, <3>2
 <2> QED BY <2>1 DEF SessionHasToken
<1>10. RestoresLeadBack(now, A)
 <2>1. ASSUME NEW d \in Connection, now.restored[d].player # Nobody
       PROVE  /\ d \in A /\ now.restored[d].player \in A /\ now.restored[d].player # d
              /\ Drawn(now, A, now.restored[d].previous)
              /\ TokenPlayer(now, now.restored[d].previous) = now.restored[d].player
              /\ now.restored[d].previous[1] # d
  <3>1. CASE d = c
    BY <1>1, <1>2, <1>3, <1>4, <3>1
  <3>2. CASE d # c
   <4>1. now.restored[d] = cr.restored[d]
     BY <1>1, <3>2
   <4>2. /\ d \in A /\ cr.restored[d].player \in A /\ cr.restored[d].player # d
         /\ cr.restored[d].previous \in Token /\ Drawn(cr, A, cr.restored[d].previous)
         /\ TokenPlayer(cr, cr.restored[d].previous) = cr.restored[d].player
         /\ cr.restored[d].previous[1] # d
    <5>1. cr.restored[d].player # Nobody
      BY <2>1, <4>1
    <5>2. RestoresLeadBack(cr, A)
      BY DEF Books
    <5> QED BY <5>1, <5>2, RestoreFacts
   <4>3. cr.restored[d].previous # New(c)
     BY <1>3, <4>2
   <4> QED BY <1>4, <4>1, <4>2, <4>3
  <3> QED BY <3>1, <3>2
 <2>2. \A d \in Connection : now.restored[d].player = Nobody => now.restored[d] = NotRestored
   BY <1>1 DEF Books, RestoresLeadBack
 <2> QED BY <2>1, <2>2 DEF RestoresLeadBack
<1>11. RotationsAreOpen(now, A)
 <2>1. ASSUME NEW q \in Connection, now.rotation[q].by # Nobody
       PROVE  /\ HasSession(now, q) /\ now.session[q].token = New(now.rotation[q].by)
              /\ now.restored[now.rotation[q].by].player = q
              /\ now.alias[now.restored[now.rotation[q].by].previous] = Nobody
              /\ Valid(now, q) => now.index[now.restored[now.rotation[q].by].previous] = q
  <3>1. CASE q = p
   <4>1. web /\ now.rotation[p].by = c
     BY <1>1, <2>1, <3>1 DEF NoRotation
   <4> QED BY <1>1, <1>2, <3>1, <4>1
  <3>2. CASE q # p
   <4>1. /\ now.session[q] = cr.session[q] /\ now.rotation[q] = cr.rotation[q]
         /\ HasSession(now, q) <=> HasSession(cr, q)
         /\ Valid(now, q) <=> Valid(cr, q)
     BY <1>1, <3>2
   <4>8. cr.rotation[q].by # Nobody
     BY <2>1, <4>1
   <4>2. PICK by \in Connection : cr.rotation[q].by = by
     BY <4>8, OpenRotation
   <4>3. /\ HasSession(cr, q) /\ cr.session[q].token = New(by) /\ cr.restored[by].player = q
         /\ cr.restored[by].previous \in Token /\ Drawn(cr, A, cr.restored[by].previous)
         /\ TokenPlayer(cr, cr.restored[by].previous) = q
         /\ cr.alias[cr.restored[by].previous] = Nobody
         /\ Valid(cr, q) => cr.index[cr.restored[by].previous] = q
     BY <4>2, OpenRotationBy
   <4>4. by # c
     BY <4>3
   <4>5. now.restored[by] = cr.restored[by]
     BY <1>1, <4>4
   <4>6. cr.restored[by].previous # t /\ cr.restored[by].previous # New(c)
     BY <1>2, <1>3, <3>2, <4>3
   <4>7. now.index[cr.restored[by].previous] = cr.index[cr.restored[by].previous]
     BY <1>1, <4>3, <4>6
   <4> QED BY <1>1, <4>1, <4>2, <4>3, <4>5, <4>7
  <3> QED BY <3>1, <3>2
 <2>2. \A q \in Connection : now.rotation[q].by = Nobody => now.rotation[q] = NoRotation
   BY <1>1 DEF Books, RotationsAreOpen
 <2> QED BY <2>1, <2>2 DEF RotationsAreOpen
<1>12. Books(now, A)
  BY <1>7, <1>8, <1>9, <1>10, <1>11 DEF Books
<1> QED BY <1>12 DEF now

\* c's handler has come back as p with t, p's settled token: cr is what
\* presenting t made of the credentials.
RestoredTo(cr, now, p, t, c, web, A) ==
  /\ now \in Credentials /\ p \in Connection /\ p \in A /\ p # c /\ t \in Token
  /\ HasSession(cr, p) /\ Valid(cr, p) /\ cr.session[p].token = t /\ cr.index[t] = p
  /\ cr.alias[t] = Nobody /\ Drawn(cr, A, t) /\ TokenPlayer(cr, t) = p /\ cr.rotation[p] = NoRotation
  /\ now.session[p].token = New(c) /\ now.session[p].online /\ ~now.session[p].lapsed
  /\ HasSession(now, p)
  /\ web => now.rotation[p] = [by |-> c, orphaned |-> FALSE]
  /\ ~web => now.rotation[p] = NoRotation
  /\ now.restored[c].player = p /\ now.restored[c].previous = t
  /\ now.restored[c].online <=> cr.session[p].online
  /\ now.index[New(c)] = p /\ (web => now.index[t] = p) /\ (~web => now.index[t] = Nobody)
  /\ \A d \in Connection : d # c => now.restored[d] = cr.restored[d]
  /\ ~HasSession(now, c) /\ now.session[c] = NoSession /\ now.rotation[c] = NoRotation
  /\ \A u \in Token :
       /\ u # New(c) /\ u # t => now.index[u] \in {cr.index[u], Nobody}
       /\ u # New(c) /\ u # t /\ Drawn(cr, A, u) /\ TokenPlayer(cr, u) # c => now.index[u] = cr.index[u]
       /\ now.alias[u] \in {cr.alias[u], Nobody}
       /\ cr.alias[u] # c => now.alias[u] = cr.alias[u]
  /\ \A q \in Connection : q # p /\ q # c =>
       /\ now.session[q] = cr.session[q] /\ now.rotation[q] = cr.rotation[q]
       /\ HasSession(now, q) <=> HasSession(cr, q)
       /\ Valid(now, q) <=> Valid(cr, q)

LEMMA RestoredIs ==
  ASSUME NEW cr \in Credentials, NEW A, Books(cr, A), NEW web \in BOOLEAN,
         NEW t \in TokenOrNone, NEW c \in Connection, c \in A, cr.restored[c].player = Nobody,
         Restorable(cr, t, web), t[1] # c, PlayerOf(Resolved(cr, t), t) # c
  PROVE  /\ RestoredTo(Resolved(cr, t), Restored(cr, t, c, web), PlayerOf(Resolved(cr, t), t), t, c, web, A)
         /\ Books(Restored(cr, t, c, web), A)
<1> USE ConnectionsAreNumbers
<1>1. PICK settled : settled = Resolved(cr, t)
  OBVIOUS
<1>2. settled \in Credentials /\ Books(settled, A)
  BY <1>1, ResolvedBooks
<1>3. PICK p : p = PlayerOf(settled, t)
  OBVIOUS
<1>4. /\ t \in Token /\ p \in Connection /\ p \in A
      /\ HasSession(settled, p) /\ Valid(settled, p)
      /\ settled.session[p].token = t /\ settled.index[t] = p /\ settled.alias[t] = Nobody
      /\ Drawn(settled, A, t) /\ TokenPlayer(settled, t) = p
      /\ settled.rotation[p] = NoRotation
  BY <1>1, <1>3, RestorableFacts
<1>5. p # c
  BY <1>1, <1>3
<1>6. settled.restored[c].player = Nobody
 <2>1. CASE settled = cr
   BY <2>1
 <2>2. ASSUME NEW q \in Connection, NEW by \in Connection, NEW loser \in Token,
              SettledTo(cr, settled, q, by, t, loser)
       PROVE  settled.restored = cr.restored
   BY <2>2 DEF SettledTo
 <2> QED BY <1>1, <2>1, <2>2, ResolvedCases
<1> DEFINE mid == Rotated(settled, p, t, c, web)
<1>7. /\ mid \in Credentials /\ mid.alias = settled.alias
      /\ mid.session[p].token = New(c) /\ mid.session[p].online /\ ~mid.session[p].lapsed
      /\ HasSession(mid, p)
      /\ web => mid.rotation[p] = [by |-> c, orphaned |-> FALSE]
      /\ ~web => mid.rotation[p] = settled.rotation[p]
      /\ mid.restored[c].player = p /\ mid.restored[c].previous = t
      /\ mid.restored[c].online <=> settled.session[p].online
      /\ mid.index[New(c)] = p /\ (web => mid.index[t] = p) /\ (~web => mid.index[t] = Nobody)
      /\ \A u \in Token : u # New(c) /\ u # t => mid.index[u] = settled.index[u]
      /\ \A d \in Connection : d # c => mid.restored[d] = settled.restored[d]
      /\ \A q \in Connection : q # p =>
           /\ mid.session[q] = settled.session[q] /\ mid.rotation[q] = settled.rotation[q]
           /\ HasSession(mid, q) <=> HasSession(settled, q)
           /\ Valid(mid, q) <=> Valid(settled, q)
  BY <1>2, <1>4, <1>5, <1>6, RotatedIs
<1>8. Books(mid, A)
  BY <1>2, <1>4, <1>5, <1>6, RotatedBooks
<1>9. Restored(cr, t, c, web) = Deleted(mid, c)
  BY <1>1, <1>3 DEF Restored, Rotated
<1> HIDE DEF mid
<1> DEFINE now == Deleted(mid, c)
<1>10. /\ now \in Credentials /\ now.restored = mid.restored
       /\ \A u \in Token :
            /\ u \in Lineage(mid, c) => now.index[u] = Nobody
            /\ u \notin Lineage(mid, c) => now.index[u] = mid.index[u]
            /\ mid.alias[u] = c => now.alias[u] = Nobody
            /\ mid.alias[u] # c => now.alias[u] = mid.alias[u]
            /\ Drawn(mid, A, u) /\ TokenPlayer(mid, u) # c => now.index[u] = mid.index[u]
       /\ ~HasSession(now, c) /\ now.session[c] = NoSession /\ now.rotation[c] = NoRotation
       /\ \A q \in Connection : q # c =>
            /\ now.session[q] = mid.session[q] /\ now.rotation[q] = mid.rotation[q]
            /\ HasSession(now, q) <=> HasSession(mid, q)
  BY <1>7, <1>8, DeletedIs
<1>11. Books(now, A)
  BY <1>7, <1>8, DeletedBooks
<1> HIDE DEF now
<1>12. New(c) \in Token /\ t # New(c)
  BY TokenFacts
<1>13. \A u \in Token : u # New(c) =>
         (Drawn(mid, A, u) <=> Drawn(settled, A, u)) /\ TokenPlayer(mid, u) = TokenPlayer(settled, u)
 <2>1. ASSUME NEW u \in Token, u # New(c)
       PROVE  (Drawn(mid, A, u) <=> Drawn(settled, A, u)) /\ TokenPlayer(mid, u) = TokenPlayer(settled, u)
  <3>1. CASE u[2] = "own"
    BY <3>1 DEF Drawn, TokenPlayer
  <3>2. CASE u[2] # "own"
   <4>1. u[1] \in Connection /\ u[1] # c
     BY <2>1, <3>2, TokenFacts
   <4>2. mid.restored[u[1]] = settled.restored[u[1]]
     BY <1>7, <4>1
   <4> QED BY <3>2, <4>2 DEF Drawn, TokenPlayer
  <3> QED BY <3>1, <3>2
 <2> QED BY <2>1
<1>14. Drawn(mid, A, New(c)) /\ TokenPlayer(mid, New(c)) = p
  BY <1>4, <1>7, <1>12, TokenFacts DEF Drawn, TokenPlayer
<1>15. now.index[New(c)] = p
  BY <1>5, <1>7, <1>10, <1>12, <1>14
<1>16. now.index[t] = mid.index[t]
  BY <1>4, <1>5, <1>10, <1>12, <1>13
<1>17. ASSUME NEW u \in Token
       PROVE  /\ u # New(c) /\ u # t => now.index[u] \in {settled.index[u], Nobody}
              /\ u # New(c) /\ u # t /\ Drawn(settled, A, u) /\ TokenPlayer(settled, u) # c =>
                   now.index[u] = settled.index[u]
              /\ now.alias[u] \in {settled.alias[u], Nobody}
              /\ settled.alias[u] # c => now.alias[u] = settled.alias[u]
 <2>1. now.alias[u] \in {settled.alias[u], Nobody} /\ (settled.alias[u] # c => now.alias[u] = settled.alias[u])
   BY <1>7, <1>10
 <2>2. u # New(c) /\ u # t => now.index[u] \in {settled.index[u], Nobody}
   BY <1>7, <1>10
 <2>3. u # New(c) /\ u # t /\ Drawn(settled, A, u) /\ TokenPlayer(settled, u) # c =>
                  now.index[u] = settled.index[u]
   BY <1>7, <1>10, <1>13
 <2> QED BY <2>1, <2>2, <2>3
<1>18. ASSUME NEW q \in Connection, q # p, q # c
       PROVE  /\ now.session[q] = settled.session[q] /\ now.rotation[q] = settled.rotation[q]
              /\ HasSession(now, q) <=> HasSession(settled, q)
              /\ Valid(now, q) <=> Valid(settled, q)
  BY <1>7, <1>10, <1>18 DEF Valid
<1>19. /\ now.session[p] = mid.session[p] /\ now.rotation[p] = mid.rotation[p] /\ HasSession(now, p)
  BY <1>4, <1>5, <1>7, <1>10
<1>20. now.session[p].token = New(c) /\ now.session[p].online /\ ~now.session[p].lapsed
  BY <1>7, <1>19
<1>21. /\ web => now.rotation[p] = [by |-> c, orphaned |-> FALSE]
       /\ ~web => now.rotation[p] = NoRotation
  BY <1>4, <1>7, <1>19
<1>22. /\ now.restored[c].player = p /\ now.restored[c].previous = t
       /\ now.restored[c].online <=> settled.session[p].online
       /\ \A d \in Connection : d # c => now.restored[d] = settled.restored[d]
  BY <1>7, <1>10
<1>23. (web => now.index[t] = p) /\ (~web => now.index[t] = Nobody)
  BY <1>7, <1>16
<1>24. RestoredTo(settled, now, p, t, c, web, A)
  BY <1>4, <1>5, <1>10, <1>15, <1>17, <1>18, <1>19, <1>20, <1>21, <1>22, <1>23 DEF RestoredTo
<1> QED BY <1>1, <1>3, <1>9, <1>11, <1>24 DEF now

-----------------------------------------------------------------------------
(* What any operation may do: no spent token is indexed again.             *)

\* Tokens and rotations of cr may be gone in now, and none is added.
Shrinks(cr, now) ==
  /\ now \in Credentials /\ now.restored = cr.restored
  /\ \A t \in Token : now.index[t] \in {cr.index[t], Nobody}
  /\ \A p \in Connection : now.rotation[p].by \in {cr.rotation[p].by, Nobody}
  /\ TuiBooks(cr) => TuiBooks(now)

KeepsUsable(cr, now) == \A p \in Connection : Usable(cr, p) => Usable(now, p)

NoRevival(cr, now) == \A t \in Token : cr.alias[t] # Nobody => now.index[t] = Nobody

\* What any step but a restore does with the credentials.
Moves(cr, now, A) ==
  /\ now \in Credentials /\ Books(now, A) /\ now.restored = cr.restored
  /\ NoRevival(cr, now) /\ (TuiBooks(cr) => TuiBooks(now))

LEMMA ShrinksTransitive ==
  ASSUME NEW a, NEW b, NEW c, Shrinks(a, b), Shrinks(b, c)
  PROVE  Shrinks(a, c)
  BY DEF Shrinks

LEMMA ShrinksMoves ==
  ASSUME NEW cr \in Credentials, NEW A, Books(cr, A), NEW now, Shrinks(cr, now), Books(now, A)
  PROVE  Moves(cr, now, A)
<1>1. NoRevival(cr, now)
  BY DEF Shrinks, NoRevival, Books, AliasIsSpent
<1> QED BY <1>1 DEF Moves, Shrinks

LEMMA ItselfShrinks ==
  ASSUME NEW cr \in Credentials
  PROVE  Shrinks(cr, cr) /\ KeepsUsable(cr, cr)
  BY CredentialTypes DEF Shrinks, KeepsUsable

LEMMA OfflineShrinks ==
  ASSUME NEW cr \in Credentials, NEW A, Books(cr, A), NEW p \in Connection
  PROVE  Shrinks(cr, WentOffline(cr, p)) /\ KeepsUsable(cr, WentOffline(cr, p))
<1> DEFINE now == WentOffline(cr, p)
<1>1. /\ now \in Credentials
      /\ \A q \in Connection :
           /\ HasSession(now, q) <=> HasSession(cr, q)
           /\ HasSession(cr, q) => (Valid(now, q) <=> Valid(cr, q))
      /\ now.index = cr.index
      /\ now.rotation = cr.rotation /\ now.alias = cr.alias /\ now.restored = cr.restored
  BY OfflineIs DEF Books
<1> HIDE DEF now
<1>2. Shrinks(cr, now) /\ KeepsUsable(cr, now)
  BY <1>1, CredentialTypes DEF Shrinks, KeepsUsable, TuiBooks, Usable
<1> QED BY <1>2 DEF now

LEMMA OnlineShrinks ==
  ASSUME NEW cr \in Credentials, NEW A, Books(cr, A), NEW p \in Connection
  PROVE  Shrinks(cr, WentOnline(cr, p)) /\ KeepsUsable(cr, WentOnline(cr, p))
<1> DEFINE now == WentOnline(cr, p)
<1>1. /\ now \in Credentials
      /\ \A q \in Connection :
           /\ q # p => now.session[q] = cr.session[q]
           /\ HasSession(now, q) <=> HasSession(cr, q)
           /\ q = p /\ HasSession(cr, q) => now.session[q].online /\ ~now.session[q].lapsed
      /\ now.index = cr.index
      /\ now.rotation = cr.rotation /\ now.alias = cr.alias /\ now.restored = cr.restored
  BY OnlineIs DEF Books
<1> HIDE DEF now
<1>2. Shrinks(cr, now)
  BY <1>1, CredentialTypes DEF Shrinks, TuiBooks
<1>3. KeepsUsable(cr, now)
  BY <1>1 DEF KeepsUsable, Usable, Valid
<1> QED BY <1>2, <1>3 DEF now

LEMMA LapsedShrinks ==
  ASSUME NEW cr \in Credentials, NEW A, Books(cr, A), NEW p \in Connection
  PROVE  Shrinks(cr, Lapsed(cr, p))
<1> DEFINE now == Lapsed(cr, p)
<1>1. /\ now \in Credentials /\ now.index = cr.index
      /\ now.rotation = cr.rotation /\ now.alias = cr.alias /\ now.restored = cr.restored
  BY LapsedIs DEF Books
<1> HIDE DEF now
<1>2. Shrinks(cr, now)
  BY <1>1, CredentialTypes DEF Shrinks, TuiBooks
<1> QED BY <1>2 DEF now

LEMMA AliasExpiredShrinks ==
  ASSUME NEW cr \in Credentials, NEW t \in Token
  PROVE  Shrinks(cr, AliasExpired(cr, t)) /\ KeepsUsable(cr, AliasExpired(cr, t))
<1> DEFINE now == AliasExpired(cr, t)
<1>1. /\ now \in Credentials
      /\ now.alias = [cr.alias EXCEPT ![t] = Nobody]
      /\ now.session = cr.session /\ now.index = cr.index
      /\ now.rotation = cr.rotation /\ now.restored = cr.restored
  BY AliasExpiredIs
<1> HIDE DEF now
<1>2. \A u \in Token : now.alias[u] \in {cr.alias[u], Nobody}
  BY <1>1 DEF Credentials
<1>3. Shrinks(cr, now) /\ KeepsUsable(cr, now)
  BY <1>1, <1>2, CredentialTypes DEF Shrinks, KeepsUsable, TuiBooks, Usable, HasSession, Valid
<1> QED BY <1>3 DEF now

LEMMA ForgottenShrinks ==
  ASSUME NEW cr \in Credentials, NEW A, Books(cr, A), NEW p \in Connection
  PROVE  Shrinks(cr, Forgotten(cr, p)) /\ KeepsUsable(cr, Forgotten(cr, p))
<1> DEFINE now == Forgotten(cr, p)
<1>1. /\ now \in Credentials /\ now.restored = cr.restored /\ now.session = cr.session
      /\ now.rotation = cr.rotation /\ now.alias = cr.alias
      /\ \A t \in Token : now.index[t] \in {cr.index[t], Nobody}
  BY ForgottenIs
<1> HIDE DEF now
<1>2. Shrinks(cr, now) /\ KeepsUsable(cr, now)
  BY <1>1, CredentialTypes DEF Shrinks, KeepsUsable, TuiBooks, Usable, HasSession, Valid
<1> QED BY <1>2 DEF now

LEMMA DeletedShrinks ==
  ASSUME NEW cr \in Credentials, NEW A, Books(cr, A), NEW p \in Connection
  PROVE  /\ Shrinks(cr, Deleted(cr, p))
         /\ \A q \in Connection : q # p /\ Usable(cr, q) => Usable(Deleted(cr, p), q)
<1> DEFINE now == Deleted(cr, p)
<1>1. /\ now \in Credentials /\ now.restored = cr.restored
      /\ \A t \in Token :
           /\ t \in Lineage(cr, p) => now.index[t] = Nobody
           /\ t \notin Lineage(cr, p) => now.index[t] = cr.index[t]
           /\ cr.alias[t] = p => now.alias[t] = Nobody
           /\ cr.alias[t] # p => now.alias[t] = cr.alias[t]
      /\ now.rotation[p] = NoRotation
      /\ \A q \in Connection : q # p =>
           /\ now.session[q] = cr.session[q] /\ now.rotation[q] = cr.rotation[q]
           /\ HasSession(now, q) <=> HasSession(cr, q)
  BY DeletedIs
<1> HIDE DEF now
<1>2. \A t \in Token : now.index[t] \in {cr.index[t], Nobody}
  BY <1>1
<1>3. \A q \in Connection : now.rotation[q].by \in {cr.rotation[q].by, Nobody}
  BY <1>1 DEF NoRotation
<1>4. TuiBooks(cr) => TuiBooks(now)
  BY <1>1 DEF TuiBooks
<1>5. Shrinks(cr, now)
  BY <1>1, <1>2, <1>3, <1>4 DEF Shrinks
<1>6. \A q \in Connection : q # p /\ Usable(cr, q) => Usable(now, q)
  BY <1>1 DEF Usable, Valid
<1> QED BY <1>5, <1>6 DEF now

LEMMA OrphanedShrinks ==
  ASSUME NEW cr \in Credentials, NEW A, Books(cr, A), NEW c \in Connection
  PROVE  Shrinks(cr, Orphaned(cr, c)) /\ KeepsUsable(cr, Orphaned(cr, c))
<1> DEFINE now == Orphaned(cr, c)
<1>1. /\ now \in Credentials /\ now.restored = cr.restored /\ now.session = cr.session
      /\ now.index = cr.index /\ now.alias = cr.alias
      /\ \A q \in Connection :
           /\ now.rotation[q].by = cr.rotation[q].by
           /\ cr.rotation[q].by = Nobody \/ cr.rotation[q].by # c => now.rotation[q] = cr.rotation[q]
  BY OrphanedIs
<1> HIDE DEF now
<1>2. TuiBooks(cr) => TuiBooks(now)
 <2>1. SUFFICES ASSUME TuiBooks(cr), NEW q \in Connection
                PROVE  now.rotation[q] = NoRotation
   BY <1>1 DEF TuiBooks
 <2>2. cr.rotation[q] = NoRotation
   BY <2>1 DEF TuiBooks
 <2>3. cr.rotation[q].by = Nobody
   BY <2>2 DEF NoRotation
 <2> QED BY <1>1, <2>2, <2>3
<1>3. Shrinks(cr, now) /\ KeepsUsable(cr, now)
  BY <1>1, <1>2, CredentialTypes DEF Shrinks, KeepsUsable, Usable, HasSession, Valid
<1> QED BY <1>3 DEF now

LEMMA SettledShrinks ==
  ASSUME NEW cr \in Credentials, NEW now, NEW p, NEW by, NEW winner, NEW loser,
         SettledTo(cr, now, p, by, winner, loser)
  PROVE  Shrinks(cr, now) /\ KeepsUsable(cr, now)
<1>1. \A t \in Token : now.index[t] \in {cr.index[t], Nobody}
  BY DEF SettledTo
<1>2. \A q \in Connection : now.rotation[q].by \in {cr.rotation[q].by, Nobody}
 <2>1. ASSUME NEW q \in Connection
       PROVE  now.rotation[q].by \in {cr.rotation[q].by, Nobody}
  <3>1. CASE q = p
    BY <3>1 DEF SettledTo, NoRotation
  <3>2. CASE q # p
    BY <3>2 DEF SettledTo
  <3> QED BY <3>1, <3>2
 <2> QED BY <2>1
<1>3. ~TuiBooks(cr)
 <2>1. p \in Connection /\ cr.rotation[p].by = by /\ by \in Connection
   BY DEF SettledTo
 <2> QED BY <2>1, ConnectionsAreNumbers DEF TuiBooks, NoRotation
<1>4. KeepsUsable(cr, now)
  BY DEF SettledTo, KeepsUsable, Usable
<1> QED BY <1>1, <1>2, <1>3, <1>4 DEF Shrinks, SettledTo

LEMMA ResolvedShrinks ==
  ASSUME NEW cr \in Credentials, NEW A, Books(cr, A), NEW t \in TokenOrNone
  PROVE  Shrinks(cr, Resolved(cr, t)) /\ KeepsUsable(cr, Resolved(cr, t))
  BY ResolvedCases, SettledShrinks, ItselfShrinks

LEMMA RolledBackMoves ==
  ASSUME NEW cr \in Credentials, NEW A, Books(cr, A), NEW c \in Connection, NEW web \in BOOLEAN,
         ~web => cr.alias[cr.restored[c].previous] = Nobody
  PROVE  /\ Moves(cr, RolledBack(cr, c, web), A) /\ KeepsUsable(cr, RolledBack(cr, c, web))
         /\ \A t \in Token : RolledBack(cr, c, web).index[t] # Nobody =>
              cr.index[t] # Nobody \/ (t = cr.restored[c].previous /\ CanRollBack(cr, c, web))
<1>1. CASE RolledBack(cr, c, web) = cr
  BY <1>1, ItselfShrinks, ShrinksMoves
<1>2. CASE /\ cr.restored[c].player \in Connection
           /\ RolledBack(cr, c, web) = WentOffline(cr, cr.restored[c].player)
 <2>1. PICK p \in Connection : p = cr.restored[c].player
   BY <1>2
 <2>2. PICK now : now = WentOffline(cr, p)
   OBVIOUS
 <2>3. Shrinks(cr, now) /\ KeepsUsable(cr, now) /\ Books(now, A)
   BY <2>2, OfflineShrinks, OfflineBooks
 <2>4. Moves(cr, now, A)
   BY <2>3, ShrinksMoves
 <2>5. \A t \in Token : now.index[t] # Nobody => cr.index[t] # Nobody
   BY <2>3 DEF Shrinks
 <2> QED BY <1>2, <2>1, <2>2, <2>3, <2>4, <2>5
<1>3. CASE CanRollBack(cr, c, web) /\ RolledBackTo(cr, RolledBack(cr, c, web), c, web)
 <2> DEFINE now == RolledBack(cr, c, web)
 <2>1. now \in Credentials /\ Books(now, A) /\ cr.alias[cr.restored[c].previous] = Nobody
   BY <1>3, RolledBackBooks
 <2>2. PICK p \in Connection, t \in Token : p = cr.restored[c].player /\ t = cr.restored[c].previous
   BY <1>3 DEF RolledBackTo
 <2>3. RolledBackTo(cr, now, c, web)
   BY <1>3
 <2> HIDE DEF now
 <2>4. /\ now.restored = cr.restored /\ now.alias = cr.alias
       /\ HasSession(now, p) /\ ~now.session[p].lapsed
       /\ now.rotation[p] = NoRotation
       /\ now.index[New(c)] = Nobody
       /\ \A u \in Token : u # New(c) /\ u # t => now.index[u] = cr.index[u]
       /\ \A q \in Connection : q # p =>
            /\ now.session[q] = cr.session[q] /\ now.rotation[q] = cr.rotation[q]
            /\ HasSession(now, q) <=> HasSession(cr, q)
            /\ Valid(now, q) <=> Valid(cr, q)
   BY <2>2, <2>3 DEF RolledBackTo
 <2>5. \A u \in Token : now.index[u] # Nobody => cr.index[u] # Nobody \/ u = t
   BY <2>4
 <2>6. NoRevival(cr, now)
   BY <2>1, <2>2, <2>5 DEF NoRevival, Books, AliasIsSpent
 <2>7. TuiBooks(cr) => TuiBooks(now)
   BY <2>4 DEF TuiBooks
 <2>8. KeepsUsable(cr, now)
   BY <2>4 DEF KeepsUsable, Usable, Valid
 <2>9. Moves(cr, now, A)
   BY <2>1, <2>4, <2>6, <2>7 DEF Moves
 <2> QED BY <1>3, <2>2, <2>5, <2>8, <2>9 DEF now
<1> QED BY <1>1, <1>2, <1>3, RolledBackCases

\* Closing connections takes back or leaves open the rotation that one of them
\* may have a ticket for.
LEMMA InvalidatedMoves ==
  ASSUME NEW cr \in Credentials, NEW A, Books(cr, A), NEW now, Shrinks(cr, now), Books(now, A),
         NEW c \in Connection
  PROVE  Moves(cr, Invalidated(now, c), A) /\ KeepsUsable(now, Invalidated(now, c))
<1>0. now \in Credentials /\ now.restored = cr.restored
  BY DEF Shrinks
<1>1. CASE ticket[New(c)] = "issued"
 <2>1. Invalidated(now, c) = RolledBack(now, c, TRUE)
   BY <1>1 DEF Invalidated
 <2>2. PICK then : then = RolledBack(now, c, TRUE)
   OBVIOUS
 <2>3. /\ Moves(now, then, A) /\ KeepsUsable(now, then)
       /\ \A t \in Token : then.index[t] # Nobody =>
             now.index[t] # Nobody \/ (t = now.restored[c].previous /\ CanRollBack(now, c, TRUE))
   BY <1>0, <2>2, RolledBackMoves
 <2>4. CanRollBack(now, c, TRUE) => cr.alias[now.restored[c].previous] = Nobody
  <3>1. SUFFICES ASSUME CanRollBack(now, c, TRUE)
                 PROVE  cr.alias[cr.restored[c].previous] = Nobody
    BY <1>0
  <3>2. PICK p : p = now.restored[c].player
    OBVIOUS
  <3>3. HasSession(now, p) /\ now.rotation[p] = [by |-> c, orphaned |-> FALSE]
    BY <3>1, <3>2 DEF CanRollBack
  <3>4. p \in Connection
    BY <1>0, <3>2, <3>3, CredentialTypes DEF HasSession, ConnectionOrNone
  <3>5. cr.rotation[p].by = c
   <4>1. now.rotation[p].by = c /\ c # Nobody
     BY <3>3, ConnectionsAreNumbers
   <4> QED BY <3>4, <4>1 DEF Shrinks
  <3> QED BY <3>4, <3>5, OpenRotationBy
 <2>5. NoRevival(cr, then)
   BY <2>3, <2>4 DEF NoRevival, Shrinks, Books, AliasIsSpent
 <2>6. Moves(cr, then, A)
   BY <1>0, <2>3, <2>5 DEF Moves, Shrinks
 <2> QED BY <2>1, <2>2, <2>3, <2>6
<1>2. CASE ticket[New(c)] = "committed"
 <2>1. Invalidated(now, c) = Orphaned(now, c)
   BY <1>2 DEF Invalidated
 <2>2. PICK then : then = Orphaned(now, c)
   OBVIOUS
 <2>3. Shrinks(now, then) /\ KeepsUsable(now, then) /\ Books(then, A)
   BY <1>0, <2>2, OrphanedShrinks, OrphanedBooks
 <2>4. Shrinks(cr, then)
   BY <2>3, ShrinksTransitive
 <2> QED BY <2>1, <2>2, <2>3, <2>4, ShrinksMoves
<1>3. CASE ticket[New(c)] \notin {"issued", "committed"}
 <2>1. Invalidated(now, c) = now
   BY <1>3 DEF Invalidated
 <2> QED BY <1>0, <2>1, ShrinksMoves, ItselfShrinks
<1> QED BY <1>1, <1>2, <1>3

LEMMA AllInvalidatedMoves ==
  ASSUME NEW cr \in Credentials, NEW A, Books(cr, A), NEW now, Shrinks(cr, now), Books(now, A),
         NEW gone \in SUBSET Connection
  PROVE  Moves(cr, AllInvalidated(now, gone), A) /\ KeepsUsable(now, AllInvalidated(now, gone))
<1> DEFINE turning == {c \in gone : ticket[New(c)] # "none"}
<1>1. CASE turning = {}
 <2>1. AllInvalidated(now, gone) = now
   BY <1>1 DEF AllInvalidated
 <2>2. now \in Credentials
   BY DEF Shrinks
 <2> QED BY <2>1, <2>2, ShrinksMoves, ItselfShrinks
<1>2. CASE turning # {}
 <2>1. PICK c \in Connection : c = CHOOSE x \in turning : TRUE
   BY <1>2
 <2>2. AllInvalidated(now, gone) = Invalidated(now, c)
   BY <1>2, <2>1 DEF AllInvalidated
 <2> QED BY <2>2, InvalidatedMoves
<1> QED BY <1>1, <1>2

-----------------------------------------------------------------------------
(* The state                                                               *)

DrainRecord ==
  [clients : SUBSET Connection, left : SUBSET Connection,
   credentials : SUBSET (Token \cup (Connection \X {"nonce"})),
   dependencies : SUBSET Connection, open : BOOLEAN]

Shapes ==
  /\ scene \in Devices
  /\ ticket \in [Token -> {"none", "issued", "committed"}] /\ nonces \subseteq Connection
  /\ clients \in [Connection -> ConnectionOrNone] /\ ident \in [Connection -> ConnectionOrNone]
  /\ doing \in [Connection -> Phases]
  /\ seen \in [Connection -> TokenOrNone] /\ authorized \in [Connection -> TokenOrNone]
  /\ closed \subseteq Connection /\ running \subseteq Connection /\ retired \subseteq Connection
  /\ over \subseteq Connection
  /\ authority \in ConnectionOrNone
  /\ moving \in [Connection -> ConnectionOrNone] /\ previous \in [Connection -> ConnectionOrNone]
  /\ jar \in [cookie : TokenOrNone, owner : ConnectionOrNone]
  /\ request \in [Connection -> [what : Requests, cookie : TokenOrNone, owner : ConnectionOrNone]]
  /\ drains \in [Connection -> DrainRecord]
  /\ awaited \in [Connection -> SUBSET Connection] /\ held \in [Connection -> SUBSET Token]
  /\ ending \in [Connection -> SUBSET Connection]

\* How far the handling of a connection has come, and what it holds for that.
HandlingOf(c) ==
  /\ doing[c] \in {"unborn", "upgraded"} => ident[c] = Nobody
  /\ doing[c] = "unborn" => seen[c] = NoToken
  /\ doing[c] \notin {"unborn", "upgraded", "gone"} => ident[c] # Nobody
  /\ ident[c] = Nobody => request[c].what = "none"
  /\ Asks(c, "ask") => doing[c] = "idle"
  /\ Asks(c, "asked") <=> Busy(c)
  /\ Asker(c) => seen[c] # NoToken
  /\ Asker(c) /\ ~Window(c) => ident[c] = c
  /\ Holding(c) => authority = c
  /\ moving[c] # Nobody => Busy(c)
  /\ previous[c] # Nobody => doing[c] \in {"delivering", "undoing"}
  /\ doing[c] \in {"delivering", "undoing"} => ident[c] = cred.restored[c].player
  /\ doing[c] = "undone" => ident[c] = c
  /\ ident[c] \in {Nobody, c, cred.restored[c].player}
  /\ cred.restored[c].player # Nobody =>
       /\ cred.restored[c].previous = seen[c]
       /\ ~Asks(c, "ask") /\ doing[c] \notin {"draining", "restoring"}

Handling == \A c \in Connection : HandlingOf(c)

SeenIsDrawn ==
  \A c \in Connection : seen[c] # NoToken =>
    Drawn(cred, Admitted, seen[c]) /\ seen[c][1] # c /\ TokenPlayer(cred, seen[c]) # c

CookiesAreDrawn ==
  /\ jar.cookie # NoToken => Drawn(cred, Admitted, jar.cookie)
  /\ \A c \in Connection : request[c].cookie # NoToken => Drawn(cred, Admitted, request[c].cookie)

TicketsAreDrawn == \A t \in Token : ticket[t] # "none" => Drawn(cred, Admitted, t)

WindowsAreOpen ==
  \A c \in Connection : Window(c) =>
    cred.restored[c].player \in Connection /\ Usable(cred, cred.restored[c].player)

TerminalBooks == ~Web => TuiBooks(cred) /\ \A t \in Token : ticket[t] = "none"

Core ==
  /\ Shapes /\ cred \in Credentials /\ Books(cred, Admitted)
  /\ Handling /\ SeenIsDrawn /\ CookiesAreDrawn /\ TicketsAreDrawn /\ WindowsAreOpen /\ TerminalBooks

\* What a step does with the credentials.
CredMove ==
  /\ cred' \in Credentials /\ Books(cred', Admitted') /\ NoRevival(cred, cred')
  /\ ~Web /\ TuiBooks(cred) => TuiBooks(cred')
  /\ Admitted \subseteq Admitted' /\ Admitted' \subseteq Connection
  /\ \A d \in Connection : cred.restored[d].player # Nobody => cred'.restored[d] = cred.restored[d]
  /\ \A c \in Connection : Window(c) => Usable(cred', cred.restored[c].player)

\* The same, with nobody coming back.
CalmMove == CredMove /\ cred'.restored = cred.restored

-----------------------------------------------------------------------------
(* Every step keeps the books                                              *)

LEMMA AdmittedAre == Admitted \subseteq Connection
  BY DEF Admitted

LEMMA MovesAre ==
  ASSUME Core, Admitted' = Admitted, NEW now, Moves(cred, now, Admitted), cred' = now,
         \A c \in Connection : Window(c) => Usable(now, cred.restored[c].player)
  PROVE  CalmMove
  BY AdmittedAre DEF CalmMove, CredMove, Moves

LEMMA UsableMovesAre ==
  ASSUME Core, Admitted' = Admitted, NEW now, Moves(cred, now, Admitted), cred' = now,
         KeepsUsable(cred, now)
  PROVE  CalmMove
<1>1. \A c \in Connection : Window(c) => Usable(now, cred.restored[c].player)
  BY DEF Core, WindowsAreOpen, KeepsUsable
<1> QED BY <1>1, MovesAre

LEMMA StillMoves ==
  ASSUME Core, UNCHANGED << cred, ident >>
  PROVE  CalmMove
<1>1. Admitted' = Admitted
  BY DEF Admitted
<1>2. Moves(cred, cred, Admitted) /\ KeepsUsable(cred, cred)
  BY ItselfShrinks, ShrinksMoves DEF Core
<1> QED BY <1>1, <1>2, UsableMovesAre

LEMMA CloseMoves ==
  ASSUME Core, NEW gone \in SUBSET Connection, cred' = AllInvalidated(cred, gone), ident' = ident
  PROVE  CalmMove
<1>1. Admitted' = Admitted
  BY DEF Admitted
<1>2. Moves(cred, AllInvalidated(cred, gone), Admitted) /\ KeepsUsable(cred, AllInvalidated(cred, gone))
  BY ItselfShrinks, AllInvalidatedMoves DEF Core
<1> QED BY <1>1, <1>2, UsableMovesAre

LEMMA PresentMoves ==
  ASSUME Core, NEW t \in TokenOrNone, cred' = Resolved(cred, t), ident' = ident
  PROVE  CalmMove
<1>1. Admitted' = Admitted
  BY DEF Admitted
<1>2. /\ Shrinks(cred, Resolved(cred, t)) /\ KeepsUsable(cred, Resolved(cred, t))
      /\ Books(Resolved(cred, t), Admitted)
  BY ResolvedShrinks, ResolvedBooks DEF Core
<1>3. Moves(cred, Resolved(cred, t), Admitted)
  BY <1>2, ShrinksMoves DEF Core
<1> QED BY <1>1, <1>2, <1>3, UsableMovesAre

LEMMA AdmitMoves ==
  ASSUME Core, NEW t \in TokenOrNone, NEW c \in Connection, doing[c] = "upgraded",
         cred' = Created(Resolved(cred, t), c), ident' = [ident EXCEPT ![c] = c]
  PROVE  CalmMove
<1> DEFINE mid == Resolved(cred, t)
<1>1. /\ mid \in Credentials /\ Books(mid, Admitted) /\ Shrinks(cred, mid) /\ KeepsUsable(cred, mid)
  BY ResolvedShrinks, ResolvedBooks DEF Core
<1> HIDE DEF mid
<1>2. c \notin Admitted
  BY DEF Core, Handling, HandlingOf, Admitted
<1>3. Admitted' = Admitted \cup {c}
  BY ConnectionsAreNumbers DEF Core, Shapes, Admitted
<1> DEFINE now == Created(mid, c)
<1>4. /\ now \in Credentials
      /\ now.session = [mid.session EXCEPT ![c] = [token |-> Own(c), online |-> TRUE, lapsed |-> FALSE]]
      /\ now.index = [mid.index EXCEPT ![Own(c)] = c]
      /\ now.rotation = mid.rotation /\ now.alias = mid.alias /\ now.restored = mid.restored
  BY <1>1, CreatedIs
<1>5. Books(now, Admitted \cup {c})
  BY <1>1, <1>2, AdmittedAre, CreatedBooks
<1> HIDE DEF now
<1>6. cred' = now
  BY DEF mid, now
<1>7. cred.alias[Own(c)] = Nobody
 <2>1. ~Drawn(cred, Admitted, Own(c)) /\ Own(c) \in Token
   BY <1>2, TokenFacts DEF Drawn
 <2> QED BY <2>1 DEF Core, Books, AliasIsSpent
<1>8. NoRevival(cred, now)
 <2>1. SUFFICES ASSUME NEW u \in Token, cred.alias[u] # Nobody
                PROVE  now.index[u] = Nobody
   BY DEF NoRevival
 <2>2. cred.index[u] = Nobody
   BY <2>1 DEF Core, Books, AliasIsSpent
 <2>3. mid.index[u] = Nobody
   BY <1>1, <2>2 DEF Shrinks
 <2>4. u # Own(c)
   BY <1>7, <2>1
 <2> QED BY <1>1, <1>4, <2>3, <2>4 DEF Credentials
<1>9. TuiBooks(cred) => TuiBooks(now)
  BY <1>1, <1>4 DEF Shrinks, TuiBooks
<1>10. now.restored = cred.restored
  BY <1>1, <1>4 DEF Shrinks
<1>11. ASSUME NEW d \in Connection, Window(d)
       PROVE  Usable(now, cred.restored[d].player)
 <2>1. PICK p \in Connection : p = cred.restored[d].player
   BY <1>11 DEF Core, WindowsAreOpen
 <2>2. Usable(mid, p)
   BY <1>1, <1>11, <2>1 DEF Core, WindowsAreOpen, KeepsUsable
 <2>3. p # c
  <3>1. p # Nobody
    BY ConnectionsAreNumbers
  <3>2. p \in Admitted
    BY <2>1, <3>1, RestoreFacts DEF Core, Books
  <3> QED BY <1>2, <3>2
 <2>4. now.session[p] = mid.session[p]
   BY <1>1, <1>4, <2>3 DEF Credentials
 <2> QED BY <2>1, <2>2, <2>4 DEF Usable, HasSession, Valid
<1> QED
  BY <1>3, <1>4, <1>5, <1>6, <1>8, <1>9, <1>10, <1>11, AdmittedAre DEF CalmMove, CredMove

LEMMA WindowHolds ==
  ASSUME Core, NEW c \in Connection, Window(c)
  PROVE  authority = c /\ authority # Nobody
<1>1. Holding(c)
  BY DEF Holding
<1> QED BY <1>1, ConnectionsAreNumbers DEF Core, Handling, HandlingOf

\* What the handler of c restores.
LEMMA RestoringFacts ==
  ASSUME Core, NEW c \in Connection, doing[c] = "restoring"
  PROVE  /\ c \in Admitted /\ cred.restored[c].player = Nobody /\ seen[c] \in TokenOrNone
         /\ authority = c /\ ~(\E d \in Connection : Window(d))
         /\ Web \in BOOLEAN /\ ticket[New(c)] = "none" /\ cred.alias[New(c)] = Nobody
         /\ Restorable(cred, seen[c], Web) =>
              /\ seen[c][1] # c /\ PlayerOf(Resolved(cred, seen[c]), seen[c]) # c
              /\ Shrinks(cred, Resolved(cred, seen[c]))
              /\ Books(Resolved(cred, seen[c]), Admitted)
              /\ RestoredTo(Resolved(cred, seen[c]), Restored(cred, seen[c], c, Web),
                    PlayerOf(Resolved(cred, seen[c]), seen[c]), seen[c], c, Web, Admitted)
              /\ Books(Restored(cred, seen[c], c, Web), Admitted)
<1>1. c \in Admitted
  BY DEF Core, Handling, HandlingOf, Admitted
<1>2. cred.restored[c].player = Nobody /\ seen[c] \in TokenOrNone
  BY DEF Core, Handling, HandlingOf, Shapes
<1>3. authority = c
  BY DEF Core, Handling, HandlingOf, Holding
<1>4. ~(\E d \in Connection : Window(d))
 <2>1. ~Window(c)
   BY DEF Window
 <2> QED BY <1>3, <2>1, WindowHolds
<1>5. New(c) \in Token /\ ~Drawn(cred, Admitted, New(c))
  BY <1>2, TokenFacts DEF Drawn
<1>6. ticket[New(c)] = "none" /\ cred.alias[New(c)] = Nobody
  BY <1>5 DEF Core, TicketsAreDrawn, Books, AliasIsSpent
<1>7. Web \in BOOLEAN
  BY DEF Web
<1>8. ASSUME Restorable(cred, seen[c], Web)
      PROVE  /\ seen[c][1] # c /\ PlayerOf(Resolved(cred, seen[c]), seen[c]) # c
             /\ Shrinks(cred, Resolved(cred, seen[c]))
             /\ Books(Resolved(cred, seen[c]), Admitted)
             /\ RestoredTo(Resolved(cred, seen[c]), Restored(cred, seen[c], c, Web),
                   PlayerOf(Resolved(cred, seen[c]), seen[c]), seen[c], c, Web, Admitted)
             /\ Books(Restored(cred, seen[c], c, Web), Admitted)
 <2>1. PICK t \in TokenOrNone : t = seen[c]
   BY <1>2
 <2>2. PICK web \in BOOLEAN : web = Web
   BY <1>7
 <2>3. PICK settled : settled = Resolved(cred, t)
   OBVIOUS
 <2>4. Shrinks(cred, settled) /\ Books(settled, Admitted)
   BY <2>3, ResolvedShrinks, ResolvedBooks DEF Core
 <2>5. /\ t \in Token /\ TokenPlayer(settled, t) = PlayerOf(settled, t)
   BY <1>8, <2>1, <2>2, <2>3, RestorableFacts DEF Core
 <2>6. TokenPlayer(settled, t) = TokenPlayer(cred, t)
   BY <2>4 DEF Shrinks, TokenPlayer
 <2>7. t[1] # c /\ TokenPlayer(cred, t) # c
   BY <2>1, <2>5, TokenFacts DEF Core, SeenIsDrawn
 <2>8. PlayerOf(settled, t) # c
   BY <2>5, <2>6, <2>7
 <2>9. /\ RestoredTo(Resolved(cred, t), Restored(cred, t, c, web), PlayerOf(Resolved(cred, t), t), t, c, web, Admitted)
       /\ Books(Restored(cred, t, c, web), Admitted)
   BY <1>1, <1>2, <1>8, <2>1, <2>2, <2>3, <2>7, <2>8, RestoredIs DEF Core
 <2> QED BY <2>1, <2>2, <2>3, <2>4, <2>7, <2>8, <2>9
<1> QED BY <1>1, <1>2, <1>3, <1>4, <1>6, <1>7, <1>8

\* A restore that stands, or that is taken back at once.
LEMMA RestoreStandsMoves ==
  ASSUME Core, NEW c \in Connection, doing[c] = "restoring", Restorable(cred, seen[c], Web),
         cred' = Restored(cred, seen[c], c, Web), Admitted' = Admitted
  PROVE  CredMove
<1>1. PICK t : t = seen[c]
  OBVIOUS
<1>2. PICK settled, now, p :
        settled = Resolved(cred, t) /\ now = cred' /\ p = PlayerOf(settled, t)
  OBVIOUS
<1>3. /\ cred.restored[c].player = Nobody /\ ~(\E d \in Connection : Window(d))
      /\ cred.alias[New(c)] = Nobody /\ Shrinks(cred, settled)
      /\ RestoredTo(settled, now, p, t, c, Web, Admitted) /\ Books(now, Admitted)
  BY <1>1, <1>2, RestoringFacts
<1>4. /\ now \in Credentials /\ p \in Connection /\ t \in Token /\ settled.index[t] = p
      /\ \A d \in Connection : d # c => now.restored[d] = settled.restored[d]
      /\ \A u \in Token : u # New(c) /\ u # t => now.index[u] \in {settled.index[u], Nobody}
      /\ \A u \in Token : now.alias[u] \in {settled.alias[u], Nobody}
      /\ ~Web => now.rotation[p] = NoRotation
      /\ now.rotation[c] = NoRotation
      /\ \A q \in Connection : q # p /\ q # c => now.rotation[q] = settled.rotation[q]
  BY <1>3 DEF RestoredTo
<1>5. NoRevival(cred, now)
 <2>1. SUFFICES ASSUME NEW u \in Token, cred.alias[u] # Nobody
                PROVE  now.index[u] = Nobody
   BY DEF NoRevival
 <2>2. cred.index[u] = Nobody
   BY <2>1 DEF Core, Books, AliasIsSpent
 <2>3. settled.index[u] = Nobody
   BY <1>3, <2>2 DEF Shrinks
 <2>4. u # New(c) /\ u # t
   BY <1>3, <1>4, <2>1, <2>3, ConnectionsAreNumbers
 <2> QED BY <1>4, <2>3, <2>4
<1>6. ~Web /\ TuiBooks(cred) => TuiBooks(now)
 <2>1. SUFFICES ASSUME ~Web, TuiBooks(cred)
                PROVE  TuiBooks(now)
   OBVIOUS
 <2>2. TuiBooks(settled)
   BY <1>3, <2>1 DEF Shrinks
 <2> QED BY <1>4, <2>1, <2>2 DEF TuiBooks
<1>7. \A d \in Connection : cred.restored[d].player # Nobody => now.restored[d] = cred.restored[d]
  BY <1>3, <1>4 DEF Shrinks
<1> QED
  BY <1>2, <1>3, <1>4, <1>5, <1>6, <1>7, AdmittedAre DEF CredMove

LEMMA RestoreTakenBackMoves ==
  ASSUME Core, NEW c \in Connection, doing[c] = "restoring", Restorable(cred, seen[c], Web),
         cred' = RolledBack(Restored(cred, seen[c], c, Web), c, Web), Admitted' = Admitted
  PROVE  CredMove
<1>1. PICK t : t = seen[c]
  OBVIOUS
<1>0. PICK web \in BOOLEAN : web = Web
  BY DEF Web
<1>2. PICK settled, mid, p :
        settled = Resolved(cred, t) /\ mid = Restored(cred, t, c, Web) /\ p = PlayerOf(settled, t)
  OBVIOUS
<1>3. /\ cred.restored[c].player = Nobody /\ ~(\E d \in Connection : Window(d))
      /\ Shrinks(cred, settled)
      /\ RestoredTo(settled, mid, p, t, c, web, Admitted) /\ Books(mid, Admitted)
  BY <1>0, <1>1, <1>2, RestoringFacts
<1>4. /\ mid \in Credentials /\ p \in Connection /\ t \in Token /\ settled.index[t] = p
      /\ settled.alias[t] = Nobody /\ mid.restored[c].previous = t /\ mid.restored[c].player = p
      /\ mid.session[p].token = New(c) /\ mid.index[New(c)] = p /\ HasSession(mid, p)
      /\ web => mid.rotation[p] = [by |-> c, orphaned |-> FALSE]
      /\ \A d \in Connection : d # c => mid.restored[d] = settled.restored[d]
      /\ \A u \in Token : u # New(c) /\ u # t => mid.index[u] \in {settled.index[u], Nobody}
      /\ \A u \in Token : mid.alias[u] \in {settled.alias[u], Nobody}
      /\ ~web => mid.rotation[p] = NoRotation
      /\ mid.rotation[c] = NoRotation
      /\ \A q \in Connection : q # p /\ q # c => mid.rotation[q] = settled.rotation[q]
  BY <1>3 DEF RestoredTo
<1>5. PICK now : now = RolledBack(mid, c, web)
  OBVIOUS
<1>6. mid.alias[mid.restored[c].previous] = Nobody
  BY <1>4
<1>7. CanRollBack(mid, c, web)
  BY <1>4 DEF CanRollBack
<1>8. /\ Moves(mid, now, Admitted)
      /\ RolledBackTo(mid, now, c, web)
  BY <1>3, <1>4, <1>5, <1>6, <1>7, RolledBackMoves, RolledBackCases
<1>9. /\ now.index[New(c)] = Nobody /\ now.restored = mid.restored
      /\ \A u \in Token : u # New(c) /\ u # t => now.index[u] = mid.index[u]
  BY <1>4, <1>8 DEF RolledBackTo
<1>10. NoRevival(cred, now)
 <2>1. SUFFICES ASSUME NEW u \in Token, cred.alias[u] # Nobody
                PROVE  now.index[u] = Nobody
   BY DEF NoRevival
 <2>2. cred.index[u] = Nobody
   BY <2>1 DEF Core, Books, AliasIsSpent
 <2>3. settled.index[u] = Nobody
   BY <1>3, <2>2 DEF Shrinks
 <2>4. u # t
   BY <1>4, <2>3, ConnectionsAreNumbers
 <2> QED BY <1>4, <1>9, <2>3, <2>4
<1>11. ~Web /\ TuiBooks(cred) => TuiBooks(now)
 <2>1. SUFFICES ASSUME ~Web, TuiBooks(cred)
                PROVE  TuiBooks(now)
   OBVIOUS
 <2>2. TuiBooks(settled)
   BY <1>3, <2>1 DEF Shrinks
 <2>3. TuiBooks(mid)
   BY <1>0, <1>4, <2>1, <2>2 DEF TuiBooks
 <2> QED BY <1>8, <2>3 DEF Moves
<1>12. \A d \in Connection : cred.restored[d].player # Nobody => now.restored[d] = cred.restored[d]
  BY <1>3, <1>4, <1>9 DEF Shrinks
<1>13. cred' = now
  BY <1>0, <1>1, <1>2, <1>5
<1> QED
  BY <1>3, <1>8, <1>10, <1>11, <1>12, <1>13, AdmittedAre DEF CredMove, Moves

\* Nothing that has been restored has a ticket of its own yet.
LEMMA NothingToInvalidate ==
  ASSUME NEW c, ticket[New(c)] = "none", NEW cr
  PROVE  AllInvalidated(cr, {c}) = cr
<1> DEFINE turning == {x \in {c} : ticket[New(x)] # "none"}
<1>1. turning = {}
  OBVIOUS
<1> QED BY <1>1 DEF AllInvalidated

LEMMA RestoreMoves ==
  ASSUME Core, NEW c \in Connection, Restore(c)
  PROVE  CredMove
<1>1. doing[c] = "restoring"
  BY DEF Restore
<1>2. c \in Admitted /\ ticket[New(c)] = "none"
  BY <1>1, RestoringFacts
<1>3. CASE ~Restorable(cred, seen[c], Web)
 <2>1. ident' = ident
   BY <1>3 DEF Restore
 <2>2. CASE Web
  <3>1. cred' = AllInvalidated(cred, {c})
    BY <1>3, <2>2 DEF Restore, Fails, Closes
  <3> QED BY <2>1, <3>1, CloseMoves DEF CalmMove
 <2>3. CASE ~Web
  <3>1. cred' = cred
    BY <1>3, <2>3 DEF Restore
  <3> QED BY <2>1, <3>1, StillMoves DEF CalmMove
 <2> QED BY <2>2, <2>3
<1>4. CASE Restorable(cred, seen[c], Web)
 <2> DEFINE p == PlayerOf(Resolved(cred, seen[c]), seen[c])
            cr == Restored(cred, seen[c], c, Web)
 <2>1. CASE Fails(c, RolledBack(cr, c, Web)) /\ ident' = ident
  <3>1. cred' = AllInvalidated(RolledBack(cr, c, Web), {c})
    BY <2>1 DEF Fails, Closes
  <3>2. cred' = RolledBack(cr, c, Web)
    BY <1>2, <3>1, NothingToInvalidate
  <3>3. Admitted' = Admitted
    BY <2>1 DEF Admitted
  <3> QED BY <1>1, <1>4, <3>2, <3>3, RestoreTakenBackMoves
 <2>2. CASE cred' = cr /\ ident' = [ident EXCEPT ![c] = p]
  <3>1. p # Nobody
    BY <1>4 DEF Restorable
  <3> HIDE DEF p
  <3>2. Admitted' = Admitted
    BY <1>2, <2>2, <3>1 DEF Core, Shapes, Admitted
  <3> QED BY <1>1, <1>4, <2>2, <3>2, RestoreStandsMoves
 <2>3. \/ Fails(c, RolledBack(cr, c, Web)) /\ ident' = ident
       \/ cred' = cr /\ ident' = [ident EXCEPT ![c] = p]
   BY <1>4 DEF Restore
 <2> QED BY <2>1, <2>2, <2>3
<1> QED BY <1>3, <1>4

LEMMA DeliverMoves ==
  ASSUME Core, NEW c \in Connection, Deliver(c)
  PROVE  CalmMove
<1>1. Window(c)
  BY DEF Deliver, Window
<1>2. PICK p \in Connection : p = cred.restored[c].player /\ Usable(cred, p)
  BY <1>1 DEF Core, WindowsAreOpen
<1>3. ident' = ident
  BY DEF Deliver
<1>4. Admitted' = Admitted
  BY <1>3 DEF Admitted
<1>5. PICK mid : mid = WentOnline(cred, p)
  OBVIOUS
<1>6. /\ Shrinks(cred, mid) /\ KeepsUsable(cred, mid) /\ Books(mid, Admitted)
  BY <1>2, <1>5, OnlineShrinks, OnlineBooks DEF Core, Usable
<1>7. PICK gone : gone = {previous[c]} \ {Nobody}
  OBVIOUS
<1>8. gone \in SUBSET Connection
  BY <1>7 DEF Core, Shapes, ConnectionOrNone
<1>9. CASE cred' = AllInvalidated(mid, gone)
 <2>1. Moves(cred, AllInvalidated(mid, gone), Admitted) /\ KeepsUsable(mid, AllInvalidated(mid, gone))
   BY <1>6, <1>8, AllInvalidatedMoves DEF Core
 <2>2. KeepsUsable(cred, AllInvalidated(mid, gone))
   BY <1>6, <2>1 DEF KeepsUsable
 <2> QED BY <1>4, <1>9, <2>1, <2>2, UsableMovesAre
<1>10. CASE cred' = mid
 <2>1. Moves(cred, mid, Admitted)
   BY <1>6, ShrinksMoves DEF Core
 <2> QED BY <1>4, <1>6, <1>10, <2>1, UsableMovesAre
<1>11. CASE cred' = cred
  BY <1>3, <1>11, StillMoves
<1>12. \/ cred' = AllInvalidated(mid, gone)
       \/ cred' = mid
       \/ cred' = cred
  BY <1>2, <1>5, <1>7 DEF Deliver
<1> QED BY <1>9, <1>10, <1>11, <1>12

LEMMA UndoRebindMoves ==
  ASSUME Core, NEW c \in Connection, UndoRebind(c)
  PROVE  CalmMove
<1>1. c \in Admitted
  BY DEF UndoRebind, Core, Handling, HandlingOf, Admitted
<1>2. Admitted' = Admitted
  BY <1>1, ConnectionsAreNumbers DEF UndoRebind, Core, Shapes, Admitted
<1>3. Moves(cred, cred, Admitted) /\ KeepsUsable(cred, cred)
  BY ItselfShrinks, ShrinksMoves DEF Core
<1> QED BY <1>2, <1>3, UsableMovesAre DEF UndoRebind

LEMMA UndoRestoreMoves ==
  ASSUME Core, NEW c \in Connection, UndoRestore(c)
  PROVE  CalmMove
<1>1. ident' = ident
  BY DEF UndoRestore
<1>2. CASE Web
 <2>1. cred' = AllInvalidated(cred, {c})
   BY <1>2 DEF UndoRestore, Fails, Closes
 <2> QED BY <1>1, <2>1, CloseMoves
<1>3. CASE ~Web
 <2>1. cred' = AllInvalidated(RolledBack(cred, c, FALSE), {c})
   BY <1>3 DEF UndoRestore, Fails, Closes
 <2>2. ticket[New(c)] = "none"
   BY <1>3, TokenFacts DEF Core, TerminalBooks
 <2>3. cred' = RolledBack(cred, c, FALSE)
   BY <2>1, <2>2, NothingToInvalidate
 <2>4. cred.alias[cred.restored[c].previous] = Nobody
  <3>1. Window(c)
    BY DEF UndoRestore, Window
  <3>2. cred.restored[c].player # Nobody
    BY <3>1, ConnectionsAreNumbers DEF Core, WindowsAreOpen
  <3>3. cred.restored[c].previous \in Token
    BY <3>2, RestoreFacts DEF Core, Books
  <3> QED BY <1>3, <3>3 DEF Core, TerminalBooks, TuiBooks
 <2>5. PICK now : now = RolledBack(cred, c, FALSE)
   OBVIOUS
 <2>6. Moves(cred, now, Admitted) /\ KeepsUsable(cred, now)
   BY <2>4, <2>5, RolledBackMoves DEF Core
 <2>7. Admitted' = Admitted
   BY <1>1 DEF Admitted
 <2> QED BY <2>3, <2>5, <2>6, <2>7, UsableMovesAre
<1> QED BY <1>2, <1>3

LEMMA MarkOfflineMoves ==
  ASSUME Core, NEW c \in Connection, MarkOffline(c)
  PROVE  CalmMove
<1>1. ident' = ident
  BY DEF MarkOffline
<1>2. CASE HasSession(cred, ident[c])
 <2>1. PICK p \in Connection : p = ident[c]
   BY <1>2 DEF Core, Shapes, HasSession, ConnectionOrNone
 <2>2. PICK now : now = WentOffline(cred, p)
   OBVIOUS
 <2>3. Shrinks(cred, now) /\ KeepsUsable(cred, now) /\ Books(now, Admitted)
   BY <2>2, OfflineShrinks, OfflineBooks DEF Core
 <2>4. Moves(cred, now, Admitted)
   BY <2>3, ShrinksMoves DEF Core
 <2>5. cred' = now /\ Admitted' = Admitted
   BY <1>1, <1>2, <2>1, <2>2 DEF MarkOffline, Admitted
 <2> QED BY <2>3, <2>4, <2>5, UsableMovesAre
<1>3. CASE ~HasSession(cred, ident[c])
  BY <1>1, <1>3, StillMoves DEF MarkOffline
<1> QED BY <1>2, <1>3

-----------------------------------------------------------------------------
(* Every action keeps the books                                            *)

\* Whom a token ends, if anyone.
LEMMA RevokedByIs ==
  ASSUME NEW cr \in Credentials, NEW t \in TokenOrNone
  PROVE  /\ RevokedBy(cr, t) \in ConnectionOrNone
         /\ RevokedBy(cr, t) # Nobody => HasSession(cr, RevokedBy(cr, t))
<1>1. CASE t = NoToken
  BY <1>1 DEF RevokedBy, ConnectionOrNone
<1>2. CASE t # NoToken
 <2>1. t \in Token
   BY <1>2 DEF TokenOrNone
 <2>2. PICK p \in ConnectionOrNone : p = IF cr.index[t] # Nobody THEN cr.index[t] ELSE cr.alias[t]
   BY <2>1, CredentialTypes
 <2>3. RevokedBy(cr, t) = IF HasSession(cr, p) THEN p ELSE Nobody
   BY <1>2, <2>2 DEF RevokedBy
 <2> QED BY <2>2, <2>3 DEF ConnectionOrNone
<1> QED BY <1>1, <1>2

\* A logout: the sessions of two players go, and with them what is turning.
LEMMA ServeRevokeMoves ==
  ASSUME Core, NEW c \in Connection, ServeRevoke(c)
  PROVE  CalmMove
<1>1. PICK p, q, first, second, gone :
        /\ p = Nobody \/ \E o \in TokenOrNone : p = RevokedBy(cred, o)
        /\ first = (IF p = Nobody THEN cred ELSE Deleted(cred, p))
        /\ second = (IF q = Nobody THEN first ELSE Deleted(first, q))
        /\ q = Nobody \/ \E o \in TokenOrNone : q = RevokedBy(first, o)
        /\ cred' = AllInvalidated(second, gone)
        /\ gone \in SUBSET Connection
 <2> DEFINE t == request[c].cookie
            owner == request[c].owner
            fresh == t # NoToken /\ Draining(t) = {}
            p == IF fresh THEN RevokedBy(cred, t) ELSE Nobody
            first == IF p = Nobody THEN cred ELSE Deleted(cred, p)
            pending == IF fresh THEN Pending(t) ELSE {}
            owned == IF owner # Nobody /\ Draining(Nonce(owner)) = {} THEN Owned(owner) \ pending ELSE {}
            q == IF owned # {} /\ Draining(Own(owner)) = {} THEN RevokedBy(first, Own(owner)) ELSE Nobody
            second == IF q = Nobody THEN first ELSE Deleted(first, q)
            gone == { u[1] : u \in pending \cup owned }
 <2>1. cred' = AllInvalidated(second, gone)
   BY DEF ServeRevoke
 <2>2. gone \in SUBSET Connection
  <3>1. pending \subseteq Token /\ owned \subseteq Token
    BY DEF Pending, Owned
  <3> QED BY <3>1, TokenFacts
 <2>3. t \in TokenOrNone /\ Own(owner) \in TokenOrNone
  <3>1. Own(Nobody) = NoToken
    BY DEF Own, NoToken
  <3> QED BY <3>1, TokenFacts DEF Core, Shapes, TokenOrNone, ConnectionOrNone
 <2>4. p = Nobody \/ \E o \in TokenOrNone : p = RevokedBy(cred, o)
   BY <2>3
 <2>5. q = Nobody \/ \E o \in TokenOrNone : q = RevokedBy(first, o)
   BY <2>3
 <2> HIDE DEF p, q, gone
 <2> QED BY <2>1, <2>2, <2>4, <2>5
<1>2. ident' = ident
  BY DEF ServeRevoke
<1>3. Admitted' = Admitted
  BY <1>2 DEF Admitted
<1>4. ~(\E d \in Connection : Window(d))
  BY WindowHolds DEF ServeRevoke, Free
<1>5. p \in ConnectionOrNone
  BY <1>1, RevokedByIs DEF Core, ConnectionOrNone
<1>6. Shrinks(cred, first) /\ Books(first, Admitted)
  BY <1>1, <1>5, DeletedShrinks, DeletedBooks, ItselfShrinks DEF Core, ConnectionOrNone
<1>7. q \in ConnectionOrNone
  BY <1>1, <1>6, RevokedByIs DEF Shrinks, ConnectionOrNone
<1>8. Shrinks(first, second) /\ Books(second, Admitted)
  BY <1>1, <1>6, <1>7, DeletedShrinks, DeletedBooks, ItselfShrinks DEF ConnectionOrNone, Shrinks
<1>9. Shrinks(cred, second)
  BY <1>6, <1>8, ShrinksTransitive
<1>10. Moves(cred, AllInvalidated(second, gone), Admitted)
  BY <1>1, <1>8, <1>9, AllInvalidatedMoves DEF Core
<1> QED
  BY <1>1, <1>3, <1>4, <1>10, MovesAre

LEMMA ActivateBrowserMoves ==
  ASSUME Core, NEW c \in Connection, ActivateBrowser(c)
  PROVE  CalmMove
<1>1. PICK t \in TokenOrNone : t = seen[c]
  BY DEF Core, Shapes
<1>2. CASE cred' = Resolved(cred, t) /\ ident' = ident
  BY <1>2, PresentMoves
<1>3. CASE cred' = Created(Resolved(cred, t), c) /\ ident' = [ident EXCEPT ![c] = c]
  BY <1>3, AdmitMoves DEF ActivateBrowser
<1>4. \/ cred' = Resolved(cred, t) /\ ident' = ident
      \/ cred' = Created(Resolved(cred, t), c) /\ ident' = [ident EXCEPT ![c] = c]
 <2>1. CASE IF t = NoToken THEN c \notin nonces ELSE ~Observes(cred, t)
   BY <1>1, <2>1 DEF ActivateBrowser
 <2>2. CASE ~(IF t = NoToken THEN c \notin nonces ELSE ~Observes(cred, t))
   BY <1>1, <2>2 DEF ActivateBrowser, Admits
 <2> QED BY <2>1, <2>2
<1> QED BY <1>2, <1>3, <1>4

LEMMA ActivateTerminalMoves ==
  ASSUME Core, NEW c \in Connection, ActivateTerminal(c)
  PROVE  CalmMove
<1>1. Resolved(cred, NoToken) = cred
  BY DEF Resolved, HolderOf
<1>2. NoToken \in TokenOrNone
  BY DEF TokenOrNone
<1>3. cred' = Created(Resolved(cred, NoToken), c) /\ ident' = [ident EXCEPT ![c] = c]
  BY <1>1 DEF ActivateTerminal, Admits
<1> QED BY <1>2, <1>3, AdmitMoves DEF ActivateTerminal

LEMMA UpgradeMoves ==
  ASSUME Core, NEW c \in Connection, Upgrade(c)
  PROVE  CalmMove
<1>1. jar.cookie \in TokenOrNone
  BY DEF Core, Shapes
<1>2. cred' = Resolved(cred, jar.cookie) /\ ident' = ident
  BY DEF Upgrade
<1> QED BY <1>1, <1>2, PresentMoves

LEMMA ServeRefreshMoves ==
  ASSUME Core, NEW c \in Connection, ServeRefresh(c)
  PROVE  CalmMove
<1>1. request[c].cookie \in TokenOrNone
  BY DEF Core, Shapes
<1>2. cred' = Resolved(cred, request[c].cookie) /\ ident' = ident
  BY DEF ServeRefresh
<1> QED BY <1>1, <1>2, PresentMoves

LEMMA TimePassesMoves ==
  ASSUME Core, TimePasses
  PROVE  CalmMove
<1>1. ident' = ident /\ doing' = doing
  BY DEF TimePasses
<1>2. Admitted' = Admitted
  BY <1>1 DEF Admitted
<1>3. CASE \E p \in Connection : Lapse(p)
 <2>1. PICK p \in Connection : Lapse(p)
   BY <1>3
 <2>2. PICK now : now = Lapsed(cred, p)
   OBVIOUS
 <2>3. Shrinks(cred, now) /\ Books(now, Admitted) /\ cred' = now
   BY <2>1, <2>2, LapsedShrinks, LapsedBooks DEF Lapse, Core
 <2>4. Moves(cred, now, Admitted)
   BY <2>3, ShrinksMoves DEF Core
 <2>5. ASSUME NEW d \in Connection, Window(d)
       PROVE  Usable(now, cred.restored[d].player)
  <3>1. cred.restored[d].player # p
    BY <2>1, <2>5 DEF Lapse, Window
  <3>2. cred.restored[d].player \in Connection /\ Usable(cred, cred.restored[d].player)
    BY <2>5 DEF Core, WindowsAreOpen
  <3>3. /\ HasSession(now, cred.restored[d].player) <=> HasSession(cred, cred.restored[d].player)
        /\ now.session[cred.restored[d].player] = cred.session[cred.restored[d].player]
    BY <2>1, <2>2, <3>1, <3>2, LapsedIs DEF Core, Books, Lapse
  <3> QED BY <3>2, <3>3 DEF Usable, Valid
 <2> QED BY <1>2, <2>3, <2>4, <2>5, MovesAre
<1>4. CASE \E p \in Connection : Cleanup(p)
 <2>1. PICK p \in Connection : Cleanup(p)
   BY <1>4
 <2>2. PICK now \in {Forgotten(cred, p), Deleted(cred, p)} : now = cred'
   BY <2>1 DEF Cleanup
 <2>3. /\ Shrinks(cred, now) /\ Books(now, Admitted)
       /\ \A q \in Connection : q # p /\ Usable(cred, q) => Usable(now, q)
  <3>1. CASE now = Forgotten(cred, p)
   <4>1. /\ Shrinks(cred, Forgotten(cred, p)) /\ KeepsUsable(cred, Forgotten(cred, p))
         /\ Books(Forgotten(cred, p), Admitted)
     BY <2>1, ForgottenShrinks, ForgottenBooks DEF Core, Cleanup
   <4> QED BY <3>1, <4>1 DEF KeepsUsable
  <3>2. CASE now = Deleted(cred, p)
    BY <3>2, DeletedShrinks, DeletedBooks DEF Core
  <3> QED BY <2>2, <3>1, <3>2
 <2>4. ~Usable(cred, p)
   BY <2>1 DEF Cleanup, Usable
 <2>5. KeepsUsable(cred, now)
   BY <2>3, <2>4 DEF KeepsUsable
 <2>6. Moves(cred, now, Admitted)
   BY <2>3, ShrinksMoves DEF Core
 <2> QED BY <1>2, <2>2, <2>5, <2>6, UsableMovesAre
<1>5. CASE \E t \in Token : AliasExpires(t)
 <2>1. PICK t \in Token : AliasExpires(t)
   BY <1>5
 <2>2. PICK now : now = AliasExpired(cred, t)
   OBVIOUS
 <2>3. Shrinks(cred, now) /\ Books(now, Admitted) /\ KeepsUsable(cred, now) /\ cred' = now
   BY <2>1, <2>2, AliasExpiredShrinks, AliasExpiredBooks DEF AliasExpires, Core
 <2>4. Moves(cred, now, Admitted)
   BY <2>3, ShrinksMoves DEF Core
 <2> QED BY <1>2, <2>3, <2>4, UsableMovesAre
<1> QED BY <1>3, <1>4, <1>5 DEF TimePasses

\* What closes connections, and what leaves the credentials alone.
LEMMA ClosingMoves ==
  ASSUME Core, NEW c \in Connection,
         \/ CloseEarly(c) \/ Disconnect(c) \/ Command(c) \/ ServeCommit(c) \/ TicketExpires(c)
         \/ AskReconnect(c) \/ Reacquire(c) \/ \E x \in Connection : DrainClient(c, x)
  PROVE  CalmMove
<1>1. ident' = ident
  BY DEF CloseEarly, Disconnect, Command, ServeCommit, TicketExpires, AskReconnect, Reacquire,
     DrainClient, locks
<1>2. cred' = cred \/ \E gone \in SUBSET Connection : cred' = AllInvalidated(cred, gone)
 <2>1. {c} \in SUBSET Connection
   OBVIOUS
 <2>2. CASE CloseEarly(c) \/ Disconnect(c) \/ TicketExpires(c)
   BY <2>1, <2>2 DEF CloseEarly, Disconnect, TicketExpires, Closes
 <2>3. CASE Command(c)
   BY <2>1, <2>3 DEF Command, Closes
 <2>4. CASE ServeCommit(c)
  <3>1. Commit(c, TicketOf(c))
    BY <2>4 DEF ServeCommit
  <3> QED BY <2>1, <3>1 DEF Commit, Closes
 <2>5. CASE AskReconnect(c)
  <3>1. UNCHANGED cred \/ Fails(c, cred)
    BY <2>5 DEF AskReconnect
  <3> QED BY <2>1, <3>1 DEF Fails, Closes
 <2>6. CASE Reacquire(c)
  <3>1. UNCHANGED cred \/ Fails(c, cred)
    BY <2>6 DEF Reacquire
  <3> QED BY <2>1, <3>1 DEF Fails, Closes
 <2>7. CASE \E x \in Connection : DrainClient(c, x)
  <3>1. PICK x \in Connection : DrainClient(c, x)
    BY <2>7
  <3>2. {x} \in SUBSET Connection
    OBVIOUS
  <3> QED BY <3>1, <3>2 DEF DrainClient, Closes
 <2> QED BY <2>2, <2>3, <2>4, <2>5, <2>6, <2>7
<1> QED BY <1>1, <1>2, CloseMoves, StillMoves

LEMMA QuietMoves ==
  ASSUME Core, NEW c \in Connection,
         \/ Dial(c) \/ Abandon(c) \/ DrainRetired(c) \/ EndCommand(c) \/ PostCommit(c) \/ TakeCommit(c)
         \/ TakeReconnected(c) \/ TakeProvisional(c) \/ Lose(c) \/ PostRevoke(c) \/ RevokeReturns(c)
         \/ TakeRevoked(c) \/ DrainDone(c) \/ NonceExpires(c)
  PROVE  CalmMove
<1>1. UNCHANGED << cred, ident >>
  BY DEF Dial, Abandon, DrainRetired, EndCommand, PostCommit, TakeCommit, TakeReconnected,
         TakeProvisional, Lose, PostRevoke, RevokeReturns, TakeRevoked, DrainDone, NonceExpires, server
<1> QED BY <1>1, StillMoves

LEMMA EveryStepMoves ==
  ASSUME Core, [ReconnectNext]_reconnectVars
  PROVE  CredMove
<1>1. ASSUME NEW c \in Connection, Opening(c)
      PROVE  CredMove
  BY <1>1, UpgradeMoves, QuietMoves, ActivateBrowserMoves, ActivateTerminalMoves DEF Opening, CalmMove
<1>2. ASSUME NEW c \in Connection, Reconnecting(c)
      PROVE  CredMove
  BY <1>2, ClosingMoves, RestoreMoves, DeliverMoves, UndoRebindMoves, UndoRestoreMoves, QuietMoves
     DEF Reconnecting, CalmMove
<1>3. ASSUME NEW c \in Connection, Ending(c) \/ Commanding(c)
      PROVE  CredMove
  BY <1>3, ClosingMoves, MarkOfflineMoves, QuietMoves DEF Ending, Commanding, CalmMove
<1>4. ASSUME NEW c \in Connection, Paging(c)
      PROVE  CredMove
  BY <1>4, ClosingMoves, ServeRefreshMoves, QuietMoves DEF Paging, CalmMove
<1>5. ASSUME NEW c \in Connection, Revoking(c) \/ Expiring(c)
      PROVE  CredMove
  BY <1>5, ClosingMoves, ServeRevokeMoves, QuietMoves DEF Revoking, Expiring, CalmMove
<1>6. CASE UNCHANGED reconnectVars
  BY <1>6, StillMoves DEF reconnectVars, server, CalmMove
<1> QED BY <1>1, <1>2, <1>3, <1>4, <1>5, <1>6, TimePassesMoves DEF ReconnectNext, CalmMove

-----------------------------------------------------------------------------
(* Every action keeps the shape of the state                               *)

LEMMA BecomesShapes ==
  ASSUME Core, NEW c \in Connection, NEW what \in Requests, Becomes(c, what)
  PROVE  request' \in [Connection -> [what : Requests, cookie : TokenOrNone, owner : ConnectionOrNone]]
<1>1. [NoRequest EXCEPT !.what = what] \in [what : Requests, cookie : TokenOrNone, owner : ConnectionOrNone]
  BY DEF NoRequest, TokenOrNone, ConnectionOrNone
<1> QED BY <1>1 DEF Core, Shapes, Becomes

LEMMA AnswersShapes ==
  ASSUME Core, NEW c \in Connection, NEW what \in Requests, NEW cookie \in TokenOrNone,
         Answers(c, what, cookie)
  PROVE  request' \in [Connection -> [what : Requests, cookie : TokenOrNone, owner : ConnectionOrNone]]
<1>1. [NoRequest EXCEPT !.what = what, !.cookie = cookie]
        \in [what : Requests, cookie : TokenOrNone, owner : ConnectionOrNone]
  BY DEF NoRequest, TokenOrNone, ConnectionOrNone
<1> QED BY <1>1 DEF Core, Shapes, Answers

LEMMA RequestWords ==
  {"ask", "asked", "ticket", "up", "failed", "reconnected", "rejected", "committed"} \subseteq Requests
  BY DEF Requests

LEMMA TokensOrNone ==
  /\ NoToken \in TokenOrNone /\ Token \subseteq TokenOrNone
  /\ \A t \in TokenOrNone : t # NoToken => t \in Token
  BY DEF TokenOrNone

LEMMA HeldShapes ==
  ASSUME Core, NEW p, NEW tokens, p \in Connection => tokens \subseteq Token,
         held' = [held EXCEPT ![p] = tokens]
  PROVE  held' \in [Connection -> SUBSET Token]
  BY DEF Core, Shapes

\* What a logout closes, and whose sessions and connections it ends.
RevokePlan(c, p, q, first, tickets, whom, gone, credentials) ==
  /\ p \in ConnectionOrNone /\ q \in ConnectionOrNone
  /\ p # Nobody => p = RevokedBy(cred, request[c].cookie)
  /\ first = IF p = Nobody THEN cred ELSE Deleted(cred, p)
  /\ q # Nobody => \E o \in Connection : q = RevokedBy(first, Own(o)) /\ seen[o] = NoToken
  /\ whom = UNION {Concerned(x) : x \in {p, q} \ {Nobody}}
  /\ tickets \in SUBSET Token /\ \A u \in tickets : ticket[u] # "none"
  /\ gone = {u[1] : u \in tickets}
  /\ tickets \subseteq credentials /\ \A u \in tickets : seen[u[1]] # NoToken => seen[u[1]] \in credentials
  /\ \A u \in tickets : request[c].cookie \in {u, seen[u[1]]} \/ (u = Own(u[1]) /\ seen[u[1]] = NoToken)
  /\ \A x \in {p, q} \ {Nobody} : CredentialsOf(x, cred) \ {NoToken} \subseteq credentials
  /\ credentials \subseteq Token \cup (Connection \X {"nonce"})
  /\ RegisterDrain(c, {p, q} \ {Nobody}, whom, credentials)
  /\ closed' = closed \cup gone
  /\ authorized' = WithoutAuthority(gone \cup whom)
  /\ ticket' = WithoutTicketsOf(gone)
  /\ nonces' \subseteq nonces
  /\ cred' = AllInvalidated(IF q = Nobody THEN first ELSE Deleted(first, q), gone)

LEMMA ConcernedAre ==
  ASSUME Core, NEW p \in Connection
  PROVE  Concerned(p) \subseteq Connection
  BY DEF Core, Shapes, Concerned, ConnectionOrNone

LEMMA LineagesAre ==
  ASSUME NEW cr \in Credentials, NEW p \in Connection
  PROVE  Lineage(cr, p) \subseteq TokenOrNone /\ AliasesOf(cr, p) \subseteq Token
<1>1. cr.rotation[p].by # Nobody => cr.rotation[p].by \in Connection
  BY CredentialTypes DEF ConnectionOrNone
<1>2. cr.rotation[p].by # Nobody => {cr.restored[cr.rotation[p].by].previous, New(cr.rotation[p].by)} \subseteq TokenOrNone
  BY <1>1, CredentialTypes, TokenFacts, TokensOrNone
<1>3. cr.session[p].token \in TokenOrNone
  BY CredentialTypes
<1> QED BY <1>2, <1>3 DEF Lineage, AliasesOf

LEMMA RevokePlans ==
  ASSUME Core, NEW c \in Connection, ServeRevoke(c)
  PROVE  \E p, q, first, tickets, whom, gone, credentials :
           RevokePlan(c, p, q, first, tickets, whom, gone, credentials)
<1> DEFINE t == request[c].cookie
           owner == request[c].owner
           fresh == t # NoToken /\ Draining(t) = {}
           p == IF fresh THEN RevokedBy(cred, t) ELSE Nobody
           first == IF p = Nobody THEN cred ELSE Deleted(cred, p)
           pending == IF fresh THEN Pending(t) ELSE {}
           owned == IF owner # Nobody /\ Draining(Nonce(owner)) = {} THEN Owned(owner) \ pending ELSE {}
           q == IF owned # {} /\ Draining(Own(owner)) = {} THEN RevokedBy(first, Own(owner)) ELSE Nobody
           second == IF q = Nobody THEN first ELSE Deleted(first, q)
           tickets == pending \cup owned
           ended == {p, q} \ {Nobody}
           whom == UNION {Concerned(x) : x \in ended}
           gone == {u[1] : u \in tickets}
           credentials ==
             ({t, IF owner = Nobody THEN NoToken ELSE Nonce(owner)}
                \cup PendingLineage(tickets)
                \cup UNION {CredentialsOf(x, cred) : x \in ended}) \ {NoToken}
<1>1. /\ RegisterDrain(c, ended, whom, credentials)
      /\ closed' = closed \cup gone
      /\ authorized' = WithoutAuthority(gone \cup whom)
      /\ ticket' = WithoutTicketsOf(gone)
      /\ nonces' \subseteq nonces
      /\ cred' = AllInvalidated(second, gone)
  BY DEF ServeRevoke
<1>2. t \in TokenOrNone /\ Own(owner) \in TokenOrNone /\ owner \in ConnectionOrNone
 <2>1. Own(Nobody) = NoToken
   BY DEF Own, NoToken
 <2> QED BY <2>1, TokenFacts DEF Core, Shapes, TokenOrNone, ConnectionOrNone
<1>3. tickets \in SUBSET Token /\ \A u \in tickets : ticket[u] # "none"
  BY DEF Pending, Owned
<1>4. owned # {} => owned = {Own(owner)} /\ owner # Nobody
  BY DEF Owned
<1>5. p \in ConnectionOrNone
  BY <1>2, RevokedByIs DEF Core, ConnectionOrNone
<1>6. first \in Credentials
 <2> HIDE DEF p
 <2> QED BY <1>5, DeletedShrinks DEF Core, ConnectionOrNone, Shrinks
<1>7. q \in ConnectionOrNone
 <2> HIDE DEF first, owned
 <2> QED BY <1>2, <1>6, RevokedByIs DEF ConnectionOrNone
<1>8. tickets \subseteq credentials
 <2> HIDE DEF tickets, ended, t, owner
 <2> QED BY <1>3, TokenFacts DEF PendingLineage
<1>9. \A u \in tickets : seen[u[1]] # NoToken => seen[u[1]] \in credentials
 <2> HIDE DEF tickets, ended, t, owner
 <2> QED BY DEF PendingLineage
<1>10. p # Nobody => t # NoToken /\ p = RevokedBy(cred, t) /\ Draining(t) = {} /\ t \in credentials
  OBVIOUS
<1>11. q # Nobody => q = RevokedBy(first, Own(owner)) /\ Draining(Own(owner)) = {} /\ Own(owner) \in credentials
 <2>1. q # Nobody => owned # {} /\ q = RevokedBy(first, Own(owner)) /\ Draining(Own(owner)) = {}
   OBVIOUS
 <2>2. q # Nobody => Own(owner) \in tickets
  <3> HIDE DEF q
  <3> QED BY <1>4, <2>1
 <2> HIDE DEF q, tickets, credentials
 <2> QED BY <1>8, <2>1, <2>2
<1>12. \A x \in ended : CredentialsOf(x, cred) \ {NoToken} \subseteq credentials
 <2> HIDE DEF tickets, ended, t, owner
 <2> QED OBVIOUS
<1>13. ended \subseteq Connection
 <2> HIDE DEF p, q
 <2> QED BY <1>5, <1>7 DEF ConnectionOrNone
<1>14. credentials \subseteq Token \cup (Connection \X {"nonce"})
 <2>1. PendingLineage(tickets) \subseteq TokenOrNone
  <3> HIDE DEF tickets
  <3> QED BY <1>3, TokenFacts, TokensOrNone DEF PendingLineage, Core, Shapes
 <2>2. ASSUME NEW x \in ended
       PROVE  CredentialsOf(x, cred) \subseteq TokenOrNone
  <3>1. x \in Connection
    BY <1>13
  <3>2. Lineage(cred, x) \subseteq TokenOrNone /\ AliasesOf(cred, x) \subseteq Token
    BY <3>1, LineagesAre DEF Core
  <3>3. \A d \in Concerned(x) : authorized[d] \in TokenOrNone
    BY <3>1, ConcernedAre DEF Core, Shapes
  <3> QED BY <3>2, <3>3, TokensOrNone DEF CredentialsOf, RevokedLineage
 <2>3. owner # Nobody => Nonce(owner) \in Connection \X {"nonce"}
   BY <1>2 DEF Nonce, ConnectionOrNone
 <2> HIDE DEF tickets, ended, t, owner
 <2> QED BY <1>2, <2>1, <2>2, <2>3, TokensOrNone
<1>20. \A u \in tickets : t \in {u, seen[u[1]]} \/ (u = Own(u[1]) /\ seen[u[1]] = NoToken)
 <2>1. \A u \in pending : t \in {u, seen[u[1]]}
   BY DEF Pending
 <2>2. \A u \in owned : u = Own(owner) /\ seen[owner] = NoToken
   BY DEF Owned
 <2>3. Own(owner)[1] = owner
   BY TokenFacts
 <2> HIDE DEF pending, owned
 <2> QED BY <2>1, <2>2, <2>3
<1>21. q # Nobody => owner # Nobody /\ seen[owner] = NoToken
 <2>1. q # Nobody => owned # {}
   OBVIOUS
 <2>2. owned # {} => owner # Nobody /\ seen[owner] = NoToken
   BY DEF Owned
 <2> HIDE DEF q, owned
 <2> QED BY <2>1, <2>2
<1> HIDE DEF t, owner, p, first, q, tickets, ended, gone, credentials, whom
<1>15. p # Nobody => p = RevokedBy(cred, t)
  BY <1>10
<1>16. q # Nobody => \E o \in Connection : q = RevokedBy(first, Own(o)) /\ seen[o] = NoToken
 <2>1. ASSUME q # Nobody
       PROVE  owner \in Connection /\ seen[owner] = NoToken
   BY <1>2, <1>21, <2>1 DEF ConnectionOrNone
 <2> QED BY <1>11, <2>1
<1>17. /\ first = IF p = Nobody THEN cred ELSE Deleted(cred, p)
       /\ ended = {p, q} \ {Nobody}
       /\ gone = {u[1] : u \in tickets}
       /\ whom = UNION {Concerned(x) : x \in ended}
  BY DEF first, ended, gone, whom
<1>19. \A u \in tickets : t \in {u, seen[u[1]]} \/ (u = Own(u[1]) /\ seen[u[1]] = NoToken)
  BY <1>20
<1>18. RevokePlan(c, p, q, first, tickets, whom, gone, credentials)
  BY <1>1, <1>3, <1>5, <1>7, <1>8, <1>9, <1>12, <1>14, <1>15, <1>16, <1>17, <1>19 DEF RevokePlan, t
<1> QED BY <1>18

LEMMA UpgradeShapes ==
  ASSUME Core, NEW c \in Connection, Upgrade(c)
  PROVE  Shapes'
<1>1. ticket' \in [Token -> {"none", "issued", "committed"}]
 <2>1. UNCHANGED ticket \/ ticket' = [ticket EXCEPT ![jar.cookie] = "none"]
   BY DEF Upgrade, Presents
 <2> QED BY <2>1 DEF Core, Shapes
<1>2. nonces' \subseteq Connection
  BY DEF Core, Shapes, Upgrade, NonceGiven, Closes, Fails
<1>3. doing' \in [Connection -> Phases]
  BY DEF Core, Shapes, Upgrade, Admits, Goes, Fails, Phases
<1>4. seen' \in [Connection -> TokenOrNone]
  BY DEF Core, Shapes, Upgrade
<1>5. authorized' \in [Connection -> TokenOrNone]
  BY DEF Core, Shapes, Upgrade, Presents, Closes, WithoutAuthority, Fails, TokenOrNone
<1>6. jar' \in [cookie : TokenOrNone, owner : ConnectionOrNone]
  BY DEF Core, Shapes, Upgrade, NonceGiven, TokenOrNone, ConnectionOrNone, NoToken
<1>7. held' \in [Connection -> SUBSET Token]
 <2>1. \/ UNCHANGED held
       \/ jar.cookie # NoToken /\ \E p : held' = [held EXCEPT ![p] = {jar.cookie}]
   BY DEF Upgrade
 <2>2. jar.cookie \in TokenOrNone
   BY DEF Core, Shapes
 <2> QED BY <2>1, <2>2, TokensOrNone DEF Core, Shapes
<1> QED BY <1>1, <1>2, <1>3, <1>4, <1>5, <1>6, <1>7 DEF Core, Shapes, Upgrade, server, locks,
     device, revokes, Releases, Fails, Closes, Admits, Web

LEMMA DialShapes ==
  ASSUME Core, NEW c \in Connection, Dial(c)
  PROVE  Shapes'
<1>1. doing' \in [Connection -> Phases]
  BY DEF Core, Shapes, Dial, Admits, Goes, Fails, Phases
<1>2. seen' \in [Connection -> TokenOrNone]
  BY DEF Core, Shapes, Dial
<1> QED BY <1>1, <1>2 DEF Core, Shapes, Dial, server, locks, device, revokes, Releases, Fails,
     Closes, Admits, Web

LEMMA ActivateBrowserShapes ==
  ASSUME Core, NEW c \in Connection, ActivateBrowser(c)
  PROVE  Shapes'
<1>1. ticket' \in [Token -> {"none", "issued", "committed"}]
  BY DEF Core, Shapes, ActivateBrowser, Issued, Presents, Closes, WithoutTicketsOf, Fails
<1>2. clients' \in [Connection -> ConnectionOrNone]
  BY DEF Core, Shapes, ActivateBrowser, Admits, Unregister, ConnectionOrNone
<1>3. ident' \in [Connection -> ConnectionOrNone]
  BY DEF Core, Shapes, ActivateBrowser, Admits, ConnectionOrNone
<1>4. doing' \in [Connection -> Phases]
  BY DEF Core, Shapes, ActivateBrowser, Admits, Goes, Fails, Phases
<1>5. authorized' \in [Connection -> TokenOrNone]
  BY DEF Core, Shapes, ActivateBrowser, Presents, Closes, WithoutAuthority, Fails, TokenOrNone
<1>6. request' \in [Connection -> [what : Requests, cookie : TokenOrNone, owner : ConnectionOrNone]]
  BY DEF Core, Shapes, ActivateBrowser, Fails, Answers, Becomes, Post, NoRequest, Requests,
     TokenOrNone, ConnectionOrNone
<1>7. held' \in [Connection -> SUBSET Token]
 <2>1. \/ UNCHANGED held
       \/ seen[c] # NoToken /\ \E p : held' = [held EXCEPT ![p] = {seen[c]}]
   BY DEF ActivateBrowser
 <2>2. seen[c] \in TokenOrNone
   BY DEF Core, Shapes
 <2> QED BY <2>1, <2>2, TokensOrNone DEF Core, Shapes
<1> QED BY <1>1, <1>2, <1>3, <1>4, <1>5, <1>6, <1>7 DEF Core, Shapes, ActivateBrowser, server,
     locks, device, revokes, Releases, Fails, Closes, Admits, Web

LEMMA ActivateTerminalShapes ==
  ASSUME Core, NEW c \in Connection, ActivateTerminal(c)
  PROVE  Shapes'
<1>1. clients' \in [Connection -> ConnectionOrNone]
  BY DEF Core, Shapes, ActivateTerminal, Admits, Unregister, ConnectionOrNone
<1>2. ident' \in [Connection -> ConnectionOrNone]
  BY DEF Core, Shapes, ActivateTerminal, Admits, ConnectionOrNone
<1>3. doing' \in [Connection -> Phases]
  BY DEF Core, Shapes, ActivateTerminal, Admits, Goes, Fails, Phases
<1>4. request' \in [Connection -> [what : Requests, cookie : TokenOrNone, owner : ConnectionOrNone]]
  BY DEF Core, Shapes, ActivateTerminal, Fails, Answers, Becomes, Post, NoRequest, Requests,
     TokenOrNone, ConnectionOrNone
<1>5. jar' \in [cookie : TokenOrNone, owner : ConnectionOrNone]
  BY TokenFacts, TokensOrNone DEF Core, Shapes, ActivateTerminal
<1>6. held' \in [Connection -> SUBSET Token]
  BY TokenFacts DEF Core, Shapes, ActivateTerminal
<1> QED BY <1>1, <1>2, <1>3, <1>4, <1>5, <1>6 DEF Core, Shapes, ActivateTerminal, server, locks,
     device, revokes, Releases, Fails, Closes, Admits, Web

LEMMA AbandonShapes ==
  ASSUME Core, NEW c \in Connection, Abandon(c)
  PROVE  Shapes'
<1>1. doing' \in [Connection -> Phases]
  BY DEF Core, Shapes, Abandon, Admits, Goes, Fails, Phases
<1>2. nonces' \subseteq Connection
  BY DEF Core, Shapes, Abandon, NonceGiven, Closes, Fails
<1> QED BY <1>1, <1>2 DEF Core, Shapes, Abandon, server, locks, device, revokes, Releases, Fails,
     Closes, Admits, Web

LEMMA AskReconnectShapes ==
  ASSUME Core, NEW c \in Connection, AskReconnect(c)
  PROVE  Shapes'
<1>1. ticket' \in [Token -> {"none", "issued", "committed"}]
  BY DEF Core, Shapes, AskReconnect, Issued, Presents, Closes, WithoutTicketsOf, Fails
<1>2. nonces' \subseteq Connection
  BY DEF Core, Shapes, AskReconnect, NonceGiven, Closes, Fails
<1>3. doing' \in [Connection -> Phases]
 <2>1. Goes(c, "restoring") \/ Goes(c, "idle") \/ Goes(c, "draining")
   BY DEF AskReconnect, Fails
 <2> QED BY <2>1 DEF Core, Shapes, Goes, Phases
<1>4. authorized' \in [Connection -> TokenOrNone]
  BY DEF Core, Shapes, AskReconnect, Presents, Closes, WithoutAuthority, Fails, TokenOrNone
<1>5. closed' \subseteq Connection
  BY DEF Core, Shapes, AskReconnect, Closes, Fails
<1>6. authority' \in ConnectionOrNone
  BY DEF Core, Shapes, AskReconnect, Releases, ConnectionOrNone
<1>7. moving' \in [Connection -> ConnectionOrNone]
 <2> DEFINE p == PlayerOf(cred, seen[c])
            current == IF p = Nobody THEN Nobody ELSE clients[p]
 <2>1. current \in ConnectionOrNone
  <3>1. seen[c] \in TokenOrNone
    BY DEF Core, Shapes
  <3>2. p \in ConnectionOrNone
    BY <3>1, PlayerFacts DEF Core
  <3> HIDE DEF p
  <3> QED BY <3>2 DEF Core, Shapes, ConnectionOrNone
 <2>2. UNCHANGED moving \/ moving' = [moving EXCEPT ![c] = current]
   BY DEF AskReconnect
 <2> QED BY <2>1, <2>2 DEF Core, Shapes
<1>8. request' \in [Connection -> [what : Requests, cookie : TokenOrNone, owner : ConnectionOrNone]]
 <2>1. Becomes(c, "asked") \/ Becomes(c, "failed")
   BY DEF AskReconnect, Fails
 <2> QED BY <2>1, RequestWords, BecomesShapes
<1> QED BY <1>1, <1>2, <1>3, <1>4, <1>5, <1>6, <1>7, <1>8 DEF Core, Shapes, AskReconnect, server,
     locks, device, revokes, Releases, Fails, Closes, Admits, Web

LEMMA ReacquireShapes ==
  ASSUME Core, NEW c \in Connection, Reacquire(c)
  PROVE  Shapes'
<1>1. ticket' \in [Token -> {"none", "issued", "committed"}]
  BY DEF Core, Shapes, Reacquire, Issued, Presents, Closes, WithoutTicketsOf, Fails
<1>2. nonces' \subseteq Connection
  BY DEF Core, Shapes, Reacquire, NonceGiven, Closes, Fails
<1>3. doing' \in [Connection -> Phases]
  BY DEF Core, Shapes, Reacquire, Admits, Goes, Fails, Phases
<1>4. authorized' \in [Connection -> TokenOrNone]
  BY DEF Core, Shapes, Reacquire, Presents, Closes, WithoutAuthority, Fails, TokenOrNone
<1>5. closed' \subseteq Connection
  BY DEF Core, Shapes, Reacquire, Closes, Fails
<1>6. authority' \in ConnectionOrNone
  BY DEF Core, Shapes, Reacquire, Releases, ConnectionOrNone
<1>7. moving' \in [Connection -> ConnectionOrNone]
  BY DEF Core, Shapes, Reacquire, Releases, ConnectionOrNone
<1>8. request' \in [Connection -> [what : Requests, cookie : TokenOrNone, owner : ConnectionOrNone]]
 <2>1. UNCHANGED request \/ Becomes(c, "failed")
   BY DEF Reacquire, Fails
 <2> QED BY <2>1, RequestWords, BecomesShapes DEF Core, Shapes
<1> QED BY <1>1, <1>2, <1>3, <1>4, <1>5, <1>6, <1>7, <1>8 DEF Core, Shapes, Reacquire, server,
     locks, device, revokes, Releases, Fails, Closes, Admits, Web

LEMMA RestoreShapes ==
  ASSUME Core, NEW c \in Connection, Restore(c)
  PROVE  Shapes'
<1>1. ticket' \in [Token -> {"none", "issued", "committed"}]
  BY DEF Core, Shapes, Restore, Issued, Presents, Closes, WithoutTicketsOf, Fails
<1>2. nonces' \subseteq Connection
  BY DEF Core, Shapes, Restore, NonceGiven, Closes, Fails
<1>3. clients' \in [Connection -> ConnectionOrNone]
  BY DEF Core, Shapes, Restore, Admits, Unregister, ConnectionOrNone
<1>4. ident' \in [Connection -> ConnectionOrNone]
 <2>1. \/ UNCHANGED ident
       \/ /\ Restorable(cred, seen[c], Web)
          /\ ident' = [ident EXCEPT ![c] = PlayerOf(Resolved(cred, seen[c]), seen[c])]
   BY DEF Restore
 <2>2. Restorable(cred, seen[c], Web) => PlayerOf(Resolved(cred, seen[c]), seen[c]) \in ConnectionOrNone
  <3>1. seen[c] \in TokenOrNone
    BY DEF Core, Shapes
  <3>2. Resolved(cred, seen[c]) \in Credentials /\ Books(Resolved(cred, seen[c]), Admitted)
    BY <3>1, ResolvedBooks DEF Core
  <3> QED BY <3>1, <3>2, PlayerFacts
 <2> QED BY <2>1, <2>2 DEF Core, Shapes
<1>5. doing' \in [Connection -> Phases]
  BY DEF Core, Shapes, Restore, Admits, Goes, Fails, Phases
<1>6. authorized' \in [Connection -> TokenOrNone]
  BY DEF Core, Shapes, Restore, Presents, Closes, WithoutAuthority, Fails, TokenOrNone
<1>7. closed' \subseteq Connection
  BY DEF Core, Shapes, Restore, Closes, Fails
<1>8. authority' \in ConnectionOrNone
  BY DEF Core, Shapes, Restore, Releases, ConnectionOrNone
<1>9. moving' \in [Connection -> ConnectionOrNone]
  BY DEF Core, Shapes, Restore, Releases, ConnectionOrNone
<1>10. previous' \in [Connection -> ConnectionOrNone]
 <2>1. \/ UNCHANGED previous
       \/ /\ Restorable(cred, seen[c], Web)
          /\ previous' = [previous EXCEPT ![c] = clients[PlayerOf(Resolved(cred, seen[c]), seen[c])]]
   BY DEF Restore
 <2>2. Restorable(cred, seen[c], Web) => PlayerOf(Resolved(cred, seen[c]), seen[c]) \in Connection
  <3>1. seen[c] \in TokenOrNone
    BY DEF Core, Shapes
  <3>2. Resolved(cred, seen[c]) \in Credentials /\ Books(Resolved(cred, seen[c]), Admitted)
    BY <3>1, ResolvedBooks DEF Core
  <3> QED BY <3>1, <3>2, PlayerFacts DEF Restorable
 <2> QED BY <2>1, <2>2 DEF Core, Shapes
<1>11. request' \in [Connection -> [what : Requests, cookie : TokenOrNone, owner : ConnectionOrNone]]
 <2>1. UNCHANGED request \/ Becomes(c, "failed") \/ Answers(c, "rejected", Own(c))
   BY DEF Restore, Fails
 <2>2. Own(c) \in TokenOrNone
   BY TokenFacts, TokensOrNone
 <2> QED BY <2>1, <2>2, RequestWords, BecomesShapes, AnswersShapes DEF Core, Shapes
<1>12. held' \in [Connection -> SUBSET Token]
 <2>1. \/ UNCHANGED held
       \/ /\ Restorable(cred, seen[c], Web)
          /\ \E p : held' = [held EXCEPT ![p] = {seen[c]}] \/ held' = [held EXCEPT ![p] = held[p]]
   BY DEF Restore
 <2>2. Restorable(cred, seen[c], Web) => seen[c] \in Token
  <3>1. seen[c] \in TokenOrNone /\ Web \in BOOLEAN
    BY DEF Core, Shapes, Web
  <3> QED BY <3>1, RestorableFacts DEF Core
 <2>3. \A p \in Connection : held[p] \subseteq Token
   BY DEF Core, Shapes
 <2> QED BY <2>1, <2>2, <2>3, HeldShapes DEF Core, Shapes
<1> QED BY <1>1, <1>2, <1>3, <1>4, <1>5, <1>6, <1>7, <1>8, <1>9, <1>10, <1>11, <1>12 DEF Core,
     Shapes, Restore, server, locks, device, revokes, Releases, Fails, Closes, Admits, Web

LEMMA DeliverShapes ==
  ASSUME Core, NEW c \in Connection, Deliver(c)
  PROVE  Shapes'
<1>1. ticket' \in [Token -> {"none", "issued", "committed"}]
  BY DEF Core, Shapes, Deliver, Issued, Presents, Closes, WithoutTicketsOf, Fails
<1>2. nonces' \subseteq Connection
  BY DEF Core, Shapes, Deliver, NonceGiven, Closes, Fails
<1>3. doing' \in [Connection -> Phases]
  BY DEF Core, Shapes, Deliver, Admits, Goes, Fails, Phases
<1>4. authorized' \in [Connection -> TokenOrNone]
  BY DEF Core, Shapes, Deliver, Presents, Closes, WithoutAuthority, Fails, TokenOrNone
<1>5. closed' \subseteq Connection
  BY DEF Core, Shapes, Deliver, ConnectionOrNone
<1>6. retired' \subseteq Connection
  BY DEF Core, Shapes, Deliver, Retiring, ConnectionOrNone
<1>7. authority' \in ConnectionOrNone
  BY DEF Core, Shapes, Deliver, Releases, ConnectionOrNone
<1>8. moving' \in [Connection -> ConnectionOrNone]
  BY DEF Core, Shapes, Deliver, Releases, ConnectionOrNone
<1>9. previous' \in [Connection -> ConnectionOrNone]
  BY DEF Core, Shapes, Deliver, ConnectionOrNone
<1>10. request' \in [Connection -> [what : Requests, cookie : TokenOrNone, owner : ConnectionOrNone]]
 <2>1. UNCHANGED request \/ Becomes(c, "ticket") \/ Answers(c, "reconnected", New(c))
   BY DEF Deliver
 <2>2. New(c) \in TokenOrNone
   BY TokenFacts, TokensOrNone
 <2> QED BY <2>1, <2>2, RequestWords, BecomesShapes, AnswersShapes DEF Core, Shapes
<1>11. held' \in [Connection -> SUBSET Token]
 <2>1. UNCHANGED held \/ \E p : held' = [held EXCEPT ![p] = {New(c)}]
   BY DEF Deliver
 <2>2. {New(c)} \subseteq Token
   BY TokenFacts
 <2> QED BY <2>1, <2>2, HeldShapes DEF Core, Shapes
<1> QED BY <1>1, <1>2, <1>3, <1>4, <1>5, <1>6, <1>7, <1>8, <1>9, <1>10, <1>11 DEF Core, Shapes,
     Deliver, server, locks, device, revokes, Releases, Fails, Closes, Admits, Web

LEMMA UndoRebindShapes ==
  ASSUME Core, NEW c \in Connection, UndoRebind(c)
  PROVE  Shapes'
<1>1. clients' \in [Connection -> ConnectionOrNone]
  BY DEF Core, Shapes, UndoRebind, Admits, Unregister, ConnectionOrNone
<1>2. ident' \in [Connection -> ConnectionOrNone]
  BY DEF Core, Shapes, UndoRebind, Admits, ConnectionOrNone
<1>3. doing' \in [Connection -> Phases]
  BY DEF Core, Shapes, UndoRebind, Admits, Goes, Fails, Phases
<1>4. previous' \in [Connection -> ConnectionOrNone]
  BY DEF Core, Shapes, UndoRebind, ConnectionOrNone
<1> QED BY <1>1, <1>2, <1>3, <1>4 DEF Core, Shapes, UndoRebind, server, locks, device, revokes,
     Releases, Fails, Closes, Admits, Web

LEMMA UndoRestoreShapes ==
  ASSUME Core, NEW c \in Connection, UndoRestore(c)
  PROVE  Shapes'
<1>1. ticket' \in [Token -> {"none", "issued", "committed"}]
  BY DEF Core, Shapes, UndoRestore, Issued, Presents, Closes, WithoutTicketsOf, Fails
<1>2. nonces' \subseteq Connection
  BY DEF Core, Shapes, UndoRestore, NonceGiven, Closes, Fails
<1>3. doing' \in [Connection -> Phases]
  BY DEF Core, Shapes, UndoRestore, Admits, Goes, Fails, Phases
<1>4. authorized' \in [Connection -> TokenOrNone]
  BY DEF Core, Shapes, UndoRestore, Presents, Closes, WithoutAuthority, Fails, TokenOrNone
<1>5. closed' \subseteq Connection
  BY DEF Core, Shapes, UndoRestore, Closes, Fails
<1>6. authority' \in ConnectionOrNone
  BY DEF Core, Shapes, UndoRestore, Releases, ConnectionOrNone
<1>7. moving' \in [Connection -> ConnectionOrNone]
  BY DEF Core, Shapes, UndoRestore, Releases, ConnectionOrNone
<1>8. request' \in [Connection -> [what : Requests, cookie : TokenOrNone, owner : ConnectionOrNone]]
  BY DEF Core, Shapes, UndoRestore, Fails, Answers, Becomes, Post, NoRequest, Requests, TokenOrNone,
     ConnectionOrNone
<1> QED BY <1>1, <1>2, <1>3, <1>4, <1>5, <1>6, <1>7, <1>8 DEF Core, Shapes, UndoRestore, server,
     locks, device, revokes, Releases, Fails, Closes, Admits, Web

LEMMA DrainRetiredShapes ==
  ASSUME Core, NEW c \in Connection, DrainRetired(c)
  PROVE  Shapes'
<1>1. retired' \subseteq Connection
  BY DEF Core, Shapes, DrainRetired, Retiring, ConnectionOrNone
<1> QED BY <1>1 DEF Core, Shapes, DrainRetired, server, locks, device, revokes, Releases, Fails,
     Closes, Admits, Web

LEMMA CloseEarlyShapes ==
  ASSUME Core, NEW c \in Connection, CloseEarly(c)
  PROVE  Shapes'
<1>1. ticket' \in [Token -> {"none", "issued", "committed"}]
  BY DEF Core, Shapes, CloseEarly, Issued, Presents, Closes, WithoutTicketsOf, Fails
<1>2. nonces' \subseteq Connection
  BY DEF Core, Shapes, CloseEarly, NonceGiven, Closes, Fails
<1>3. authorized' \in [Connection -> TokenOrNone]
  BY DEF Core, Shapes, CloseEarly, Presents, Closes, WithoutAuthority, Fails, TokenOrNone
<1>4. closed' \subseteq Connection
  BY DEF Core, Shapes, CloseEarly, Closes, Fails
<1> QED BY <1>1, <1>2, <1>3, <1>4 DEF Core, Shapes, CloseEarly, server, locks, device, revokes,
     Releases, Fails, Closes, Admits, Web

LEMMA DisconnectShapes ==
  ASSUME Core, NEW c \in Connection, Disconnect(c)
  PROVE  Shapes'
<1>1. ticket' \in [Token -> {"none", "issued", "committed"}]
  BY DEF Core, Shapes, Disconnect, Issued, Presents, Closes, WithoutTicketsOf, Fails
<1>2. nonces' \subseteq Connection
  BY DEF Core, Shapes, Disconnect, NonceGiven, Closes, Fails
<1>3. authorized' \in [Connection -> TokenOrNone]
  BY DEF Core, Shapes, Disconnect, Presents, Closes, WithoutAuthority, Fails, TokenOrNone
<1>4. closed' \subseteq Connection
  BY DEF Core, Shapes, Disconnect, Closes, Fails
<1>5. clients' \in [Connection -> ConnectionOrNone]
  BY DEF Core, Shapes, Disconnect, Admits, Unregister, ConnectionOrNone
<1>6. doing' \in [Connection -> Phases]
  BY DEF Core, Shapes, Disconnect, Admits, Goes, Fails, Phases
<1>7. request' \in [Connection -> [what : Requests, cookie : TokenOrNone, owner : ConnectionOrNone]]
  BY DEF Core, Shapes, Disconnect, Fails, Answers, Becomes, Post, NoRequest, Requests, TokenOrNone,
     ConnectionOrNone
<1> QED BY <1>1, <1>2, <1>3, <1>4, <1>5, <1>6, <1>7 DEF Core, Shapes, Disconnect, server, locks,
     device, revokes, Releases, Fails, Closes, Admits, Web

LEMMA MarkOfflineShapes ==
  ASSUME Core, NEW c \in Connection, MarkOffline(c)
  PROVE  Shapes'
<1>1. doing' \in [Connection -> Phases]
  BY DEF Core, Shapes, MarkOffline, Admits, Goes, Fails, Phases
<1> QED BY <1>1 DEF Core, Shapes, MarkOffline, server, locks, device, revokes, Releases, Fails,
     Closes, Admits, Web

LEMMA CommandShapes ==
  ASSUME Core, NEW c \in Connection, Command(c)
  PROVE  Shapes'
<1>1. ticket' \in [Token -> {"none", "issued", "committed"}]
  BY DEF Core, Shapes, Command, Issued, Presents, Closes, WithoutTicketsOf, Fails
<1>2. nonces' \subseteq Connection
  BY DEF Core, Shapes, Command, NonceGiven, Closes, Fails
<1>3. authorized' \in [Connection -> TokenOrNone]
  BY DEF Core, Shapes, Command, Presents, Closes, WithoutAuthority, Fails, TokenOrNone
<1>4. closed' \subseteq Connection
  BY DEF Core, Shapes, Command, Closes, Fails
<1>5. running' \subseteq Connection
  BY DEF Core, Shapes, Command
<1> QED BY <1>1, <1>2, <1>3, <1>4, <1>5 DEF Core, Shapes, Command, server, locks, device, revokes,
     Releases, Fails, Closes, Admits, Web

LEMMA EndCommandShapes ==
  ASSUME Core, NEW c \in Connection, EndCommand(c)
  PROVE  Shapes'
<1>1. running' \subseteq Connection
  BY DEF Core, Shapes, EndCommand
<1> QED BY <1>1 DEF Core, Shapes, EndCommand, server, locks, device, revokes, Releases, Fails,
     Closes, Admits, Web

LEMMA PostCommitShapes ==
  ASSUME Core, NEW c \in Connection, PostCommit(c)
  PROVE  Shapes'
<1>1. request' \in [Connection -> [what : Requests, cookie : TokenOrNone, owner : ConnectionOrNone]]
  BY DEF Core, Shapes, PostCommit, Fails, Answers, Becomes, Post, NoRequest, Requests, TokenOrNone,
     ConnectionOrNone
<1> QED BY <1>1 DEF Core, Shapes, PostCommit, server, locks, device, revokes, Releases, Fails,
     Closes, Admits, Web

LEMMA ServeCommitShapes ==
  ASSUME Core, NEW c \in Connection, ServeCommit(c)
  PROVE  Shapes'
<1>1. ticket' \in [Token -> {"none", "issued", "committed"}]
  BY DEF Core, Shapes, ServeCommit, Issued, Presents, Closes, WithoutTicketsOf, Fails, Commit
<1>2. nonces' \subseteq Connection
  BY DEF Core, Shapes, ServeCommit, NonceGiven, Closes, Fails, Commit
<1>3. authorized' \in [Connection -> TokenOrNone]
  BY DEF Core, Shapes, ServeCommit, Presents, Closes, WithoutAuthority, Fails, TokenOrNone, Commit
<1>4. closed' \subseteq Connection
  BY DEF Core, Shapes, ServeCommit, Closes, Fails, Commit
<1>5. request' \in [Connection -> [what : Requests, cookie : TokenOrNone, owner : ConnectionOrNone]]
 <2>1. Becomes(c, "failed") \/ Answers(c, "committed", TicketOf(c))
   BY DEF ServeCommit
 <2>2. TicketOf(c) \in TokenOrNone
   BY TokenFacts, TokensOrNone DEF TicketOf
 <2> QED BY <2>1, <2>2, RequestWords, BecomesShapes, AnswersShapes
<1>6. held' \in [Connection -> SUBSET Token]
 <2>1. UNCHANGED held \/ \E p : held' = [held EXCEPT ![p] = held[p] \cup {TicketOf(c)}]
   BY DEF ServeCommit
 <2>2. TicketOf(c) \in Token
   BY TokenFacts DEF TicketOf
 <2>3. \A p \in Connection : held[p] \cup {TicketOf(c)} \subseteq Token
   BY <2>2 DEF Core, Shapes
 <2> QED BY <2>1, <2>3, HeldShapes DEF Core, Shapes
<1> QED BY <1>1, <1>2, <1>3, <1>4, <1>5, <1>6 DEF Core, Shapes, ServeCommit, server, locks, device,
     revokes, Releases, Fails, Closes, Admits, Web

LEMMA TakeCommitShapes ==
  ASSUME Core, NEW c \in Connection, TakeCommit(c)
  PROVE  Shapes'
<1>1. jar' \in [cookie : TokenOrNone, owner : ConnectionOrNone]
  BY DEF Core, Shapes, TakeCommit, NonceGiven, TokenOrNone, ConnectionOrNone, NoToken
<1>2. request' \in [Connection -> [what : Requests, cookie : TokenOrNone, owner : ConnectionOrNone]]
  BY DEF Core, Shapes, TakeCommit, Fails, Answers, Becomes, Post, NoRequest, Requests, TokenOrNone,
     ConnectionOrNone
<1> QED BY <1>1, <1>2 DEF Core, Shapes, TakeCommit, server, locks, device, revokes, Releases, Fails,
     Closes, Admits, Web

LEMMA ServeRefreshShapes ==
  ASSUME Core, NEW c \in Connection, ServeRefresh(c)
  PROVE  Shapes'
<1>1. ticket' \in [Token -> {"none", "issued", "committed"}]
  BY DEF Core, Shapes, ServeRefresh, Issued, Presents, Closes, WithoutTicketsOf, Fails
<1>2. authorized' \in [Connection -> TokenOrNone]
  BY DEF Core, Shapes, ServeRefresh, Presents, Closes, WithoutAuthority, Fails, TokenOrNone
<1>3. request' \in [Connection -> [what : Requests, cookie : TokenOrNone, owner : ConnectionOrNone]]
  BY DEF Core, Shapes, ServeRefresh, Fails, Answers, Becomes, Post, NoRequest, Requests,
     TokenOrNone, ConnectionOrNone
<1>4. held' \in [Connection -> SUBSET Token]
 <2>1. \/ UNCHANGED held
       \/ request[c].cookie # NoToken /\ \E p : held' = [held EXCEPT ![p] = {request[c].cookie}]
   BY DEF ServeRefresh
 <2>2. request[c].cookie \in TokenOrNone
   BY DEF Core, Shapes
 <2>3. request[c].cookie # NoToken => {request[c].cookie} \subseteq Token
   BY <2>2, TokensOrNone
 <2> QED BY <2>1, <2>3, HeldShapes DEF Core, Shapes
<1> QED BY <1>1, <1>2, <1>3, <1>4 DEF Core, Shapes, ServeRefresh, server, locks, device, revokes,
     Releases, Fails, Closes, Admits, Web

LEMMA TakeReconnectedShapes ==
  ASSUME Core, NEW c \in Connection, TakeReconnected(c)
  PROVE  Shapes'
<1>1. jar' \in [cookie : TokenOrNone, owner : ConnectionOrNone]
  BY DEF Core, Shapes, TakeReconnected, NonceGiven, TokenOrNone, ConnectionOrNone, NoToken
<1>2. request' \in [Connection -> [what : Requests, cookie : TokenOrNone, owner : ConnectionOrNone]]
  BY DEF Core, Shapes, TakeReconnected, Fails, Answers, Becomes, Post, NoRequest, Requests,
     TokenOrNone, ConnectionOrNone
<1> QED BY <1>1, <1>2 DEF Core, Shapes, TakeReconnected, server, locks, device, revokes, Releases,
     Fails, Closes, Admits, Web

LEMMA TakeProvisionalShapes ==
  ASSUME Core, NEW c \in Connection, TakeProvisional(c)
  PROVE  Shapes'
<1>1. jar' \in [cookie : TokenOrNone, owner : ConnectionOrNone]
  BY DEF Core, Shapes, TakeProvisional, NonceGiven, TokenOrNone, ConnectionOrNone, NoToken
<1>2. request' \in [Connection -> [what : Requests, cookie : TokenOrNone, owner : ConnectionOrNone]]
  BY DEF Core, Shapes, TakeProvisional, Fails, Answers, Becomes, Post, NoRequest, Requests,
     TokenOrNone, ConnectionOrNone
<1> QED BY <1>1, <1>2 DEF Core, Shapes, TakeProvisional, server, locks, device, revokes, Releases,
     Fails, Closes, Admits, Web

LEMMA LoseShapes ==
  ASSUME Core, NEW c \in Connection, Lose(c)
  PROVE  Shapes'
<1>1. request' \in [Connection -> [what : Requests, cookie : TokenOrNone, owner : ConnectionOrNone]]
  BY DEF Core, Shapes, Lose, Fails, Answers, Becomes, Post, NoRequest, Requests, TokenOrNone,
     ConnectionOrNone
<1> QED BY <1>1 DEF Core, Shapes, Lose, server, locks, device, revokes, Releases, Fails, Closes,
     Admits, Web

LEMMA PostRevokeShapes ==
  ASSUME Core, NEW c \in Connection, PostRevoke(c)
  PROVE  Shapes'
<1>1. request' \in [Connection -> [what : Requests, cookie : TokenOrNone, owner : ConnectionOrNone]]
  BY DEF Core, Shapes, PostRevoke, Fails, Answers, Becomes, Post, NoRequest, Requests, TokenOrNone,
     ConnectionOrNone
<1> QED BY <1>1 DEF Core, Shapes, PostRevoke, server, locks, device, revokes, Releases, Fails,
     Closes, Admits, Web

LEMMA ServeRevokeShapes ==
  ASSUME Core, NEW c \in Connection, ServeRevoke(c)
  PROVE  Shapes'
<1>1. PICK p, q, first, tickets, whom, gone, credentials :
        RevokePlan(c, p, q, first, tickets, whom, gone, credentials)
  BY RevokePlans
<1>2. gone \subseteq Connection
  BY <1>1, TokenFacts DEF RevokePlan
<1>3. whom \subseteq Connection
  BY <1>1, ConcernedAre DEF RevokePlan, ConnectionOrNone
<1>4. ticket' \in [Token -> {"none", "issued", "committed"}]
  BY <1>1 DEF Core, Shapes, RevokePlan, WithoutTicketsOf
<1>5. authorized' \in [Connection -> TokenOrNone]
  BY <1>1 DEF Core, Shapes, RevokePlan, WithoutAuthority, TokenOrNone
<1>6. closed' \subseteq Connection /\ nonces' \subseteq Connection
  BY <1>1, <1>2 DEF Core, Shapes, RevokePlan
<1>7. request' \in [Connection -> [what : Requests, cookie : TokenOrNone, owner : ConnectionOrNone]]
 <2>1. request[c] \in [what : Requests, cookie : TokenOrNone, owner : ConnectionOrNone]
   BY DEF Core, Shapes
 <2>2. [request[c] EXCEPT !.what = "revoking"] \in [what : Requests, cookie : TokenOrNone, owner : ConnectionOrNone]
   BY <2>1 DEF Requests
 <2>3. request' = [request EXCEPT ![c] = [request[c] EXCEPT !.what = "revoking"]]
   BY DEF ServeRevoke, Core, Shapes
 <2> QED BY <2>2, <2>3 DEF Core, Shapes
<1> DEFINE work == WorkOn(credentials)
           uncovered == whom \ UNION {drains[d].clients : d \in work}
           unmapped == {t \in credentials : Draining(t) = {}}
           made == [clients |-> uncovered, left |-> uncovered, credentials |-> unmapped,
                    dependencies |-> work, open |-> TRUE]
<1>8. work \subseteq Connection
  BY DEF WorkOn, Draining
<1>9. \/ drains' = [drains EXCEPT ![c] = made]
      \/ drains' = drains
  BY <1>1 DEF RevokePlan, RegisterDrain
<1>10. drains' \in [Connection -> DrainRecord]
 <2>1. unmapped \subseteq Token \cup (Connection \X {"nonce"}) /\ uncovered \subseteq Connection
   BY <1>1, <1>3 DEF RevokePlan
 <2> HIDE DEF work, uncovered, unmapped
 <2>2. made \in DrainRecord
   BY <1>8, <2>1 DEF DrainRecord
 <2> HIDE DEF made
 <2> QED BY <1>9, <2>2 DEF Core, Shapes
<1>11. awaited' \in [Connection -> SUBSET Connection]
 <2>1. awaited' = [awaited EXCEPT ![c] = work \cup {c}] \/ awaited' = [awaited EXCEPT ![c] = work]
   BY <1>1 DEF RevokePlan, RegisterDrain, WaitsFor
 <2> HIDE DEF work, made
 <2>2. work \in SUBSET Connection /\ work \cup {c} \in SUBSET Connection
   BY <1>8
 <2> QED BY <2>1, <2>2 DEF Core, Shapes
<1>12. ending' \in [Connection -> SUBSET Connection]
 <2>1. ending' = [ending EXCEPT ![c] = ({p, q} \ {Nobody}) \cup UNION {ending[d] : d \in work}]
   BY <1>1 DEF RevokePlan, RegisterDrain
 <2>2. {p, q} \ {Nobody} \subseteq Connection
   BY <1>1 DEF RevokePlan, ConnectionOrNone
 <2> HIDE DEF work
 <2>3. UNION {ending[d] : d \in work} \subseteq Connection
   BY <1>8 DEF Core, Shapes
 <2> QED BY <2>1, <2>2, <2>3 DEF Core, Shapes
<1> QED BY <1>4, <1>5, <1>6, <1>7, <1>10, <1>11, <1>12 DEF Core, Shapes, ServeRevoke, locks

LEMMA RevokeReturnsShapes ==
  ASSUME Core, NEW c \in Connection, RevokeReturns(c)
  PROVE  Shapes'
<1>1. request' \in [Connection -> [what : Requests, cookie : TokenOrNone, owner : ConnectionOrNone]]
  BY DEF Core, Shapes, RevokeReturns, Fails, Answers, Becomes, Post, NoRequest, Requests,
     TokenOrNone, ConnectionOrNone
<1>2. awaited' \in [Connection -> SUBSET Connection]
  BY DEF Core, Shapes, RevokeReturns
<1>3. ending' \in [Connection -> SUBSET Connection]
  BY DEF Core, Shapes, RevokeReturns
<1>4. over' \subseteq Connection
  BY DEF Core, Shapes, RevokeReturns
<1> QED BY <1>1, <1>2, <1>3, <1>4 DEF Core, Shapes, RevokeReturns, server, locks, device, revokes,
     Releases, Fails, Closes, Admits, Web

LEMMA TakeRevokedShapes ==
  ASSUME Core, NEW c \in Connection, TakeRevoked(c)
  PROVE  Shapes'
<1>1. jar' \in [cookie : TokenOrNone, owner : ConnectionOrNone]
  BY DEF Core, Shapes, TakeRevoked, NonceGiven, TokenOrNone, ConnectionOrNone, NoToken
<1>2. request' \in [Connection -> [what : Requests, cookie : TokenOrNone, owner : ConnectionOrNone]]
  BY DEF Core, Shapes, TakeRevoked, Fails, Answers, Becomes, Post, NoRequest, Requests, TokenOrNone,
     ConnectionOrNone
<1> QED BY <1>1, <1>2 DEF Core, Shapes, TakeRevoked, server, locks, device, revokes, Releases,
     Fails, Closes, Admits, Web

LEMMA DrainDoneShapes ==
  ASSUME Core, NEW c \in Connection, DrainDone(c)
  PROVE  Shapes'
<1>1. drains' \in [Connection -> DrainRecord]
 <2>1. NoDrain \in DrainRecord
   BY DEF NoDrain, DrainRecord
 <2> QED BY <2>1 DEF Core, Shapes, DrainDone
<1> QED BY <1>1 DEF Core, Shapes, DrainDone, server, locks, device, revokes, Releases, Fails,
     Closes, Admits, Web

LEMMA TicketExpiresShapes ==
  ASSUME Core, NEW c \in Connection, TicketExpires(c)
  PROVE  Shapes'
<1>1. ticket' \in [Token -> {"none", "issued", "committed"}]
  BY DEF Core, Shapes, TicketExpires, Issued, Presents, Closes, WithoutTicketsOf, Fails
<1>2. nonces' \subseteq Connection
  BY DEF Core, Shapes, TicketExpires, NonceGiven, Closes, Fails
<1>3. authorized' \in [Connection -> TokenOrNone]
  BY DEF Core, Shapes, TicketExpires, Presents, Closes, WithoutAuthority, Fails, TokenOrNone
<1>4. closed' \subseteq Connection
  BY DEF Core, Shapes, TicketExpires, Closes, Fails
<1> QED BY <1>1, <1>2, <1>3, <1>4 DEF Core, Shapes, TicketExpires, server, locks, device, revokes,
     Releases, Fails, Closes, Admits, Web

LEMMA NonceExpiresShapes ==
  ASSUME Core, NEW c \in Connection, NonceExpires(c)
  PROVE  Shapes'
<1>1. nonces' \subseteq Connection
  BY DEF Core, Shapes, NonceExpires, NonceGiven, Closes, Fails
<1> QED BY <1>1 DEF Core, Shapes, NonceExpires, server, locks, device, revokes, Releases, Fails,
     Closes, Admits, Web

LEMMA DrainClientShapes ==
  ASSUME Core, NEW c \in Connection, NEW x \in Connection, DrainClient(c, x)
  PROVE  Shapes'
<1>1. ticket' \in [Token -> {"none", "issued", "committed"}]
  BY DEF Core, Shapes, DrainClient, Issued, Presents, Closes, WithoutTicketsOf, Fails
<1>2. nonces' \subseteq Connection
  BY DEF Core, Shapes, DrainClient, NonceGiven, Closes, Fails
<1>3. authorized' \in [Connection -> TokenOrNone]
  BY DEF Core, Shapes, DrainClient, Presents, Closes, WithoutAuthority, Fails, TokenOrNone
<1>4. closed' \subseteq Connection
  BY DEF Core, Shapes, DrainClient, Closes, Fails
<1>5. drains' \in [Connection -> DrainRecord]
 <2>1. drains[c] \in DrainRecord
   BY DEF Core, Shapes
 <2>2. [drains[c] EXCEPT !.left = drains[c].left \ {x}] \in DrainRecord
   BY <2>1 DEF DrainRecord
 <2>3. drains' = [drains EXCEPT ![c] = [drains[c] EXCEPT !.left = drains[c].left \ {x}]]
   BY DEF DrainClient, Core, Shapes
 <2> QED BY <2>2, <2>3 DEF Core, Shapes
<1> QED BY <1>1, <1>2, <1>3, <1>4, <1>5 DEF Core, Shapes, DrainClient, server, locks, device,
     revokes, Releases, Fails, Closes, Admits, Web

-----------------------------------------------------------------------------
(* How far every connection has come                                       *)

\* What a connection's handling depends on, unchanged.
Undisturbed(x) ==
  /\ doing'[x] = doing[x] /\ ident'[x] = ident[x] /\ request'[x].what = request[x].what
  /\ seen'[x] = seen[x] /\ moving'[x] = moving[x] /\ previous'[x] = previous[x]
  /\ cred'.restored[x] = cred.restored[x]
  /\ authority = x => authority' = x

LEMMA UndisturbedHandling ==
  ASSUME Core, NEW x \in Connection, Undisturbed(x)
  PROVE  HandlingOf(x)'
  BY DEF Core, Handling, HandlingOf, Asks, Busy, Holding, Window, Asker, Undisturbed

\* Of a connection that nobody has been admitted on, nothing is known.
LEMMA FreshFacts ==
  ASSUME Core, NEW c \in Connection, ident[c] = Nobody
  PROVE  /\ c \notin Admitted /\ cred.restored[c].player = Nobody /\ request[c].what = "none"
         /\ moving[c] = Nobody /\ previous[c] = Nobody /\ ~Busy(c) /\ ~Asker(c)
<1>1. c \notin Admitted
  BY DEF Admitted
<1>2. cred.restored[c].player = Nobody
  BY <1>1, RestoreFacts DEF Core, Books
<1>3. request[c].what = "none"
  BY DEF Core, Handling, HandlingOf
<1>4. ~Busy(c)
  BY <1>3 DEF Core, Handling, HandlingOf, Asks
<1> QED BY <1>1, <1>2, <1>3, <1>4 DEF Core, Handling, HandlingOf, Asker, Busy, Holding, Window

\* What the handling of a connection rests on.
LEMMA HandlingFacts ==
  ASSUME Core, NEW c \in Connection
  PROVE  HandlingOf(c)
  BY DEF Core, Handling

\* What an answer says.
LEMMA Says ==
  ASSUME Core, NEW c \in Connection, NEW what
  PROVE  /\ Becomes(c, what) => request'[c].what = what /\ request'[c].cookie = NoToken
         /\ \A cookie : Answers(c, what, cookie) => request'[c].what = what /\ request'[c].cookie = cookie
<1>1. /\ [NoRequest EXCEPT !.what = what].what = what
      /\ [NoRequest EXCEPT !.what = what].cookie = NoToken
  BY DEF NoRequest
<1>2. ASSUME NEW cookie
      PROVE  /\ [NoRequest EXCEPT !.what = what, !.cookie = cookie].what = what
             /\ [NoRequest EXCEPT !.what = what, !.cookie = cookie].cookie = cookie
  BY DEF NoRequest
<1> QED BY <1>1, <1>2 DEF Core, Shapes, Becomes, Answers

LEMMA UpgradeHandling ==
  ASSUME Core, NEW c \in Connection, Upgrade(c), cred'.restored = cred.restored
  PROVE  Handling'
<1>1. ASSUME NEW x \in Connection, x # c
      PROVE  Undisturbed(x)
  BY <1>1, ConnectionsAreNumbers DEF Upgrade, Undisturbed, Core, Shapes, Goes, Becomes, Answers,
     Fails, Closes, Releases, Admits, Post, Free, locks, device, revokes, server
<1>2. HandlingOf(c)'
 <2>1. /\ doing[c] = "unborn" /\ ident' = ident /\ request'[c] = request[c] /\ moving' = moving
       /\ previous' = previous /\ authority' = authority
       /\ \/ doing'[c] = "upgraded"
          \/ doing'[c] = "unborn" /\ seen'[c] = seen[c]
   BY DEF Upgrade, IsNext, Core, Shapes, Goes, Presents, NonceGiven, locks
 <2>2. cred'.restored[c] = cred.restored[c]
   OBVIOUS
 <2>3. ident[c] = Nobody
   BY <2>1, HandlingFacts DEF HandlingOf
 <2> QED BY <2>1, <2>2, <2>3, FreshFacts, HandlingFacts, ConnectionsAreNumbers DEF HandlingOf,
      Asks, Busy, Holding, Window, Asker
<1> QED BY <1>1, <1>2, UndisturbedHandling DEF Handling

LEMMA DialHandling ==
  ASSUME Core, NEW c \in Connection, Dial(c), cred'.restored = cred.restored
  PROVE  Handling'
<1>1. ASSUME NEW x \in Connection, x # c
      PROVE  Undisturbed(x)
  BY <1>1, ConnectionsAreNumbers DEF Dial, Undisturbed, Core, Shapes, Goes, Becomes, Answers, Fails,
     Closes, Releases, Admits, Post, Free, locks, device, revokes, server
<1>2. HandlingOf(c)'
 <2>1. /\ doing[c] = "unborn" /\ ident' = ident /\ request' = request /\ moving' = moving
       /\ previous' = previous /\ authority' = authority /\ doing'[c] = "upgraded"
   BY DEF Dial, IsNext, Core, Shapes, Goes, locks, device
 <2>2. cred'.restored[c] = cred.restored[c]
   OBVIOUS
 <2>3. ident[c] = Nobody
   BY <2>1, HandlingFacts DEF HandlingOf
 <2> QED BY <2>1, <2>2, <2>3, FreshFacts, HandlingFacts, ConnectionsAreNumbers DEF HandlingOf,
      Asks, Busy, Holding, Window, Asker
<1> QED BY <1>1, <1>2, UndisturbedHandling DEF Handling

LEMMA ActivateBrowserHandling ==
  ASSUME Core, NEW c \in Connection, ActivateBrowser(c), cred'.restored = cred.restored
  PROVE  Handling'
<1>1. ASSUME NEW x \in Connection, x # c
      PROVE  Undisturbed(x)
  BY <1>1, ConnectionsAreNumbers DEF ActivateBrowser, Undisturbed, Core, Shapes, Goes, Becomes,
     Answers, Fails, Closes, Releases, Admits, Post, Free, locks, device, revokes, server
<1>2. HandlingOf(c)'
 <2>0. \A cr : ~CanReconnectToken(cr, NoToken)
   BY DEF CanReconnectToken, HolderOf, HasSession
 <2>1. /\ doing[c] = "upgraded" /\ moving' = moving /\ previous' = previous /\ authority' = authority
       /\ seen' = seen
       /\ \/ doing'[c] = "gone" /\ ident' = ident /\ request' = request
          \/ /\ doing'[c] = "idle" /\ ident'[c] = c
             /\ \/ request'[c].what = "ticket"
                \/ request'[c].what = "ask" /\ seen[c] # NoToken
   BY <2>0 DEF ActivateBrowser, Core, Shapes, Goes, Admits, Becomes, NoRequest, locks
 <2>2. cred'.restored[c] = cred.restored[c]
   OBVIOUS
 <2>3. ident[c] = Nobody
   BY <2>1, HandlingFacts DEF HandlingOf
 <2> QED BY <2>1, <2>2, <2>3, FreshFacts, HandlingFacts, ConnectionsAreNumbers DEF HandlingOf,
      Asks, Busy, Holding, Window, Asker
<1> QED BY <1>1, <1>2, UndisturbedHandling DEF Handling

LEMMA ActivateTerminalHandling ==
  ASSUME Core, NEW c \in Connection, ActivateTerminal(c), cred'.restored = cred.restored
  PROVE  Handling'
<1>1. ASSUME NEW x \in Connection, x # c
      PROVE  Undisturbed(x)
  BY <1>1, ConnectionsAreNumbers DEF ActivateTerminal, Undisturbed, Core, Shapes, Goes, Becomes,
     Answers, Fails, Closes, Releases, Admits, Post, Free, locks, device, revokes, server
<1>2. HandlingOf(c)'
 <2>1. /\ doing[c] = "upgraded" /\ moving' = moving /\ previous' = previous /\ authority' = authority
       /\ seen' = seen /\ doing'[c] = "idle" /\ ident'[c] = c
       /\ \/ request'[c].what = "up"
          \/ request'[c].what = "ask" /\ seen[c] # NoToken
   BY DEF ActivateTerminal, Core, Shapes, Goes, Admits, Becomes, NoRequest, locks
 <2>2. cred'.restored[c] = cred.restored[c]
   OBVIOUS
 <2>3. ident[c] = Nobody
   BY <2>1, HandlingFacts DEF HandlingOf
 <2> QED BY <2>1, <2>2, <2>3, FreshFacts, HandlingFacts, ConnectionsAreNumbers DEF HandlingOf,
      Asks, Busy, Holding, Window, Asker
<1> QED BY <1>1, <1>2, UndisturbedHandling DEF Handling

LEMMA AbandonHandling ==
  ASSUME Core, NEW c \in Connection, Abandon(c), cred'.restored = cred.restored
  PROVE  Handling'
<1>1. ASSUME NEW x \in Connection, x # c
      PROVE  Undisturbed(x)
  BY <1>1, ConnectionsAreNumbers DEF Abandon, Undisturbed, Core, Shapes, Goes, Becomes, Answers,
     Fails, Closes, Releases, Admits, Post, Free, locks, device, revokes, server
<1>2. HandlingOf(c)'
  BY ConnectionsAreNumbers DEF Abandon, Core, Shapes, Handling, HandlingOf, Asks, Busy, Holding,
     Window, Asker, Goes, Becomes, Answers, Fails, Closes, Releases, Admits, Post, Free, locks,
     device, revokes, server
<1> QED BY <1>1, <1>2, UndisturbedHandling DEF Handling

LEMMA AskReconnectHandling ==
  ASSUME Core, NEW c \in Connection, AskReconnect(c), cred'.restored = cred.restored
  PROVE  Handling'
<1>1. ASSUME NEW x \in Connection, x # c
      PROVE  Undisturbed(x)
  BY <1>1, ConnectionsAreNumbers DEF AskReconnect, Undisturbed, Core, Shapes, Goes, Becomes,
     Answers, Fails, Closes, Releases, Admits, Post, Free, locks, device, revokes, server
<1>2. HandlingOf(c)'
 <2>1. /\ doing[c] = "idle" /\ request[c].what = "ask" /\ ident' = ident /\ seen' = seen /\ previous' = previous
       /\ \/ /\ doing'[c] = "restoring" /\ request'[c].what = "asked" /\ authority' = c
             /\ moving' = moving
          \/ doing'[c] = "draining" /\ request'[c].what = "asked" /\ authority' = authority
          \/ /\ doing'[c] = "idle" /\ request'[c].what = "failed" /\ authority' = authority
             /\ moving' = moving
   BY DEF AskReconnect, Asks, Fails, Core, Shapes, Goes, Becomes, NoRequest
 <2>2. cred'.restored[c] = cred.restored[c]
   OBVIOUS
 <2> QED BY <2>1, <2>2, HandlingFacts, ConnectionsAreNumbers DEF HandlingOf, Asks, Busy, Holding,
      Window, Asker
<1> QED BY <1>1, <1>2, UndisturbedHandling DEF Handling

LEMMA ReacquireHandling ==
  ASSUME Core, NEW c \in Connection, Reacquire(c), cred'.restored = cred.restored
  PROVE  Handling'
<1>1. ASSUME NEW x \in Connection, x # c
      PROVE  Undisturbed(x)
  BY <1>1, ConnectionsAreNumbers DEF Reacquire, Undisturbed, Core, Shapes, Goes, Becomes, Answers,
     Fails, Closes, Releases, Admits, Post, Free, locks, device, revokes, server
<1>2. HandlingOf(c)'
 <2>1. /\ doing[c] = "draining" /\ ident' = ident /\ seen' = seen /\ previous' = previous
       /\ \/ doing'[c] = "restoring" /\ request' = request /\ authority' = c /\ moving' = moving
          \/ /\ doing'[c] = "idle" /\ request'[c].what = "failed" /\ authority' = authority
             /\ moving'[c] = Nobody
   BY DEF Reacquire, Fails, Core, Shapes, Goes, Becomes, NoRequest
 <2>2. cred'.restored[c] = cred.restored[c]
   OBVIOUS
 <2> QED BY <2>1, <2>2, HandlingFacts, ConnectionsAreNumbers DEF HandlingOf, Asks, Busy, Holding,
      Window, Asker
<1> QED BY <1>1, <1>2, UndisturbedHandling DEF Handling

\* What a restore writes down of itself.
LEMMA RestoreRestores ==
  ASSUME Core, NEW c \in Connection, Restore(c)
  PROVE  /\ \A d \in Connection : d # c => cred'.restored[d] = cred.restored[d]
         /\ \/ cred'.restored[c] = cred.restored[c]
            \/ /\ cred'.restored[c].player = PlayerOf(Resolved(cred, seen[c]), seen[c])
               /\ cred'.restored[c].player # Nobody /\ cred'.restored[c].player # c
               /\ cred'.restored[c].previous = seen[c]
               /\ Restorable(cred, seen[c], Web)
<1>1. doing[c] = "restoring"
  BY DEF Restore
<1>2. ticket[New(c)] = "none" /\ cred.restored[c].player = Nobody
  BY <1>1, RestoringFacts
<1>3. CASE ~Restorable(cred, seen[c], Web)
 <2>1. cred' = cred \/ cred' = AllInvalidated(cred, {c})
   BY <1>3 DEF Restore, Fails, Closes
 <2>2. cred' = cred
   BY <1>2, <2>1, NothingToInvalidate
 <2> QED BY <2>2
<1>4. CASE Restorable(cred, seen[c], Web)
 <2>1. PICK settled, mid, p : /\ settled = Resolved(cred, seen[c])
                              /\ mid = Restored(cred, seen[c], c, Web)
                              /\ p = PlayerOf(settled, seen[c])
   OBVIOUS
 <2>2. /\ RestoredTo(settled, mid, p, seen[c], c, Web, Admitted)
       /\ Shrinks(cred, settled) /\ p # c
   BY <1>1, <1>4, <2>1, RestoringFacts
 <2>3. p # Nobody
   BY <1>4, <2>1 DEF Restorable
 <2>4. cred' = mid \/ cred' = AllInvalidated(RolledBack(mid, c, Web), {c})
   BY <1>4, <2>1 DEF Restore, Fails, Closes
 <2>5. cred' = mid \/ cred' = RolledBack(mid, c, Web)
   BY <1>2, <2>4, NothingToInvalidate
 <2>6. mid \in Credentials
   BY <2>2 DEF RestoredTo
 <2>7. RolledBack(mid, c, Web).restored = mid.restored
   BY <2>6 DEF RolledBack, WentOffline, Credentials
 <2>8. /\ \A d \in Connection : d # c => mid.restored[d] = cred.restored[d]
       /\ mid.restored[c].player = p /\ mid.restored[c].previous = seen[c]
   BY <2>2 DEF RestoredTo, Shrinks
 <2> QED BY <1>4, <2>1, <2>2, <2>3, <2>5, <2>7, <2>8
<1> QED BY <1>3, <1>4

LEMMA RestoreHandling ==
  ASSUME Core, NEW c \in Connection, Restore(c)
  PROVE  Handling'
<1>0. /\ c \in Admitted /\ cred.restored[c].player = Nobody /\ authority = c /\ Web \in BOOLEAN
      /\ seen[c] \in TokenOrNone /\ ~(\E d \in Connection : Window(d))
  BY RestoringFacts DEF Restore
<1>2. PICK p : p = PlayerOf(Resolved(cred, seen[c]), seen[c])
  OBVIOUS
<1> DEFINE stands == /\ Restorable(cred, seen[c], Web) /\ cred' = Restored(cred, seen[c], c, Web)
                     /\ ident' = [ident EXCEPT ![c] = p] /\ doing' = [doing EXCEPT ![c] = "delivering"]
                     /\ request' = request /\ authority' = authority /\ moving' = moving
           fails == /\ ident' = ident /\ doing' = [doing EXCEPT ![c] = "idle"]
                    /\ \/ Becomes(c, "failed")
                       \/ Answers(c, "rejected", Own(c))
                    /\ authority' = Nobody /\ moving' = [moving EXCEPT ![c] = Nobody]
                    /\ previous' = previous
<1>3. \A d \in Connection : d # c => previous'[d] = previous[d]
  BY DEF Restore, Core, Shapes
<1>4. stands \/ fails
  BY <1>2 DEF Restore, Fails, Goes, Releases
<1>5. seen' = seen
  BY DEF Restore
<1>6. \A d \in Connection : d # c => cred'.restored[d] = cred.restored[d]
  BY RestoreRestores
<1>7. \/ cred'.restored[c] = cred.restored[c]
      \/ cred'.restored[c].player = p /\ p # Nobody /\ p # c /\ cred'.restored[c].previous = seen[c]
  BY <1>2, RestoreRestores
<1>8. stands => cred'.restored[c].player = p /\ p # Nobody /\ cred'.restored[c].previous = seen[c]
 <2>1. SUFFICES ASSUME stands
                PROVE  cred'.restored[c].player = p /\ p # Nobody /\ cred'.restored[c].previous = seen[c]
   OBVIOUS
 <2>2. PICK settled, mid : settled = Resolved(cred, seen[c]) /\ mid = Restored(cred, seen[c], c, Web)
   OBVIOUS
 <2>3. RestoredTo(settled, mid, p, seen[c], c, Web, Admitted)
   BY <1>2, <2>1, <2>2, RestoringFacts DEF Restore
 <2>4. mid.restored[c].player = p /\ mid.restored[c].previous = seen[c]
   BY <2>3 DEF RestoredTo
 <2> QED BY <1>2, <2>1, <2>2, <2>4 DEF Restorable
<1> HIDE DEF stands, fails
<1>9. ASSUME NEW x \in Connection, x # c
      PROVE  Undisturbed(x)
  BY <1>0, <1>3, <1>4, <1>5, <1>6, <1>9 DEF Undisturbed, stands, fails, Core, Shapes, Becomes, Answers
<1>10. HandlingOf(c)'
 <2>1. doing[c] = "restoring" /\ HandlingOf(c)
   BY HandlingFacts DEF Restore
 <2>2. previous[c] = Nobody
   BY <2>1 DEF HandlingOf
 <2>3. CASE stands
  <3>1. ident'[c] = p /\ doing'[c] = "delivering" /\ request' = request /\ authority' = c
    BY <1>0, <2>3 DEF stands, Core, Shapes
  <3> QED BY <1>5, <1>8, <2>1, <2>3, <3>1, ConnectionsAreNumbers DEF HandlingOf, Asks, Busy,
       Holding, Window, Asker
 <2>4. CASE fails
  <3>1. /\ ident' = ident /\ doing'[c] = "idle" /\ request'[c].what \in {"failed", "rejected"}
        /\ moving'[c] = Nobody /\ previous' = previous
    BY <2>4, Says DEF fails, Core, Shapes
  <3>2. ident[c] = c
    BY <2>1 DEF HandlingOf, Asks, Busy, Holding, Window, Asker
  <3> QED BY <1>5, <1>7, <2>1, <2>2, <3>1, <3>2, ConnectionsAreNumbers DEF HandlingOf, Asks, Busy,
       Holding, Window, Asker
 <2> QED BY <1>4, <2>3, <2>4
<1> QED BY <1>9, <1>10, UndisturbedHandling DEF Handling

LEMMA DeliverHandling ==
  ASSUME Core, NEW c \in Connection, Deliver(c), cred'.restored = cred.restored
  PROVE  Handling'
<1>1. ASSUME NEW x \in Connection, x # c
      PROVE  Undisturbed(x)
 <2>1. authority = c
  <3>1. Window(c)
    BY DEF Deliver, Window
  <3> QED BY <3>1, WindowHolds
 <2>2. \A what, cookie : [NoRequest EXCEPT !.what = what, !.cookie = cookie].what = what
   BY DEF NoRequest
 <2> QED BY <1>1, <2>1 DEF Deliver, Undisturbed, Core, Shapes, Goes, Becomes, Answers, Fails,
      Closes, Releases
<1>2. HandlingOf(c)'
 <2>1. /\ doing[c] = "delivering" /\ ident' = ident /\ seen' = seen
       /\ \/ /\ doing'[c] = "idle" /\ request'[c].what \in {"ticket", "reconnected"}
             /\ moving'[c] = Nobody /\ previous'[c] = Nobody
          \/ /\ doing'[c] = "undoing" /\ request' = request /\ authority' = authority
             /\ moving' = moving /\ previous' = previous
   BY Says DEF Deliver, Core, Shapes, Goes, Releases
 <2>2. cred'.restored[c] = cred.restored[c]
   OBVIOUS
 <2> QED BY <2>1, <2>2, HandlingFacts, ConnectionsAreNumbers DEF HandlingOf, Asks, Busy, Holding,
      Window, Asker
<1> QED BY <1>1, <1>2, UndisturbedHandling DEF Handling

LEMMA UndoRebindHandling ==
  ASSUME Core, NEW c \in Connection, UndoRebind(c), cred'.restored = cred.restored
  PROVE  Handling'
<1>1. ASSUME NEW x \in Connection, x # c
      PROVE  Undisturbed(x)
  BY <1>1, ConnectionsAreNumbers DEF UndoRebind, Undisturbed, Core, Shapes, Goes, Becomes, Answers,
     Fails, Closes, Releases, Admits, Post, Free, locks, device, revokes, server
<1>2. HandlingOf(c)'
  BY ConnectionsAreNumbers DEF UndoRebind, Core, Shapes, Handling, HandlingOf, Asks, Busy, Holding,
     Window, Asker, Goes, Becomes, Answers, Fails, Closes, Releases, Admits, Post, Free, locks,
     device, revokes, server
<1> QED BY <1>1, <1>2, UndisturbedHandling DEF Handling

LEMMA UndoRestoreHandling ==
  ASSUME Core, NEW c \in Connection, UndoRestore(c), cred'.restored = cred.restored
  PROVE  Handling'
<1>1. ASSUME NEW x \in Connection, x # c
      PROVE  Undisturbed(x)
 <2>1. authority = c
  <3>1. Window(c)
    BY DEF UndoRestore, Window
  <3> QED BY <3>1, WindowHolds
 <2>2. \A what, cookie : [NoRequest EXCEPT !.what = what, !.cookie = cookie].what = what
   BY DEF NoRequest
 <2> QED BY <1>1, <2>1 DEF UndoRestore, Undisturbed, Core, Shapes, Goes, Becomes, Answers, Fails,
      Closes, Releases
<1>2. HandlingOf(c)'
 <2>1. /\ doing[c] = "undone" /\ ident' = ident /\ seen' = seen /\ previous' = previous
       /\ doing'[c] = "idle" /\ request'[c].what = "failed" /\ moving'[c] = Nobody
   BY DEF UndoRestore, Fails, Core, Shapes, Goes, Becomes, NoRequest, Releases
 <2>2. cred'.restored[c] = cred.restored[c]
   OBVIOUS
 <2> QED BY <2>1, <2>2, HandlingFacts, ConnectionsAreNumbers DEF HandlingOf, Asks, Busy, Holding,
      Window, Asker
<1> QED BY <1>1, <1>2, UndisturbedHandling DEF Handling

LEMMA DisconnectHandling ==
  ASSUME Core, NEW c \in Connection, Disconnect(c), cred'.restored = cred.restored
  PROVE  Handling'
<1>1. ASSUME NEW x \in Connection, x # c
      PROVE  Undisturbed(x)
  BY <1>1, ConnectionsAreNumbers DEF Disconnect, Undisturbed, Core, Shapes, Goes, Becomes, Answers,
     Fails, Closes, Releases, Admits, Post, Free, locks, device, revokes, server
<1>2. HandlingOf(c)'
 <2>1. /\ doing[c] = "idle" /\ ident' = ident /\ seen' = seen /\ previous' = previous /\ moving' = moving /\ authority' = authority
       /\ doing'[c] \in {"leaving", "gone"}
       /\ \/ request'[c].what = "failed"
          \/ request'[c].what = request[c].what /\ request[c].what # "ask"
   BY DEF Disconnect, Core, Shapes, Goes, Becomes, NoRequest, locks
 <2>2. cred'.restored[c] = cred.restored[c]
   OBVIOUS
 <2> QED BY <2>1, <2>2, HandlingFacts, ConnectionsAreNumbers DEF HandlingOf, Asks, Busy, Holding,
      Window, Asker
<1> QED BY <1>1, <1>2, UndisturbedHandling DEF Handling

LEMMA MarkOfflineHandling ==
  ASSUME Core, NEW c \in Connection, MarkOffline(c), cred'.restored = cred.restored
  PROVE  Handling'
<1>1. ASSUME NEW x \in Connection, x # c
      PROVE  Undisturbed(x)
  BY <1>1, ConnectionsAreNumbers DEF MarkOffline, Undisturbed, Core, Shapes, Goes, Becomes, Answers,
     Fails, Closes, Releases, Admits, Post, Free, locks, device, revokes, server
<1>2. HandlingOf(c)'
  BY ConnectionsAreNumbers DEF MarkOffline, Core, Shapes, Handling, HandlingOf, Asks, Busy, Holding,
     Window, Asker, Goes, Becomes, Answers, Fails, Closes, Releases, Admits, Post, Free, locks,
     device, revokes, server
<1> QED BY <1>1, <1>2, UndisturbedHandling DEF Handling

LEMMA PostCommitHandling ==
  ASSUME Core, NEW c \in Connection, PostCommit(c), cred'.restored = cred.restored
  PROVE  Handling'
<1>1. ASSUME NEW x \in Connection, x # c
      PROVE  Undisturbed(x)
  BY <1>1, ConnectionsAreNumbers DEF PostCommit, Undisturbed, Core, Shapes, Goes, Becomes, Answers,
     Fails, Closes, Releases, Admits, Post, Free, locks, device, revokes, server
<1>2. HandlingOf(c)'
  BY ConnectionsAreNumbers DEF PostCommit, Core, Shapes, Handling, HandlingOf, Asks, Busy, Holding,
     Window, Asker, Goes, Becomes, Answers, Fails, Closes, Releases, Admits, Post, Free, locks,
     device, revokes, server
<1> QED BY <1>1, <1>2, UndisturbedHandling DEF Handling

LEMMA ServeCommitHandling ==
  ASSUME Core, NEW c \in Connection, ServeCommit(c), cred'.restored = cred.restored
  PROVE  Handling'
<1>1. ASSUME NEW x \in Connection, x # c
      PROVE  Undisturbed(x)
  BY <1>1, ConnectionsAreNumbers DEF ServeCommit, Undisturbed, Core, Shapes, Goes, Becomes, Answers,
     Fails, Closes, Releases, Admits, Post, Free, locks, device, revokes, server
<1>2. HandlingOf(c)'
 <2>1. /\ request[c].what = "commit" /\ ident' = ident /\ seen' = seen /\ previous' = previous /\ moving' = moving /\ authority' = authority
       /\ doing' = doing /\ request'[c].what \in {"committed", "failed"}
   BY Says DEF ServeCommit, Asks, Core, Shapes, locks
 <2>2. cred'.restored[c] = cred.restored[c]
   OBVIOUS
 <2> QED BY <2>1, <2>2, HandlingFacts, ConnectionsAreNumbers DEF HandlingOf, Asks, Busy, Holding,
      Window, Asker
<1> QED BY <1>1, <1>2, UndisturbedHandling DEF Handling

LEMMA TakeCommitHandling ==
  ASSUME Core, NEW c \in Connection, TakeCommit(c), cred'.restored = cred.restored
  PROVE  Handling'
<1>1. ASSUME NEW x \in Connection, x # c
      PROVE  Undisturbed(x)
  BY <1>1, ConnectionsAreNumbers DEF TakeCommit, Undisturbed, Core, Shapes, Goes, Becomes, Answers,
     Fails, Closes, Releases, Admits, Post, Free, locks, device, revokes, server
<1>2. HandlingOf(c)'
  BY ConnectionsAreNumbers DEF TakeCommit, Core, Shapes, Handling, HandlingOf, Asks, Busy, Holding,
     Window, Asker, Goes, Becomes, Answers, Fails, Closes, Releases, Admits, Post, Free, locks,
     device, revokes, server
<1> QED BY <1>1, <1>2, UndisturbedHandling DEF Handling

LEMMA ServeRefreshHandling ==
  ASSUME Core, NEW c \in Connection, ServeRefresh(c), cred'.restored = cred.restored
  PROVE  Handling'
<1>1. ASSUME NEW x \in Connection, x # c
      PROVE  Undisturbed(x)
  BY <1>1, ConnectionsAreNumbers DEF ServeRefresh, Undisturbed, Core, Shapes, Goes, Becomes,
     Answers, Fails, Closes, Releases, Admits, Post, Free, locks, device, revokes, server
<1>2. HandlingOf(c)'
 <2>1. /\ request[c].what = "refresh" /\ ident' = ident /\ seen' = seen /\ previous' = previous /\ moving' = moving /\ authority' = authority
       /\ doing' = doing /\ request'[c].what \in {"up", "failed"}
   BY DEF ServeRefresh, Asks, Core, Shapes, Becomes, NoRequest, locks
 <2>2. cred'.restored[c] = cred.restored[c]
   OBVIOUS
 <2> QED BY <2>1, <2>2, HandlingFacts, ConnectionsAreNumbers DEF HandlingOf, Asks, Busy, Holding,
      Window, Asker
<1> QED BY <1>1, <1>2, UndisturbedHandling DEF Handling

LEMMA TakeReconnectedHandling ==
  ASSUME Core, NEW c \in Connection, TakeReconnected(c), cred'.restored = cred.restored
  PROVE  Handling'
<1>1. ASSUME NEW x \in Connection, x # c
      PROVE  Undisturbed(x)
  BY <1>1, ConnectionsAreNumbers DEF TakeReconnected, Undisturbed, Core, Shapes, Goes, Becomes,
     Answers, Fails, Closes, Releases, Admits, Post, Free, locks, device, revokes, server
<1>2. HandlingOf(c)'
  BY ConnectionsAreNumbers DEF TakeReconnected, Core, Shapes, Handling, HandlingOf, Asks, Busy,
     Holding, Window, Asker, Goes, Becomes, Answers, Fails, Closes, Releases, Admits, Post, Free,
     locks, device, revokes, server
<1> QED BY <1>1, <1>2, UndisturbedHandling DEF Handling

LEMMA TakeProvisionalHandling ==
  ASSUME Core, NEW c \in Connection, TakeProvisional(c), cred'.restored = cred.restored
  PROVE  Handling'
<1>1. ASSUME NEW x \in Connection, x # c
      PROVE  Undisturbed(x)
  BY <1>1, ConnectionsAreNumbers DEF TakeProvisional, Undisturbed, Core, Shapes, Goes, Becomes,
     Answers, Fails, Closes, Releases, Admits, Post, Free, locks, device, revokes, server
<1>2. HandlingOf(c)'
  BY ConnectionsAreNumbers DEF TakeProvisional, Core, Shapes, Handling, HandlingOf, Asks, Busy,
     Holding, Window, Asker, Goes, Becomes, Answers, Fails, Closes, Releases, Admits, Post, Free,
     locks, device, revokes, server
<1> QED BY <1>1, <1>2, UndisturbedHandling DEF Handling

LEMMA LoseHandling ==
  ASSUME Core, NEW c \in Connection, Lose(c), cred'.restored = cred.restored
  PROVE  Handling'
<1>1. ASSUME NEW x \in Connection, x # c
      PROVE  Undisturbed(x)
  BY <1>1, ConnectionsAreNumbers DEF Lose, Undisturbed, Core, Shapes, Goes, Becomes, Answers, Fails,
     Closes, Releases, Admits, Post, Free, locks, device, revokes, server
<1>2. HandlingOf(c)'
  BY ConnectionsAreNumbers DEF Lose, Core, Shapes, Handling, HandlingOf, Asks, Busy, Holding,
     Window, Asker, Goes, Becomes, Answers, Fails, Closes, Releases, Admits, Post, Free, locks,
     device, revokes, server
<1> QED BY <1>1, <1>2, UndisturbedHandling DEF Handling

LEMMA PostRevokeHandling ==
  ASSUME Core, NEW c \in Connection, PostRevoke(c), cred'.restored = cred.restored
  PROVE  Handling'
<1>1. ASSUME NEW x \in Connection, x # c
      PROVE  Undisturbed(x)
  BY <1>1, ConnectionsAreNumbers DEF PostRevoke, Undisturbed, Core, Shapes, Goes, Becomes, Answers,
     Fails, Closes, Releases, Admits, Post, Free, locks, device, revokes, server
<1>2. HandlingOf(c)'
  BY ConnectionsAreNumbers DEF PostRevoke, Core, Shapes, Handling, HandlingOf, Asks, Busy, Holding,
     Window, Asker, Goes, Becomes, Answers, Fails, Closes, Releases, Admits, Post, Free, locks,
     device, revokes, server
<1> QED BY <1>1, <1>2, UndisturbedHandling DEF Handling

LEMMA ServeRevokeHandling ==
  ASSUME Core, NEW c \in Connection, ServeRevoke(c), cred'.restored = cred.restored
  PROVE  Handling'
<1>1. ASSUME NEW x \in Connection, x # c
      PROVE  Undisturbed(x)
  BY <1>1, ConnectionsAreNumbers DEF ServeRevoke, Undisturbed, Core, Shapes, Goes, Becomes, Answers,
     Fails, Closes, Releases, Admits, Post, Free, locks, device, revokes, server
<1>2. HandlingOf(c)'
 <2>1. /\ request[c].what = "revoke" /\ ident' = ident /\ seen' = seen /\ previous' = previous /\ moving' = moving /\ authority' = authority
       /\ doing' = doing /\ request'[c].what = "revoking"
   BY DEF ServeRevoke, Asks, Core, Shapes, locks
 <2>2. cred'.restored[c] = cred.restored[c]
   OBVIOUS
 <2> QED BY <2>1, <2>2, HandlingFacts, ConnectionsAreNumbers DEF HandlingOf, Asks, Busy, Holding,
      Window, Asker
<1> QED BY <1>1, <1>2, UndisturbedHandling DEF Handling

LEMMA RevokeReturnsHandling ==
  ASSUME Core, NEW c \in Connection, RevokeReturns(c), cred'.restored = cred.restored
  PROVE  Handling'
<1>1. ASSUME NEW x \in Connection, x # c
      PROVE  Undisturbed(x)
  BY <1>1, ConnectionsAreNumbers DEF RevokeReturns, Undisturbed, Core, Shapes, Goes, Becomes,
     Answers, Fails, Closes, Releases, Admits, Post, Free, locks, device, revokes, server
<1>2. HandlingOf(c)'
  BY ConnectionsAreNumbers DEF RevokeReturns, Core, Shapes, Handling, HandlingOf, Asks, Busy,
     Holding, Window, Asker, Goes, Becomes, Answers, Fails, Closes, Releases, Admits, Post, Free,
     locks, device, revokes, server
<1> QED BY <1>1, <1>2, UndisturbedHandling DEF Handling

LEMMA TakeRevokedHandling ==
  ASSUME Core, NEW c \in Connection, TakeRevoked(c), cred'.restored = cred.restored
  PROVE  Handling'
<1>1. ASSUME NEW x \in Connection, x # c
      PROVE  Undisturbed(x)
  BY <1>1, ConnectionsAreNumbers DEF TakeRevoked, Undisturbed, Core, Shapes, Goes, Becomes, Answers,
     Fails, Closes, Releases, Admits, Post, Free, locks, device, revokes, server
<1>2. HandlingOf(c)'
  BY ConnectionsAreNumbers DEF TakeRevoked, Core, Shapes, Handling, HandlingOf, Asks, Busy, Holding,
     Window, Asker, Goes, Becomes, Answers, Fails, Closes, Releases, Admits, Post, Free, locks,
     device, revokes, server
<1> QED BY <1>1, <1>2, UndisturbedHandling DEF Handling

LEMMA QuietHandling ==
  ASSUME Core, cred'.restored = cred.restored,
         UNCHANGED << doing, ident, request, seen, moving, previous, authority >>
  PROVE  Handling'
<1>1. ASSUME NEW x \in Connection
      PROVE  Undisturbed(x)
  BY DEF Undisturbed
<1> QED BY <1>1, UndisturbedHandling DEF Handling

-----------------------------------------------------------------------------
(* The tokens a device may show                                            *)

Shown == {jar.cookie} \cup {request[c].cookie : c \in Connection} \cup {seen[c] : c \in Connection}

\* A token that is told to a device for the first time.
FirstShown(t) ==
  /\ t \in Token /\ Drawn(cred', Admitted', t) /\ ticket'[t] # "issued"
  /\ request'[t[1]].what \notin {"ask", "asked"}
  /\ t[2] = "new" => cred.restored[t[1]].player # Nobody

ShownMove ==
  /\ \A t \in Shown' : t = NoToken \/ t \in Shown \/ FirstShown(t)
  /\ \A c \in Connection : seen'[c] # seen[c] => doing[c] = "unborn" /\ seen'[c] \in Shown

LEMMA ShownAre ==
  ASSUME Core
  PROVE  /\ \A t \in Shown : t = NoToken \/ (t \in Token /\ Drawn(cred, Admitted, t))
         /\ jar.cookie \in Shown /\ \A c \in Connection : request[c].cookie \in Shown /\ seen[c] \in Shown
  BY DEF Core, Shown, CookiesAreDrawn, SeenIsDrawn, Drawn

\* Only what is at c's connection is told anything.
LEMMA OneIsTold ==
  ASSUME Core, NEW c \in Connection, UNCHANGED seen, jar'.cookie \in Shown \cup {NoToken} \/ FirstShown(jar'.cookie),
         \A d \in Connection : d # c => request'[d] = request[d],
         request'[c].cookie \in Shown \cup {NoToken} \/ FirstShown(request'[c].cookie)
  PROVE  ShownMove
<1>1. ASSUME NEW t \in Shown'
      PROVE  t = NoToken \/ t \in Shown \/ FirstShown(t)
 <2>1. t = jar'.cookie \/ (\E d \in Connection : t = request'[d].cookie) \/ (\E d \in Connection : t = seen[d])
   BY DEF Shown
 <2> QED BY <2>1, ShownAre
<1> QED BY <1>1 DEF ShownMove

LEMMA NothingTold ==
  ASSUME Core, UNCHANGED << seen, jar, request >>
  PROVE  ShownMove
  BY DEF ShownMove, Shown

LEMMA AnswersShown ==
  ASSUME Core, NEW c \in Connection,
         \/ AskReconnect(c) \/ Reacquire(c) \/ UndoRestore(c) \/ Disconnect(c) \/ ServeRefresh(c)
         \/ Lose(c) \/ ServeRevoke(c) \/ RevokeReturns(c) \/ ActivateBrowser(c)
  PROVE  ShownMove
<1>1. seen' = seen /\ jar' = jar
  BY DEF AskReconnect, Reacquire, UndoRestore, Disconnect, ServeRefresh, Lose, ServeRevoke,
     RevokeReturns,
         ActivateBrowser, locks, server
<1>2. \/ request' = request
      \/ \E what : Becomes(c, what)
      \/ ServeRevoke(c)
  BY DEF AskReconnect, Reacquire, UndoRestore, Disconnect, ServeRefresh, Lose, RevokeReturns,
         ActivateBrowser, Fails
<1>3. CASE request' = request
  BY <1>1, <1>3, NothingTold
<1>4. CASE \E what : Becomes(c, what)
 <2>1. PICK what : Becomes(c, what)
   BY <1>4
 <2>2. request'[c].cookie = NoToken /\ \A d \in Connection : d # c => request'[d] = request[d]
   BY <2>1, Says DEF Becomes, Core, Shapes
 <2> QED BY <1>1, <2>2, ShownAre, OneIsTold
<1>5. CASE ServeRevoke(c)
 <2>1. /\ \A d \in Connection : d # c => request'[d] = request[d]
       /\ request'[c].cookie = request[c].cookie
   BY <1>5 DEF ServeRevoke, Core, Shapes
 <2> QED BY <1>1, <2>1, ShownAre, OneIsTold
<1> QED BY <1>2, <1>3, <1>4, <1>5

LEMMA PagesShown ==
  ASSUME Core, NEW c \in Connection,
         \/ PostCommit(c) \/ PostRevoke(c) \/ TakeCommit(c) \/ TakeReconnected(c) \/ TakeProvisional(c) \/ TakeRevoked(c)
  PROVE  ShownMove
<1>1. seen' = seen
  BY DEF PostCommit, PostRevoke, TakeCommit, TakeReconnected, TakeProvisional, TakeRevoked, server
<1>2. jar'.cookie \in {jar.cookie, request[c].cookie, NoToken}
  BY DEF PostCommit, PostRevoke, TakeCommit, TakeReconnected, TakeProvisional, TakeRevoked, Core, Shapes
<1>3. /\ \A d \in Connection : d # c => request'[d] = request[d]
      /\ request'[c].cookie \in {jar.cookie, request[c].cookie, NoToken}
 <2>1. CASE PostCommit(c) \/ PostRevoke(c)
   BY <2>1 DEF PostCommit, PostRevoke, Post, Core, Shapes
 <2>2. CASE TakeCommit(c)
   BY <2>2 DEF TakeCommit, Core, Shapes
 <2>3. CASE \E what : Becomes(c, what)
   BY <2>3, Says DEF Becomes, Core, Shapes
 <2> QED BY <2>1, <2>2, <2>3 DEF TakeReconnected, TakeProvisional, TakeRevoked
<1> QED BY <1>1, <1>2, <1>3, ShownAre, OneIsTold

LEMMA OpeningShown ==
  ASSUME Core, NEW c \in Connection, Upgrade(c) \/ Dial(c)
  PROVE  ShownMove
<1>1. doing[c] = "unborn" /\ request' = request /\ jar'.cookie = jar.cookie
  BY DEF Upgrade, Dial, IsNext, device, NonceGiven, Core, Shapes
<1>2. seen' = seen \/ seen' = [seen EXCEPT ![c] = jar.cookie]
  BY DEF Upgrade, Dial
<1>3. \A d \in Connection : seen'[d] = seen[d] \/ (d = c /\ seen'[d] = jar.cookie)
  BY <1>2 DEF Core, Shapes
<1>4. ASSUME NEW t \in Shown'
      PROVE  t \in Shown
 <2>1. t = jar'.cookie \/ (\E d \in Connection : t = request'[d].cookie) \/ (\E d \in Connection : t = seen'[d])
   BY DEF Shown
 <2> QED BY <1>1, <1>3, <2>1, ShownAre
<1> QED BY <1>1, <1>3, <1>4, ShownAre DEF ShownMove

LEMMA ActivateTerminalShown ==
  ASSUME Core, NEW c \in Connection, ActivateTerminal(c)
  PROVE  ShownMove
<1>1. seen' = seen
  BY DEF ActivateTerminal
<1>2. \/ Becomes(c, "up") /\ jar'.cookie = Own(c)
      \/ Becomes(c, "ask") /\ jar' = jar
  BY DEF ActivateTerminal, Core, Shapes
<1>3. request'[c].cookie = NoToken /\ \A d \in Connection : d # c => request'[d] = request[d]
  BY <1>2, Says DEF Becomes, Core, Shapes
<1>4. CASE Becomes(c, "up") /\ jar'.cookie = Own(c)
 <2>1. Own(c) \in Token /\ Own(c)[1] = c /\ Own(c)[2] = "own"
   BY TokenFacts
 <2>2. ident'[c] # Nobody /\ ticket' = ticket /\ ~Web
   BY ConnectionsAreNumbers DEF ActivateTerminal, Admits, Core, Shapes
 <2>3. ticket[Own(c)] = "none"
   BY <2>1, <2>2 DEF Core, TerminalBooks
 <2>4. request'[c].what = "up"
   BY <1>4, Says
 <2>5. FirstShown(Own(c))
   BY <2>1, <2>2, <2>3, <2>4 DEF FirstShown, Drawn, Admitted, Asker
 <2> QED BY <1>1, <1>3, <1>4, <2>5, OneIsTold
<1>5. CASE jar' = jar
  BY <1>1, <1>3, <1>5, ShownAre, OneIsTold
<1> QED BY <1>2, <1>4, <1>5

LEMMA ServeCommitShown ==
  ASSUME Core, NEW c \in Connection, ServeCommit(c)
  PROVE  ShownMove
<1>1. seen' = seen /\ jar' = jar /\ ident' = ident /\ Asks(c, "commit")
  BY DEF ServeCommit
<1>2. PICK t : t = TicketOf(c)
  OBVIOUS
<1>3. t \in {Own(c), New(c)} /\ t \in Token /\ t[1] = c
  BY <1>2, TokenFacts DEF TicketOf
<1>4. CASE ticket[t] # "none" /\ Binds(c, t) /\ Committable(c, t)
 <2>1. Answers(c, "committed", t) /\ ticket'[t] = "committed" /\ cred' = cred
   BY <1>2, <1>3, <1>4 DEF ServeCommit, Commit, Core, Shapes
 <2>2. Drawn(cred, Admitted, t)
   BY <1>3, <1>4 DEF Core, TicketsAreDrawn
 <2>3. request'[c].what = "committed" /\ request'[c].cookie = t
   BY <2>1, Says
 <2>4. t[2] = "new" => cred.restored[c].player # Nobody
   BY <1>3, <2>2 DEF Drawn
 <2>5. Admitted' = Admitted
   BY <1>1 DEF Admitted
 <2>6. Drawn(cred', Admitted', t)
   BY <2>1, <2>2, <2>5
 <2>7. FirstShown(t)
   BY <1>3, <2>1, <2>3, <2>4, <2>6 DEF FirstShown, Asker
 <2>8. \A d \in Connection : d # c => request'[d] = request[d]
   BY <2>1 DEF Answers, Core, Shapes
 <2> QED BY <1>1, <2>3, <2>7, <2>8, ShownAre, OneIsTold
<1>5. CASE ~(ticket[t] # "none" /\ Binds(c, t) /\ Committable(c, t))
 <2>1. Becomes(c, "failed")
   BY <1>2, <1>5 DEF ServeCommit
 <2>2. request'[c].cookie = NoToken /\ \A d \in Connection : d # c => request'[d] = request[d]
   BY <2>1, Says DEF Becomes, Core, Shapes
 <2> QED BY <1>1, <2>2, ShownAre, OneIsTold
<1> QED BY <1>4, <1>5

LEMMA RestoreShown ==
  ASSUME Core, NEW c \in Connection, Restore(c)
  PROVE  ShownMove
<1>1. seen' = seen /\ jar' = jar
  BY DEF Restore
<1>2. \/ request' = request
      \/ Becomes(c, "failed")
      \/ Answers(c, "rejected", Own(c)) /\ ~Web /\ ident' = ident /\ ticket' = ticket
  BY DEF Restore, Fails
<1>3. CASE request' = request
  BY <1>1, <1>3, NothingTold
<1>4. CASE Becomes(c, "failed")
 <2>1. request'[c].cookie = NoToken /\ \A d \in Connection : d # c => request'[d] = request[d]
   BY <1>4, Says DEF Becomes, Core, Shapes
 <2> QED BY <1>1, <2>1, ShownAre, OneIsTold
<1>5. CASE Answers(c, "rejected", Own(c)) /\ ~Web /\ ident' = ident /\ ticket' = ticket
 <2>1. request'[c].what = "rejected" /\ request'[c].cookie = Own(c)
   BY <1>5, Says
 <2>2. Own(c) \in Token /\ Own(c)[1] = c /\ Own(c)[2] = "own"
   BY TokenFacts
 <2>3. c \in Admitted
   BY RestoringFacts DEF Restore
 <2>4. FirstShown(Own(c))
   BY <1>5, <2>1, <2>2, <2>3 DEF FirstShown, Drawn, Admitted, Asker, Core, TerminalBooks
 <2>5. \A d \in Connection : d # c => request'[d] = request[d]
   BY <1>5 DEF Answers, Core, Shapes
 <2> QED BY <1>1, <2>1, <2>4, <2>5, ShownAre, OneIsTold
<1> QED BY <1>2, <1>3, <1>4, <1>5

LEMMA DeliverShown ==
  ASSUME Core, NEW c \in Connection, Deliver(c), cred'.restored = cred.restored
  PROVE  ShownMove
<1>1. seen' = seen /\ jar' = jar
  BY DEF Deliver
<1>2. \/ request' = request
      \/ Becomes(c, "ticket")
      \/ /\ Answers(c, "reconnected", New(c)) /\ ~Web
         /\ ticket' = [WithoutTicketsOf({previous[c]} \ {Nobody}) EXCEPT ![Own(c)] = "none"]
  BY DEF Deliver
<1>3. CASE request' = request
  BY <1>1, <1>3, NothingTold
<1>4. CASE Becomes(c, "ticket")
 <2>1. request'[c].cookie = NoToken /\ \A d \in Connection : d # c => request'[d] = request[d]
   BY <1>4, Says DEF Becomes, Core, Shapes
 <2> QED BY <1>1, <2>1, ShownAre, OneIsTold
<1>5. CASE /\ Answers(c, "reconnected", New(c)) /\ ~Web
           /\ ticket' = [WithoutTicketsOf({previous[c]} \ {Nobody}) EXCEPT ![Own(c)] = "none"]
 <2>1. request'[c].what = "reconnected" /\ request'[c].cookie = New(c)
   BY <1>5, Says
 <2>2. New(c) \in Token /\ New(c)[1] = c /\ New(c)[2] = "new"
   BY TokenFacts
 <2>3. cred.restored[c].player # Nobody
   BY ConnectionsAreNumbers DEF Deliver, Core, WindowsAreOpen, Window
 <2>4. ticket'[New(c)] = "none"
   BY <1>5, <2>2 DEF WithoutTicketsOf, Core, TerminalBooks
 <2>5. FirstShown(New(c))
   BY <2>1, <2>2, <2>3, <2>4 DEF FirstShown, Drawn, Asker
 <2>6. \A d \in Connection : d # c => request'[d] = request[d]
   BY <1>5 DEF Answers, Core, Shapes
 <2> QED BY <1>1, <2>1, <2>5, <2>6, ShownAre, OneIsTold
<1> QED BY <1>2, <1>3, <1>4, <1>5

-----------------------------------------------------------------------------
(* The tickets                                                             *)

FewerTickets == \A t \in Token : ticket'[t] \in {ticket[t], "none"}

\* The ticket of a commit that is served, and those that are issued: to who
\* has just been admitted, and to who has just come back.
TicketCommits(t) ==
  /\ ticket[t] # "none" /\ ticket'[t] = "committed" /\ Asks(t[1], "commit") /\ t[1] \notin closed
  /\ closed' = closed /\ cred' = cred
  /\ t[2] = "own" => cred.restored[t[1]].player = Nobody
TicketOpens(t) ==
  /\ ticket[t] = "none" /\ ticket'[t] = "issued" /\ Web /\ closed' = closed
  /\ \/ t = Own(t[1]) /\ doing[t[1]] = "upgraded" /\ ident'[t[1]] # Nobody /\ Free
     \/ /\ t = New(t[1]) /\ doing[t[1]] = "restoring" /\ t[1] \notin closed
        /\ cred'.restored[t[1]].player # Nobody

TicketMove ==
  \A t \in Token : ticket'[t] \in {ticket[t], "none"} \/ TicketCommits(t) \/ TicketOpens(t)

LEMMA ClosesTickets ==
  ASSUME Core, NEW gone, NEW cr, Closes(gone, cr)
  PROVE  FewerTickets
  BY DEF Closes, WithoutTicketsOf, FewerTickets, Core, Shapes

LEMMA PresentsTickets ==
  ASSUME Core, NEW t, NEW cr, Presents(t, cr)
  PROVE  FewerTickets
  BY DEF Presents, FewerTickets, Core, Shapes

LEMMA FewTickets ==
  ASSUME Core, NEW c \in Connection,
         \/ Upgrade(c) \/ ServeRefresh(c) \/ AskReconnect(c) \/ Reacquire(c) \/ Deliver(c) \/ UndoRestore(c)
         \/ CloseEarly(c) \/ Disconnect(c) \/ Command(c) \/ TicketExpires(c)
         \/ (\E x \in Connection : DrainClient(c, x)) \/ ServeRevoke(c)
  PROVE  FewerTickets
<1>1. CASE Upgrade(c) \/ ServeRefresh(c)
 <2>1. ticket' = ticket \/ \E t, cr : Presents(t, cr)
   BY <1>1 DEF Upgrade, ServeRefresh
 <2> QED BY <2>1, PresentsTickets DEF FewerTickets
<1>2. CASE AskReconnect(c) \/ Reacquire(c) \/ UndoRestore(c)
 <2>1. ticket' = ticket \/ \E gone, cr : Closes(gone, cr)
   BY <1>2 DEF AskReconnect, Reacquire, UndoRestore, Fails
 <2> QED BY <2>1, ClosesTickets DEF FewerTickets
<1>3. CASE CloseEarly(c) \/ Disconnect(c) \/ Command(c) \/ TicketExpires(c) \/ \E x \in Connection : DrainClient(c, x)
 <2>1. ticket' = ticket \/ \E gone, cr : Closes(gone, cr)
   BY <1>3 DEF CloseEarly, Disconnect, Command, TicketExpires, DrainClient
 <2> QED BY <2>1, ClosesTickets DEF FewerTickets
<1>4. CASE Deliver(c)
 <2>1. ticket' = ticket \/ \E gone : ticket' = [WithoutTicketsOf(gone) EXCEPT ![Own(c)] = "none"]
   BY <1>4 DEF Deliver
 <2> QED BY <2>1 DEF FewerTickets, WithoutTicketsOf, Core, Shapes
<1>5. CASE ServeRevoke(c)
 <2>1. \E gone : ticket' = WithoutTicketsOf(gone)
   BY <1>5 DEF ServeRevoke
 <2> QED BY <2>1 DEF FewerTickets, WithoutTicketsOf, Core, Shapes
<1> QED BY <1>1, <1>2, <1>3, <1>4, <1>5

LEMMA FewerTicketsMove ==
  ASSUME FewerTickets \/ ticket' = ticket
  PROVE  TicketMove
  BY DEF FewerTickets, TicketMove

LEMMA ServeCommitTickets ==
  ASSUME Core, NEW c \in Connection, ServeCommit(c)
  PROVE  TicketMove
<1>1. PICK t : t = TicketOf(c)
  OBVIOUS
<1>2. t \in {Own(c), New(c)} /\ t \in Token /\ t[1] = c
  BY <1>1, TokenFacts DEF TicketOf
<1>3. Commit(c, t)
  BY <1>1 DEF ServeCommit
<1>4. CASE ticket[t] = "none" \/ ~Binds(c, t)
  BY <1>3, <1>4, FewerTicketsMove DEF Commit
<1>5. CASE ~(ticket[t] = "none" \/ ~Binds(c, t)) /\ ~Committable(c, t)
 <2>1. Closes({c}, cred)
   BY <1>3, <1>5 DEF Commit
 <2> QED BY <2>1, ClosesTickets, FewerTicketsMove
<1>6. CASE ~(ticket[t] = "none" \/ ~Binds(c, t)) /\ Committable(c, t)
 <2>1. ticket' = [ticket EXCEPT ![t] = "committed"] /\ closed' = closed /\ cred' = cred
   BY <1>3, <1>6 DEF Commit
 <2>2. t[2] = "own" => cred.restored[c].player = Nobody
  <3>1. t[2] = "own" => cred.restored[c] = NotRestored
    BY <1>1, TokenFacts DEF TicketOf
  <3> QED BY <3>1 DEF NotRestored
 <2>3. TicketCommits(t)
   BY <1>2, <1>6, <2>1, <2>2 DEF TicketCommits, ServeCommit, Committable, Core, Shapes
 <2> QED BY <2>1, <2>3 DEF TicketMove, Core, Shapes
<1> QED BY <1>4, <1>5, <1>6

LEMMA ActivateBrowserTickets ==
  ASSUME Core, NEW c \in Connection, ActivateBrowser(c)
  PROVE  TicketMove
<1>1. CASE ticket' = ticket
  BY <1>1, FewerTicketsMove
<1>2. CASE /\ Admits(c, Resolved(cred, seen[c]))
           /\ \/ ticket' = Issued([ticket EXCEPT ![seen[c]] = "none"], Own(c))
              \/ ticket' = Issued(ticket, Own(c))
 <2>1. Own(c) \in Token /\ Own(c)[1] = c
   BY TokenFacts
 <2>2. /\ ticket'[Own(c)] = "issued"
       /\ \A t \in Token : t # Own(c) => ticket'[t] \in {ticket[t], "none"}
   BY <1>2, <2>1 DEF Issued, Core, Shapes
 <2>3. doing[c] = "upgraded" /\ Web /\ Free /\ ident'[c] # Nobody /\ closed' = closed
   BY <1>2, ConnectionsAreNumbers DEF ActivateBrowser, Admits, Core, Shapes
 <2>4. ticket[Own(c)] = "none"
  <3>1. ident[c] = Nobody
    BY <2>3, HandlingFacts DEF HandlingOf
  <3>2. ~Drawn(cred, Admitted, Own(c))
    BY <3>1, FreshFacts, TokenFacts DEF Drawn
  <3> QED BY <2>1, <3>2 DEF Core, TicketsAreDrawn
 <2>5. TicketOpens(Own(c))
   BY <2>1, <2>2, <2>3, <2>4 DEF TicketOpens
 <2> QED BY <2>2, <2>5 DEF TicketMove
<1> QED BY <1>1, <1>2 DEF ActivateBrowser

LEMMA RestoreTickets ==
  ASSUME Core, NEW c \in Connection, Restore(c)
  PROVE  TicketMove
<1>1. \/ ticket' = ticket
      \/ \E gone, cr : Closes(gone, cr)
      \/ /\ Web /\ c \notin closed /\ ticket' = Issued(ticket, New(c)) /\ closed' = closed
         /\ Restorable(cred, seen[c], Web) /\ cred' = Restored(cred, seen[c], c, Web)
  BY DEF Restore, Fails
<1>2. CASE /\ Web /\ c \notin closed /\ ticket' = Issued(ticket, New(c)) /\ closed' = closed
           /\ Restorable(cred, seen[c], Web) /\ cred' = Restored(cred, seen[c], c, Web)
 <2>1. doing[c] = "restoring" /\ New(c) \in Token /\ New(c)[1] = c
   BY TokenFacts DEF Restore
 <2>2. ticket[New(c)] = "none"
   BY <2>1, RestoringFacts
 <2>3. cred'.restored[c].player # Nobody
  <3>1. PICK settled, p : settled = Resolved(cred, seen[c]) /\ p = PlayerOf(settled, seen[c])
    OBVIOUS
  <3>2. RestoredTo(settled, cred', p, seen[c], c, Web, Admitted)
    BY <1>2, <2>1, <3>1, RestoringFacts
  <3>3. cred'.restored[c].player = p
    BY <3>2 DEF RestoredTo
  <3> QED BY <1>2, <3>1, <3>3 DEF Restorable
 <2>4. /\ ticket'[New(c)] = "issued"
       /\ \A t \in Token : t # New(c) => ticket'[t] = ticket[t]
   BY <1>2, <2>1 DEF Issued, Core, Shapes
 <2>5. TicketOpens(New(c))
   BY <1>2, <2>1, <2>2, <2>3, <2>4 DEF TicketOpens
 <2> QED BY <2>4, <2>5 DEF TicketMove
<1> QED BY <1>1, <1>2, ClosesTickets, FewerTicketsMove

-----------------------------------------------------------------------------
(* What every step is                                                      *)

\* Windows open when somebody comes back, and at no other time.
WindowMove ==
  \A c \in Connection : Window(c)' =>
    Window(c) \/ (cred'.restored[c].player \in Connection /\ Usable(cred', cred'.restored[c].player))

StepFacts ==
  /\ CredMove /\ Shapes' /\ Handling' /\ ShownMove /\ TicketMove /\ WindowMove
  /\ scene' = scene

LEMMA StillTickets == ASSUME UNCHANGED ticket PROVE TicketMove
  BY DEF TicketMove

LEMMA StillWindows ==
  ASSUME Core, NEW c \in Connection,
         \A d \in Connection : d # c => doing'[d] = doing[d],
         Window(c)' => Window(c)
  PROVE  WindowMove
  BY DEF WindowMove, Window

LEMMA StillDoing == ASSUME UNCHANGED doing PROVE WindowMove
  BY DEF WindowMove, Window

LEMMA OpeningFacts ==
  ASSUME Core, NEW c \in Connection, Opening(c)
  PROVE  StepFacts /\ cred'.restored = cred.restored
<1>1. CalmMove
  BY UpgradeMoves, QuietMoves, ActivateBrowserMoves, ActivateTerminalMoves DEF Opening
<1>2. cred'.restored = cred.restored /\ CredMove
  BY <1>1 DEF CalmMove
<1>3. Shapes'
  BY UpgradeShapes, DialShapes, ActivateBrowserShapes, ActivateTerminalShapes, AbandonShapes DEF Opening
<1>4. Handling'
  BY <1>2, UpgradeHandling, DialHandling, ActivateBrowserHandling, ActivateTerminalHandling,
     AbandonHandling
     DEF Opening
<1>5. ShownMove
 <2>1. Abandon(c) => UNCHANGED << seen, jar, request >>
   BY DEF Abandon, device
 <2> QED BY <2>1, OpeningShown, AnswersShown, ActivateTerminalShown, NothingTold DEF Opening
<1>6. TicketMove
 <2>1. Dial(c) \/ ActivateTerminal(c) \/ Abandon(c) => UNCHANGED ticket
   BY DEF Dial, ActivateTerminal, Abandon
 <2> QED BY <2>1, FewTickets, FewerTicketsMove, ActivateBrowserTickets, StillTickets DEF Opening
<1>7. WindowMove
 <2>1. \E to \in {"unborn", "upgraded", "gone", "idle"} : doing' = doing \/ Goes(c, to)
   BY DEF Opening, Upgrade, Dial, ActivateBrowser, ActivateTerminal, Abandon, Admits
 <2>2. \A d \in Connection : d # c => doing'[d] = doing[d]
   BY <2>1 DEF Goes, Core, Shapes
 <2>3. Window(c)' => Window(c)
   BY <2>1 DEF Goes, Core, Shapes, Window
 <2> QED BY <2>2, <2>3, StillWindows
<1>8. scene' = scene
  BY DEF Opening, Upgrade, Dial, ActivateBrowser, ActivateTerminal, Abandon, device
<1> QED BY <1>2, <1>3, <1>4, <1>5, <1>6, <1>7, <1>8 DEF StepFacts

LEMMA AskingFacts ==
  ASSUME Core, NEW c \in Connection,
         AskReconnect(c) \/ Reacquire(c) \/ Deliver(c) \/ UndoRebind(c) \/ UndoRestore(c) \/ DrainRetired(c)
  PROVE  StepFacts /\ cred'.restored = cred.restored
<1>1. CalmMove
  BY ClosingMoves, DeliverMoves, UndoRebindMoves, UndoRestoreMoves, QuietMoves
<1>2. cred'.restored = cred.restored /\ CredMove
  BY <1>1 DEF CalmMove
<1>3. Shapes'
  BY AskReconnectShapes, ReacquireShapes, DeliverShapes, UndoRebindShapes, UndoRestoreShapes,
     DrainRetiredShapes
<1>4. Handling'
 <2>1. DrainRetired(c) => UNCHANGED << doing, ident, request, seen, moving, previous, authority >>
   BY DEF DrainRetired, server, device
 <2> QED BY <1>2, <2>1, AskReconnectHandling, ReacquireHandling, DeliverHandling, UndoRebindHandling,
            UndoRestoreHandling, QuietHandling
<1>5. ShownMove
 <2>1. UndoRebind(c) \/ DrainRetired(c) => UNCHANGED << seen, jar, request >>
   BY DEF UndoRebind, DrainRetired, server, device
 <2> QED BY <1>2, <2>1, AnswersShown, DeliverShown, NothingTold
<1>6. TicketMove
 <2>1. UndoRebind(c) \/ DrainRetired(c) => UNCHANGED ticket
   BY DEF UndoRebind, DrainRetired, server
 <2> QED BY <2>1, FewTickets, FewerTicketsMove, StillTickets
<1>7. WindowMove
 <2>1. \/ doing' = doing
       \/ \E to : Goes(c, to) /\ (to \in {"restoring", "draining", "idle"} \/ Window(c))
   BY DEF AskReconnect, Reacquire, Deliver, UndoRebind, UndoRestore, DrainRetired, Fails, server,
      Window
 <2>2. \A d \in Connection : d # c => doing'[d] = doing[d]
   BY <2>1 DEF Goes, Core, Shapes
 <2>3. Window(c)' => Window(c)
   BY <2>1 DEF Goes, Core, Shapes, Window
 <2> QED BY <2>2, <2>3, StillWindows
<1>8. scene' = scene
  BY DEF AskReconnect, Reacquire, Deliver, UndoRebind, UndoRestore, DrainRetired, device
<1> QED BY <1>2, <1>3, <1>4, <1>5, <1>6, <1>7, <1>8 DEF StepFacts

LEMMA RestoreStepFacts ==
  ASSUME Core, NEW c \in Connection, Restore(c)
  PROVE  StepFacts
<1>1. WindowMove
 <2>1. \A d \in Connection : d # c => doing'[d] = doing[d]
   BY DEF Restore, Fails, Goes, Core, Shapes
 <2>2. \/ Goes(c, "idle")
       \/ Restorable(cred, seen[c], Web) /\ cred' = Restored(cred, seen[c], c, Web)
   BY DEF Restore, Fails
 <2>3. CASE Goes(c, "idle")
  <3>1. Window(c)' => Window(c)
    BY <2>3 DEF Goes, Core, Shapes, Window
  <3> QED BY <2>1, <3>1, StillWindows
 <2>4. CASE Restorable(cred, seen[c], Web) /\ cred' = Restored(cred, seen[c], c, Web)
  <3>1. PICK settled, p : settled = Resolved(cred, seen[c]) /\ p = PlayerOf(settled, seen[c])
    OBVIOUS
  <3>2. RestoredTo(settled, cred', p, seen[c], c, Web, Admitted)
    BY <2>4, <3>1, RestoringFacts DEF Restore
  <3>3. /\ cred'.restored[c].player = p /\ p \in Connection /\ HasSession(cred', p)
        /\ cred'.session[p].online
    BY <3>2 DEF RestoredTo
  <3>4. Usable(cred', cred'.restored[c].player)
    BY <3>3 DEF Usable, Valid
  <3> QED BY <2>1, <3>3, <3>4 DEF WindowMove, Window
 <2> QED BY <2>2, <2>3, <2>4
<1>2. scene' = scene
  BY DEF Restore
<1> QED BY <1>1, <1>2, RestoreMoves, RestoreShapes, RestoreHandling, RestoreShown, RestoreTickets
     DEF StepFacts

LEMMA ClosingFacts ==
  ASSUME Core, NEW c \in Connection,
         CloseEarly(c) \/ Disconnect(c) \/ MarkOffline(c) \/ Command(c) \/ EndCommand(c) \/ TicketExpires(c)
         \/ NonceExpires(c)
  PROVE  StepFacts /\ cred'.restored = cred.restored
<1>1. CalmMove
  BY ClosingMoves, MarkOfflineMoves, QuietMoves
<1>2. cred'.restored = cred.restored /\ CredMove
  BY <1>1 DEF CalmMove
<1>3. Shapes'
  BY CloseEarlyShapes, DisconnectShapes, MarkOfflineShapes, CommandShapes, EndCommandShapes,
     TicketExpiresShapes,
     NonceExpiresShapes
<1>4. Handling'
 <2>1. CloseEarly(c) \/ Command(c) \/ EndCommand(c) \/ TicketExpires(c) \/ NonceExpires(c) =>
         UNCHANGED << doing, ident, request, seen, moving, previous, authority >>
   BY DEF CloseEarly, Command, EndCommand, TicketExpires, NonceExpires, server, device, locks
 <2> QED BY <1>2, <2>1, DisconnectHandling, MarkOfflineHandling, QuietHandling
<1>5. ShownMove
 <2>1. \/ CloseEarly(c) \/ Command(c) \/ EndCommand(c) \/ TicketExpires(c) \/ NonceExpires(c) \/ MarkOffline(c) =>
         UNCHANGED << seen, jar, request >>
   BY DEF CloseEarly, Command, EndCommand, TicketExpires, NonceExpires, MarkOffline, server,
      device, locks
 <2> QED BY <2>1, AnswersShown, NothingTold
<1>6. TicketMove
 <2>1. EndCommand(c) \/ NonceExpires(c) \/ MarkOffline(c) => UNCHANGED ticket
   BY DEF EndCommand, NonceExpires, MarkOffline, server
 <2> QED BY <2>1, FewTickets, FewerTicketsMove, StillTickets
<1>7. WindowMove
 <2>1. doing' = doing \/ \E to \in {"leaving", "gone"} : Goes(c, to)
   BY DEF CloseEarly, Command, EndCommand, TicketExpires, NonceExpires, MarkOffline, Disconnect, server
 <2>2. \A d \in Connection : d # c => doing'[d] = doing[d]
   BY <2>1 DEF Goes, Core, Shapes
 <2>3. Window(c)' => Window(c)
   BY <2>1 DEF Goes, Core, Shapes, Window
 <2> QED BY <2>2, <2>3, StillWindows
<1>8. scene' = scene
  BY DEF CloseEarly, Command, EndCommand, TicketExpires, NonceExpires, MarkOffline, Disconnect, device
<1> QED BY <1>2, <1>3, <1>4, <1>5, <1>6, <1>7, <1>8 DEF StepFacts

LEMMA PagingFacts ==
  ASSUME Core, NEW c \in Connection, Paging(c)
  PROVE  StepFacts /\ cred'.restored = cred.restored
<1>1. CalmMove
  BY ClosingMoves, ServeRefreshMoves, QuietMoves DEF Paging
<1>2. cred'.restored = cred.restored /\ CredMove
  BY <1>1 DEF CalmMove
<1>3. Shapes'
  BY PostCommitShapes, ServeCommitShapes, TakeCommitShapes, ServeRefreshShapes, TakeReconnectedShapes,
     TakeProvisionalShapes, LoseShapes DEF Paging
<1>4. Handling'
  BY <1>2, PostCommitHandling, ServeCommitHandling, TakeCommitHandling, ServeRefreshHandling,
     TakeReconnectedHandling, TakeProvisionalHandling, LoseHandling DEF Paging
<1>5. ShownMove
  BY PagesShown, ServeCommitShown, AnswersShown DEF Paging
<1>6. TicketMove
 <2>1. PostCommit(c) \/ TakeCommit(c) \/ TakeReconnected(c) \/ TakeProvisional(c) \/ Lose(c) => UNCHANGED ticket
   BY DEF PostCommit, TakeCommit, TakeReconnected, TakeProvisional, Lose, server
 <2> QED BY <2>1, FewTickets, FewerTicketsMove, ServeCommitTickets, StillTickets DEF Paging
<1>7. doing' = doing /\ scene' = scene
  BY DEF Paging, PostCommit, ServeCommit, TakeCommit, ServeRefresh, TakeReconnected,
     TakeProvisional, Lose, server
<1> QED BY <1>2, <1>3, <1>4, <1>5, <1>6, <1>7, StillDoing DEF StepFacts

LEMMA RevokingFacts ==
  ASSUME Core, NEW c \in Connection, Revoking(c)
  PROVE  StepFacts /\ cred'.restored = cred.restored
<1>1. CalmMove
  BY ClosingMoves, ServeRevokeMoves, QuietMoves DEF Revoking
<1>2. cred'.restored = cred.restored /\ CredMove
  BY <1>1 DEF CalmMove
<1>3. Shapes'
  BY PostRevokeShapes, ServeRevokeShapes, RevokeReturnsShapes, TakeRevokedShapes, DrainDoneShapes,
     DrainClientShapes DEF Revoking
<1>4. Handling'
 <2>1. DrainDone(c) \/ (\E x \in Connection : DrainClient(c, x)) =>
         UNCHANGED << doing, ident, request, seen, moving, previous, authority >>
   BY DEF DrainDone, DrainClient, server, device, locks
 <2> QED BY <1>2, <2>1, PostRevokeHandling, ServeRevokeHandling, RevokeReturnsHandling,
      TakeRevokedHandling,
            QuietHandling DEF Revoking
<1>5. ShownMove
 <2>1. DrainDone(c) \/ (\E x \in Connection : DrainClient(c, x)) => UNCHANGED << seen, jar, request >>
   BY DEF DrainDone, DrainClient, server, device
 <2> QED BY <2>1, PagesShown, AnswersShown, NothingTold DEF Revoking
<1>6. TicketMove
 <2>1. PostRevoke(c) \/ RevokeReturns(c) \/ TakeRevoked(c) \/ DrainDone(c) => UNCHANGED ticket
   BY DEF PostRevoke, RevokeReturns, TakeRevoked, DrainDone, server
 <2> QED BY <2>1, FewTickets, FewerTicketsMove, StillTickets DEF Revoking
<1>7. doing' = doing /\ scene' = scene
  BY DEF Revoking, PostRevoke, ServeRevoke, RevokeReturns, TakeRevoked, DrainDone, DrainClient,
     server, device
<1> QED BY <1>2, <1>3, <1>4, <1>5, <1>6, <1>7, StillDoing DEF StepFacts

LEMMA StillFacts ==
  ASSUME Core, TimePasses \/ UNCHANGED reconnectVars
  PROVE  StepFacts /\ cred'.restored = cred.restored
<1>1. /\ UNCHANGED << ticket, nonces, clients, ident, doing, seen, closed, authorized >>
      /\ UNCHANGED locks /\ UNCHANGED device /\ UNCHANGED revokes /\ held' = held
  BY DEF TimePasses, reconnectVars, server
<1>2. CalmMove
 <2>1. UNCHANGED reconnectVars => cred' = cred
   BY DEF reconnectVars, server
 <2> QED BY <1>1, <2>1, TimePassesMoves, StillMoves
<1>3. cred'.restored = cred.restored /\ CredMove
  BY <1>2 DEF CalmMove
<1>4. Shapes'
  BY <1>1 DEF Core, Shapes, locks, device, revokes
<1>5. Handling'
  BY <1>1, <1>3, QuietHandling DEF locks, device
<1>6. ShownMove
  BY <1>1, NothingTold DEF device
<1> QED BY <1>1, <1>3, <1>4, <1>5, <1>6, StillTickets, StillDoing DEF StepFacts, device

LEMMA EveryStepFacts ==
  ASSUME Core, [ReconnectNext]_reconnectVars
  PROVE  StepFacts
<1>1. ASSUME NEW c \in Connection, Opening(c) \/ Reconnecting(c) \/ Ending(c) \/ Commanding(c) \/ Paging(c) \/ Revoking(c) \/ Expiring(c)
      PROVE  StepFacts
  BY <1>1, OpeningFacts, AskingFacts, RestoreStepFacts, ClosingFacts, PagingFacts, RevokingFacts
     DEF Reconnecting, Ending, Commanding, Expiring
<1> QED BY <1>1, StillFacts DEF ReconnectNext

-----------------------------------------------------------------------------
(* The core is inductive                                                   *)

\* What has been drawn stays so, for the same player.
LEMMA DrawnStays ==
  ASSUME Core, StepFacts, NEW t, Drawn(cred, Admitted, t)
  PROVE  t \in Token /\ Drawn(cred', Admitted', t) /\ TokenPlayer(cred', t) = TokenPlayer(cred, t)
<1>1. t \in Token /\ t[1] \in Connection
  BY TokenFacts DEF Drawn
<1>2. t[2] # "own" => cred.restored[t[1]].player # Nobody
  BY DEF Drawn
<1>3. t[2] # "own" => cred'.restored[t[1]] = cred.restored[t[1]]
  BY <1>1, <1>2 DEF StepFacts, CredMove
<1> QED BY <1>1, <1>3 DEF Drawn, TokenPlayer, StepFacts, CredMove

\* Whoever has not been admitted has drawn nothing.
LEMMA NotDrawnYet ==
  ASSUME Core, NEW t, Drawn(cred, Admitted, t)
  PROVE  t \in Token /\ t[1] \in Admitted /\ TokenPlayer(cred, t) \in Admitted
<1>1. t \in Token /\ t[1] \in Connection
  BY TokenFacts DEF Drawn
<1>2. CASE t[2] = "own"
  BY <1>1, <1>2 DEF Drawn, TokenPlayer
<1>3. CASE t[2] # "own"
 <2>1. cred.restored[t[1]].player # Nobody
   BY <1>3 DEF Drawn
 <2>2. t[1] \in Admitted /\ cred.restored[t[1]].player \in Admitted
   BY <1>1, <2>1, RestoreFacts DEF Core, Books
 <2> QED BY <1>1, <1>3, <2>2 DEF TokenPlayer
<1> QED BY <1>2, <1>3

LEMMA CoreKept ==
  ASSUME Core, [ReconnectNext]_reconnectVars
  PROVE  Core'
<1>1. StepFacts
  BY EveryStepFacts
<1>2. Shapes' /\ cred' \in Credentials /\ Books(cred', Admitted') /\ Handling'
  BY <1>1 DEF StepFacts, CredMove
<1>3. ASSUME NEW t \in Shown'
      PROVE  t = NoToken \/ Drawn(cred', Admitted', t)
  BY <1>1, <1>3, ShownAre, DrawnStays DEF StepFacts, ShownMove, FirstShown
<1>4. CookiesAreDrawn'
 <2>1. jar'.cookie \in Shown' /\ \A c \in Connection : request'[c].cookie \in Shown'
   BY DEF Shown
 <2> QED BY <1>3, <2>1 DEF CookiesAreDrawn
<1>5. SeenIsDrawn'
 <2>1. SUFFICES ASSUME NEW c \in Connection, seen'[c] # NoToken
                PROVE  /\ Drawn(cred', Admitted', seen'[c])
                       /\ seen'[c][1] # c /\ TokenPlayer(cred', seen'[c]) # c
   BY DEF SeenIsDrawn
 <2>2. CASE seen'[c] = seen[c]
  <3>1. Drawn(cred, Admitted, seen[c]) /\ seen[c][1] # c /\ TokenPlayer(cred, seen[c]) # c
    BY <2>1, <2>2 DEF Core, SeenIsDrawn
  <3> QED BY <1>1, <2>2, <3>1, DrawnStays
 <2>3. CASE seen'[c] # seen[c]
  <3>1. doing[c] = "unborn" /\ seen'[c] \in Shown
    BY <1>1, <2>3 DEF StepFacts, ShownMove
  <3>2. Drawn(cred, Admitted, seen'[c])
    BY <2>1, <3>1, ShownAre
  <3>3. c \notin Admitted
    BY <3>1, HandlingFacts DEF HandlingOf, Admitted
  <3> QED BY <1>1, <3>2, <3>3, DrawnStays, NotDrawnYet
 <2> QED BY <2>2, <2>3
<1>6. TicketsAreDrawn'
 <2>1. SUFFICES ASSUME NEW t \in Token, ticket'[t] # "none"
                PROVE  Drawn(cred', Admitted', t)
   BY DEF TicketsAreDrawn
 <2>2. CASE ticket[t] # "none"
   BY <1>1, <2>2, DrawnStays DEF Core, TicketsAreDrawn
 <2>3. CASE ticket[t] = "none"
  <3>1. TicketOpens(t)
    BY <1>1, <2>1, <2>3 DEF StepFacts, TicketMove, TicketCommits
  <3>2. t[1] \in Connection
    BY TokenFacts
  <3> QED BY <3>1, <3>2, TokenFacts DEF TicketOpens, Drawn, Admitted
 <2> QED BY <2>2, <2>3
<1>7. WindowsAreOpen'
 <2>1. SUFFICES ASSUME NEW c \in Connection, Window(c)'
                PROVE  cred'.restored[c].player \in Connection /\ Usable(cred', cred'.restored[c].player)
   BY DEF WindowsAreOpen
 <2>2. CASE Window(c)
  <3>1. cred.restored[c].player \in Connection /\ Usable(cred', cred.restored[c].player)
    BY <1>1, <2>2 DEF StepFacts, CredMove, Core, WindowsAreOpen
  <3>2. cred'.restored[c] = cred.restored[c]
    BY <1>1, <3>1, ConnectionsAreNumbers DEF StepFacts, CredMove
  <3> QED BY <3>1, <3>2
 <2>3. CASE ~Window(c)
   BY <1>1, <2>1, <2>3 DEF StepFacts, WindowMove
 <2> QED BY <2>2, <2>3
<1>8. TerminalBooks'
 <2>1. SUFFICES ASSUME ~Web
                PROVE  TuiBooks(cred') /\ \A t \in Token : ticket'[t] = "none"
   BY <1>1 DEF TerminalBooks, StepFacts, Web
 <2>2. \A t \in Token : ticket[t] = "none"
   BY <2>1 DEF Core, TerminalBooks
 <2>3. \A t \in Token : ticket'[t] = "none"
   BY <1>1, <2>1, <2>2 DEF StepFacts, TicketMove, TicketCommits, TicketOpens
 <2> QED BY <1>1, <2>1, <2>3 DEF Core, TerminalBooks, StepFacts, CredMove
<1> QED BY <1>2, <1>4, <1>5, <1>6, <1>7, <1>8 DEF Core

LEMMA CoreInit ==
  ASSUME ReconnectInit
  PROVE  Core
<1> USE ConnectionsAreNumbers
<1>1. scene \in Devices /\ cred = NoCredentials
  BY DEF ReconnectInit
<1>2. /\ NoToken \in TokenOrNone /\ Nobody \in ConnectionOrNone
      /\ NoSession \in [token : TokenOrNone, online : BOOLEAN, lapsed : BOOLEAN]
      /\ NoRotation \in [by : ConnectionOrNone, orphaned : BOOLEAN]
      /\ NotRestored \in [player : ConnectionOrNone, previous : TokenOrNone, online : BOOLEAN]
  BY DEF TokenOrNone, ConnectionOrNone, NoSession, NoRotation, NotRestored
<1>3. cred \in Credentials
  BY <1>1, <1>2 DEF NoCredentials, Credentials, TokenOrNone, ConnectionOrNone
<1>4. /\ \A t \in Token : cred.index[t] = Nobody /\ cred.alias[t] = Nobody
      /\ \A p \in Connection : cred.session[p] = NoSession /\ cred.rotation[p] = NoRotation /\ cred.restored[p] = NotRestored
  BY <1>1 DEF NoCredentials
<1>5. Books(cred, Admitted)
 <2>1. NoRotation.by = Nobody /\ NotRestored.player = Nobody
   BY DEF NoRotation, NotRestored
 <2> QED BY <1>4, <2>1 DEF Books, IndexIsRight, AliasIsSpent, SessionHasToken, RestoresLeadBack,
      RotationsAreOpen, HasSession
<1>6. Shapes
 <2>1. NoDrain \in DrainRecord
   BY DEF NoDrain, DrainRecord
 <2>2. NoRequest \in [what : Requests, cookie : TokenOrNone, owner : ConnectionOrNone]
   BY <1>2 DEF NoRequest, Requests
 <2>3. "unborn" \in Phases
   BY DEF Phases
 <2>4. /\ jar \in [cookie : TokenOrNone, owner : ConnectionOrNone]
       /\ request \in [Connection -> [what : Requests, cookie : TokenOrNone, owner : ConnectionOrNone]]
       /\ drains \in [Connection -> DrainRecord]
   BY <1>2, <2>1, <2>2 DEF ReconnectInit
 <2>5. /\ clients \in [Connection -> ConnectionOrNone] /\ ident \in [Connection -> ConnectionOrNone]
       /\ doing \in [Connection -> Phases]
       /\ seen \in [Connection -> TokenOrNone] /\ authorized \in [Connection -> TokenOrNone]
       /\ moving \in [Connection -> ConnectionOrNone] /\ previous \in [Connection -> ConnectionOrNone]
       /\ authority \in ConnectionOrNone
   BY <1>2, <2>3 DEF ReconnectInit
 <2> QED BY <1>1, <2>4, <2>5 DEF ReconnectInit, Shapes
<1>7. /\ \A c \in Connection : /\ doing[c] = "unborn" /\ ident[c] = Nobody /\ seen[c] = NoToken
                               /\ request[c].what = "none" /\ request[c].cookie = NoToken
                               /\ moving[c] = Nobody /\ previous[c] = Nobody
      /\ jar.cookie = NoToken /\ \A t \in Token : ticket[t] = "none"
  BY DEF ReconnectInit, NoRequest
<1>8. Handling
 <2>1. NotRestored.player = Nobody
   BY DEF NotRestored
 <2> QED BY <1>4, <1>7, <2>1 DEF Handling, HandlingOf, Asks, Busy, Holding, Window, Asker
<1>9. SeenIsDrawn /\ CookiesAreDrawn /\ TicketsAreDrawn /\ WindowsAreOpen
  BY <1>7 DEF SeenIsDrawn, CookiesAreDrawn, TicketsAreDrawn, WindowsAreOpen, Window
<1>10. TerminalBooks
  BY <1>4, <1>7 DEF TerminalBooks, TuiBooks
<1> QED BY <1>3, <1>5, <1>6, <1>8, <1>9, <1>10 DEF Core

\* The books of the session manager are always right, and every variable is of
\* its type.
THEOREM BooksAreRight == ReconnectSpec => []Core
<1>1. ReconnectInit => Core
  BY CoreInit
<1>2. Core /\ [ReconnectNext]_reconnectVars => Core'
  BY CoreKept
<1> QED BY <1>1, <1>2, PTL DEF ReconnectSpec

THEOREM ReconnectTypes == ReconnectSpec => []ReconnectTypeOK
<1>1. Core => ReconnectTypeOK
  BY DEF Core, Shapes, ReconnectTypeOK, ConnectionOrNone, TokenOrNone
<1> QED BY <1>1, BooksAreRight, PTL

\* A token that lost its rotation can end its player's session and no more: no
\* rollback, commit or late presentation makes it a credential again
\* (resolveBrowserRotationLocked, RollbackRestore).
THEOREM SpentTokensStaySpent == ReconnectSpec => SpentForGood
<1>1. Core /\ [ReconnectNext]_reconnectVars => [\A t \in Token : cred.alias[t] # Nobody => PlayerOf(cred', t) = Nobody]_reconnectVars
 <2>1. SUFFICES ASSUME Core, [ReconnectNext]_reconnectVars, NEW t \in Token, cred.alias[t] # Nobody
                PROVE  PlayerOf(cred', t) = Nobody
   OBVIOUS
 <2>2. NoRevival(cred, cred')
   BY <2>1, EveryStepMoves DEF CredMove
 <2>3. cred'.index[t] = Nobody
   BY <2>1, <2>2 DEF NoRevival
 <2> QED BY <2>3, TokenFacts DEF PlayerOf, HolderOf, HasSession
<1> QED BY <1>1, BooksAreRight, PTL DEF ReconnectSpec, SpentForGood
=============================================================================
