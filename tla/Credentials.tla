---------------------------- MODULE Credentials ----------------------------
(***************************************************************************)
(* The session manager (server/session/player.go): who may come back as    *)
(* which player.  Its state is one record, an operation takes the record   *)
(* to its next value, and a module that uses it says when.                 *)
(*                                                                         *)
(* A player is named by the connection whose temporary identity it first   *)
(* was; a token by the connection whose handling drew it: the one of its   *)
(* own session, or the one that replaced the token it came back with.      *)
(* Time is left out: a credential lapses, an alias expires, at any moment  *)
(* at which the using module lets it.                                      *)
(***************************************************************************)
EXTENDS Naturals

CONSTANT Connection

ASSUME CredentialsAssumption == Connection \subseteq Nat \ {0}

Nobody == 0
Token == Connection \X {"own", "new"}
NoToken == << Nobody, "own" >>
Own(c) == << c, "own" >>
New(c) == << c, "new" >>

NoSession == [token |-> NoToken, online |-> FALSE, lapsed |-> FALSE]
NoRotation == [by |-> Nobody, orphaned |-> FALSE]
NotRestored == [player |-> Nobody, previous |-> NoToken, online |-> FALSE]

Credentials ==
  [ session : [Connection -> [token : Token \cup {NoToken}, online : BOOLEAN, lapsed : BOOLEAN]],
    index : [Token -> Connection \cup {Nobody}],      \* tokens
    rotation : [Connection -> [by : Connection \cup {Nobody}, orphaned : BOOLEAN]],
    alias : [Token -> Connection \cup {Nobody}],      \* webRevocationAliases
    \* What RestoreSession has returned to a connection's handler.
    restored : [Connection -> [ player : Connection \cup {Nobody}, previous : Token \cup {NoToken},
                                online : BOOLEAN ]] ]

NoCredentials ==
  [ session |-> [p \in Connection |-> NoSession],
    index |-> [t \in Token |-> Nobody],
    rotation |-> [p \in Connection |-> NoRotation],
    alias |-> [t \in Token |-> Nobody],
    restored |-> [c \in Connection |-> NotRestored] ]

HasSession(cr, p) == p # Nobody /\ cr.session[p] # NoSession

\* reconnectCredentialValidLocked
Valid(cr, p) == cr.session[p].online \/ ~cr.session[p].lapsed

HolderOf(cr, t) == IF t = NoToken THEN Nobody ELSE cr.index[t]

-----------------------------------------------------------------------------
(* Sessions.                                                               *)

Created(cr, p) ==
  [cr EXCEPT !.session[p] = [token |-> Own(p), online |-> TRUE, lapsed |-> FALSE],
             !.index[Own(p)] = p]

WentOffline(cr, p) ==
  IF cr.session[p].online
  THEN [cr EXCEPT !.session[p] = [@ EXCEPT !.online = FALSE, !.lapsed = FALSE]]
  ELSE cr

WentOnline(cr, p) ==
  IF HasSession(cr, p)
  THEN [cr EXCEPT !.session[p] = [@ EXCEPT !.online = TRUE, !.lapsed = FALSE]]
  ELSE cr

\* GetSessionByToken
PlayerOf(cr, t) ==
  LET p == HolderOf(cr, t) IN
  IF HasSession(cr, p) /\ cr.session[p].token = t /\ Valid(cr, p) THEN p ELSE Nobody

\* The tokens through which a rotation of p can still be settled.
Lineage(cr, p) ==
  LET by == cr.rotation[p].by IN
  {cr.session[p].token} \cup
    (IF by = Nobody THEN {} ELSE {cr.restored[by].previous, New(by)})

AliasesOf(cr, p) == { t \in Token : cr.alias[t] = p }

\* deleteSessionTokensLocked, and the session with them.
Deleted(cr, p) ==
  LET gone == Lineage(cr, p) IN
  [cr EXCEPT !.session[p] = NoSession, !.rotation[p] = NoRotation,
             !.index = [t \in Token |-> IF t \in gone THEN Nobody ELSE @[t]],
             !.alias = [t \in Token |-> IF @[t] = p THEN Nobody ELSE @[t]]]

-----------------------------------------------------------------------------
(* Browser rotations: both tokens stay known until one is presented.       *)

\* Fault: the rotation stays open, with both its tokens.
FaultSettled(cr, p, winner, loser) == [cr EXCEPT !.session[p].token = winner, !.alias[loser] = p]

\* finalizeBrowserRotationLocked, resolveBrowserRotationLocked: of the
\* rotation of p, winner stays and loser can from now on only revoke.
Settled(cr, p, winner, loser) ==
  [cr EXCEPT !.session[p].token = winner, !.index[loser] = Nobody,
             !.alias[loser] = p, !.rotation[p] = NoRotation]

\* What presenting t does to the rotation it belongs to.
Resolved(cr, t) ==
  LET p == HolderOf(cr, t)  by == cr.rotation[p].by  previous == cr.restored[by].previous IN
  IF p = Nobody \/ ~HasSession(cr, p) \/ by = Nobody THEN cr
  ELSE IF t = New(by) THEN Settled(cr, p, t, previous)
  ELSE IF t = previous /\ cr.rotation[p].orphaned THEN Settled(cr, p, t, New(by))
  ELSE cr

\* ObserveWebSessionToken: is t, after what presenting it settled, the token?
Observes(cr, t) == PlayerOf(Resolved(cr, t), t) # Nobody

\* IsKnownWebSessionToken
Known(cr, t) == t # NoToken /\ (cr.index[t] # Nobody \/ cr.alias[t] # Nobody)

CanReconnectToken(cr, t) ==
  LET p == HolderOf(cr, t)  by == cr.rotation[p].by IN
  /\ HasSession(cr, p) /\ Valid(cr, p)
  /\ \/ cr.session[p].token = t
     \/ (by # Nobody /\ cr.rotation[p].orphaned /\ cr.restored[by].previous = t)

\* OrphanBrowserRestore
Orphaned(cr, c) ==
  LET p == cr.restored[c].player IN
  IF p # Nobody /\ cr.rotation[p].by = c THEN [cr EXCEPT !.rotation[p].orphaned = TRUE] ELSE cr

-----------------------------------------------------------------------------
(* Coming back, and taking that back.                                      *)

Restorable(cr, t, web) ==
  LET p == PlayerOf(Resolved(cr, t), t)  rotation == cr.rotation[HolderOf(cr, t)] IN
  p # Nobody /\ (rotation.by = Nobody \/ (web /\ rotation.orphaned))

\* RestoreSessionByToken of a browser, RestoreSession of a terminal client:
\* c's handler comes back with t, drawing New(c), and its own session goes.
Restored(cr, t, c, web) ==
  LET settled == Resolved(cr, t)
      p == PlayerOf(settled, t)
      rotated ==
        [settled EXCEPT
           !.session[p] = [token |-> New(c), online |-> TRUE, lapsed |-> FALSE],
           !.index[New(c)] = p, !.index[t] = IF web THEN p ELSE Nobody,
           !.rotation[p] = IF web THEN [by |-> c, orphaned |-> FALSE] ELSE @,
           !.restored[c] = [player |-> p, previous |-> t, online |-> settled.session[p].online]]
  IN Deleted(rotated, c)

\* IsCurrentBrowserRestore
IsCurrent(cr, c) ==
  LET p == cr.restored[c].player IN
  p # Nobody /\ cr.rotation[p].by = c /\ PlayerOf(cr, New(c)) = p

\* RollbackRestore
CanRollBack(cr, c, web) ==
  LET p == cr.restored[c].player IN
  /\ HasSession(cr, p) /\ cr.index[New(c)] = p /\ cr.session[p].token = New(c)
  /\ web => cr.rotation[p] = [by |-> c, orphaned |-> FALSE]

\* rollbackRestoredSession: a rotation that is no longer c's stays.
RolledBack(cr, c, web) ==
  LET r == cr.restored[c] IN
  IF ~CanRollBack(cr, c, web) THEN IF HasSession(cr, r.player) THEN WentOffline(cr, r.player) ELSE cr
  ELSE [cr EXCEPT
          !.index[New(c)] = Nobody, !.index[r.previous] = r.player,
          !.session[r.player] = [token |-> r.previous, online |-> r.online, lapsed |-> FALSE],
          !.rotation[r.player] = NoRotation]

-----------------------------------------------------------------------------
(* Revoking.                                                               *)

\* RevokeSessionByTokenWithLineage: the player t is, or recently was, of.
RevokedBy(cr, t) ==
  IF t = NoToken THEN Nobody
  ELSE LET p == IF cr.index[t] # Nobody THEN cr.index[t] ELSE cr.alias[t] IN
       IF HasSession(cr, p) THEN p ELSE Nobody

RevokedLineage(cr, p) == Lineage(cr, p) \cup AliasesOf(cr, p)

-----------------------------------------------------------------------------
(* Time.                                                                   *)

\* The two minutes of an offline player are over.
Lapsed(cr, p) == [cr EXCEPT !.session[p].lapsed = TRUE]

\* cleanup, of an expired session: its tokens are forgotten.  Of a dead one
\* nothing is left (Deleted).
Forgotten(cr, p) ==
  LET by == cr.rotation[p].by
      gone == {cr.session[p].token} \cup (IF by = Nobody THEN {} ELSE {cr.restored[by].previous}) IN
  [cr EXCEPT !.index = [t \in Token |-> IF t \in gone THEN Nobody ELSE @[t]]]

AliasExpired(cr, t) == [cr EXCEPT !.alias[t] = Nobody]
=============================================================================
