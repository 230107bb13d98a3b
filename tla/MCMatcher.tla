----------------------------- MODULE MCMatcher -----------------------------
(***************************************************************************)
(* Instances of Matcher: players with one connection each, or with a       *)
(* second one to come back with.                                           *)
(***************************************************************************)
EXTENDS Matcher, TLC

\* Players that connect alike are interchangeable.
Alike == Permutations(Players)
OneLink == [player \in Players |-> 1]
TwoLinks == [player \in Players |-> 2]

-----------------------------------------------------------------------------
(* Four scenes of one run.  All players come, with one connection and one  *)
(* attempt each; or one player comes alone and may come back on a second   *)
(* connection, while he makes a second attempt, an operator drains and     *)
(* closes the matcher, or he goes to rooms that no match made.             *)

VARIABLES scene, actor

mcVars == << vars, scene, actor >>

MCInit ==
  /\ Init
  /\ \/ scene = "everybody" /\ actor = Nobody
     \/ scene \in {"again", "operator", "elsewhere"} /\ actor \in Players

\* Bound: attempts and connections beyond the first, by scene.
WithinScene ==
  /\ scene # "again" => att'[2] = Unused
  /\ scene # "elsewhere" => \A h \in Handles : room'[h] # Elsewhere

\* Bound: with everybody there, only one connection breaks.
MayLose == actor = Nobody => \A h \in Handles : link[h] \in {"open", "unborn"}

Present(p) == actor \in {p, Nobody}

MCNext ==
  /\ \/ \E h \in Handles :
          /\ Present(h[1]) /\ link[h] # "unborn"
          /\ \/ Command(h)
             \/ Handler(h)
             \/ LoseLink(h) /\ MayLose
             \/ Departure(h)
             \/ NotifyPending(h)
     \/ \E p \in Players :
          /\ Present(p)
          /\ \/ Expire(p)
             \/ NotifyExpired(p)
             \/ actor = p /\ (RebindClient(p) \/ Reconnect(p))
     \/ \E a \in Attempts : \/ Worker(a) \/ Removal(a) \/ ExpireBots(a)
                            \/ EndGame(a) \/ TimeOutRoom(a)
     \/ ClaimBotFill \/ CommitBotFill
     \/ scene = "operator" /\ (Drain \/ Resume \/ Close)
  /\ WithinScene
  /\ UNCHANGED << scene, actor >>

MCSpec == MCInit /\ [][MCNext]_mcVars
=============================================================================
