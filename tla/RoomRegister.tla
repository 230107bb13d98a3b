---------------------------- MODULE RoomRegister ----------------------------
(***************************************************************************)
(* What the room manager promises about room codes and the room records it *)
(* keeps in Redis (game/room/persistence.go), whatever workers, removals   *)
(* and a reused code do meanwhile: a code names one room at a time, and a  *)
(* room is written from its creation until it is forgotten, never after.   *)
(* To forget a room is one attempt to erase its record; it may fail.       *)
(***************************************************************************)
CONSTANTS
  Room,     \* every room there will be: codes are reused, rooms are not
  Code,
  CodeOf,   \* the code a room gets
  NoRoom

VARIABLES
  fate,     \* of a room: unborn, open, closed or forgotten
  record    \* the room whose record is stored under a code

registerVars == << fate, record >>

Init ==
  /\ fate = [r \in Room |-> "unborn"]
  /\ record = [k \in Code |-> NoRoom]

\* A code is given again once its last room is forgotten.
Open(r) ==
  /\ fate[r] = "unborn"
  /\ \A other \in Room :
       CodeOf[other] = CodeOf[r] => fate[other] \in {"unborn", "forgotten"}
  /\ fate' = [fate EXCEPT ![r] = "open"]
  /\ UNCHANGED record

Write(r) ==
  /\ fate[r] \in {"open", "closed"}
  /\ record' = [record EXCEPT ![CodeOf[r]] = r]
  /\ UNCHANGED fate

Close(r) ==
  /\ fate[r] = "open"
  /\ fate' = [fate EXCEPT ![r] = "closed"]
  /\ UNCHANGED record

Forget(r) ==
  /\ fate[r] = "closed"
  /\ fate' = [fate EXCEPT ![r] = "forgotten"]
  /\ \E kept \in {NoRoom, record[CodeOf[r]]} :
       record' = [record EXCEPT ![CodeOf[r]] = kept]

Next == \E r \in Room : Open(r) \/ Write(r) \/ Close(r) \/ Forget(r)

Spec == Init /\ [][Next]_registerVars

\* A closed room is not kept waiting.
LiveSpec == Spec /\ \A r \in Room : WF_registerVars(Forget(r))
=============================================================================
