----------------------------- MODULE RoomsProofs -----------------------------
(***************************************************************************)
(* What holds of the room manager for any rooms, codes, players and        *)
(* connections, in three parts.                                            *)
(*                                                                         *)
(* The manager with its persistence workers implements RoomRegister,       *)
(* whatever is queued when a room is removed and its code given away.      *)
(*                                                                         *)
(* An invariant relates rooms, connections and sessions.  It is kept part  *)
(* by part: for each part there is a relation of the little that the part  *)
(* sees of a step, a lemma that every step is in it, and one that the      *)
(* relation keeps the part.                                                *)
(*                                                                         *)
(* Membership, presence and registration of games follow from it.          *)
(***************************************************************************)
EXTENDS Rooms, TLAPS, FiniteSetTheorems, SequenceTheorems, WellFoundedInduction

Queue ==
  [exists : BOOLEAN, save : Room \cup {NoRoom}, delete : Room \cup {NoRoom}, after : Room \cup {NoRoom}]

StoreTypes ==
  /\ life \in [Room -> {"unused", "published", "removed"}]
  /\ queues \in [Code -> Queue]
  /\ workers \in [Code -> [op : {"none", "save", "delete"}, room : Room \cup {NoRoom}]]
  /\ retiringRooms \in [Code -> Room \cup {NoRoom}]
  /\ store \in [Code -> Room \cup {NoRoom}]

\* Who is about to save or to start knows a room.
TargetsKnown ==
  /\ doing \in [Connection ->
       {"temporary", "idle", "starting", "saving", "leaving", "reporting",
        "recalled", "rebound", "attached", "undone", "gone"}]
  /\ target \in [Connection -> Room \cup {NoRoom}]
  /\ \A c \in Connection : doing[c] \in {"saving", "starting"} => target[c] \in Room

\* The code of a published room is its own, and is not retiring.
OneRoomACode ==
  \A r \in Room : Published(r) =>
    /\ retiringRooms[CodeOf[r]] = NoRoom
    /\ \A q \in Room : Published(q) /\ CodeOf[q] = CodeOf[r] => q = r

\* A delete that waits, or is carried out, is of the removed room whose code
\* retires; there is never a second one.
DeletesRetire ==
  \A k \in Code :
    /\ queues[k].after = NoRoom
    /\ queues[k].delete # NoRoom =>
         /\ retiringRooms[k] = queues[k].delete
         /\ CodeOf[queues[k].delete] = k /\ life[queues[k].delete] = "removed"
    /\ workers[k].op = "delete" =>
         /\ workers[k].room \in Room /\ queues[k].delete = NoRoom
         /\ retiringRooms[k] = workers[k].room
         /\ CodeOf[workers[k].room] = k /\ life[workers[k].room] = "removed"

\* A save that waits is of the published room; one that is carried out may be
\* overtaken by the removal, but not by the delete.
SavesAreOfTheOpen ==
  \A k \in Code :
    /\ queues[k].save # NoRoom =>
         Published(queues[k].save) /\ CodeOf[queues[k].save] = k
    /\ workers[k].op = "save" =>
         /\ workers[k].room \in Room /\ CodeOf[workers[k].room] = k
         /\ Published(workers[k].room) \/ queues[k].delete = workers[k].room

\* The store closes after the last room.
ClosedIsEmpty == persistenceClosed => closed /\ \A r \in Room : ~Published(r)

StoreInv ==
  StoreTypes /\ OneRoomACode /\ DeletesRetire /\ SavesAreOfTheOpen /\ ClosedIsEmpty

-----------------------------------------------------------------------------
(* The steps of rooms and store, whatever handler takes them.              *)

storeView == << life, closed, storeVars >>

Opened(r) ==
  /\ ~closed /\ life[r] = "unused" /\ CodeIsFree(CodeOf[r])
  /\ life' = [life EXCEPT ![r] = "published"]
  /\ UNCHANGED << closed, storeVars >>

Dissolved(r) ==
  /\ Published(r) /\ life' = [life EXCEPT ![r] = "removed"] /\ RetireCode(r)
  /\ UNCHANGED << closed, workers, persistenceClosed, store >>

SaveQueued(r) ==
  /\ Published(r) /\ EnqueueSave(r)
  /\ UNCHANGED << life, closed, retiringRooms, workers, persistenceClosed, store >>

Worked(k) == Work(k) /\ UNCHANGED << life, closed >>

ManagerClosed == closed' = TRUE /\ UNCHANGED << life, storeVars >>

StoreClosed ==
  /\ closed /\ (\A r \in Room : ~Published(r)) /\ ClosePersistence
  /\ UNCHANGED << life, closed >>

StoreStep ==
  \/ \E r \in Room : Opened(r) \/ Dissolved(r) \/ SaveQueued(r)
  \/ \E k \in Code : Worked(k)
  \/ ManagerClosed \/ StoreClosed

LEMMA CommandSteps ==
  ASSUME TargetsKnown, NEW c \in Connection, Command(c) \/ Proceed(c)
  PROVE  TargetsKnown' /\ (StoreStep \/ UNCHANGED storeView)
<1> USE DEF TargetsKnown
<1>1. ASSUME NEW r \in Room, CreateRoom(c, r) PROVE TargetsKnown' /\ StoreStep
 <2>1. TargetsKnown'
   BY <1>1 DEF CreateRoom, ThenSaves
 <2>2. Opened(r)
   BY <1>1 DEF CreateRoom, Opened
 <2> QED BY <2>1, <2>2 DEF StoreStep
<1>2. ASSUME NEW r \in Room, JoinRoom(c, r)
      PROVE  TargetsKnown' /\ UNCHANGED storeView
  BY <1>2 DEF JoinRoom, ThenSaves, storeView
<1>3. ASSUME NEW r \in Room, LeaveRoom(c, r)
      PROVE  TargetsKnown' /\ (StoreStep \/ UNCHANGED storeView)
 <2>1. TargetsKnown'
   BY <1>3 DEF LeaveRoom, ThenSaves
 <2>2. Dissolved(r) \/ UNCHANGED storeView
   BY <1>3 DEF LeaveRoom, Locks, Unpublish, Dissolve, Dissolved, storeView, storeVars
 <2> QED BY <2>1, <2>2 DEF StoreStep
<1>4. ASSUME NEW r \in Room, NEW ready \in BOOLEAN, SetPlayerReady(c, r, ready)
      PROVE  TargetsKnown' /\ UNCHANGED storeView
  BY <1>4 DEF SetPlayerReady, storeView
<1>5. CASE Disconnect(c) \/ RestoreSession(c)
  BY <1>5 DEF Disconnect, RestoreSession, storeView, rooms
<1>6. CASE SetGameSession(c)
  BY <1>6 DEF SetGameSession, storeView
<1>7. CASE PersistRoom(c)
 <2>1. TargetsKnown'
   BY <1>7 DEF PersistRoom
 <2>2. SaveQueued(target[c]) \/ UNCHANGED storeView
   BY <1>7 DEF PersistRoom, Persists, SaveQueued, storeView, storeVars, rooms
 <2>3. target[c] \in Room
   BY <1>7 DEF PersistRoom
 <2> QED BY <2>1, <2>2, <2>3 DEF StoreStep
<1>8. CASE NotifyPlayerOffline(c)
 <2>1. \/ doing' = [doing EXCEPT ![c] = "gone"] /\ UNCHANGED target
       \/ \E r \in Room : /\ target' = [target EXCEPT ![c] = r]
                          /\ doing' = [doing EXCEPT ![c] = "reporting"]
   BY <1>8, Zenon DEF NotifyPlayerOffline, PublishedAs
 <2>4. TargetsKnown'
   BY <2>1
 <2>2. (\E r \in Room : Dissolved(r)) \/ UNCHANGED storeView
   BY <1>8 DEF NotifyPlayerOffline, PublishedAs, Unpublish, Dissolve, Dissolved,
               storeView, storeVars
 <2> QED BY <2>2, <2>4 DEF StoreStep
<1>9. CASE ReportOffline(c)
  BY <1>9 DEF ReportOffline, storeView
<1>10. CASE RebindClient(c) \/ ReconnectRoomless(c) \/ DeliverSnapshot(c) \/ RollbackRebindClient(c)
  BY <1>10 DEF RebindClient, ReconnectRoomless, DeliverSnapshot, RollbackRebindClient,
               Finish, storeView, rooms
<1>11. CASE ReconnectPlayer(c)
  BY <1>11 DEF ReconnectPlayer, Restorable, PublishedAs, storeView
<1> QED BY <1>1, <1>2, <1>3, <1>4, <1>5, <1>6, <1>7, <1>8, <1>9, <1>10, <1>11
        DEF Command, Proceed

LEMMA EveryStep ==
  ASSUME TargetsKnown, [RoomsNext]_roomsVars
  PROVE  TargetsKnown' /\ (StoreStep \/ UNCHANGED storeView)
<1>1. ASSUME NEW r \in Room, Manage(r)
      PROVE  TargetsKnown' /\ (StoreStep \/ UNCHANGED storeView)
 <2>1. CASE GameOver(r) \/ HandleRoomRemoved(r)
   BY <2>1 DEF GameOver, HandleRoomRemoved, connections, TargetsKnown, storeView
 <2>2. CASE RemoveIdleRoom(r)
  <3>1. Dissolved(r)
    BY <2>2 DEF RemoveIdleRoom, Locks, Unpublish, Dissolve, Dissolved
  <3> QED BY <2>2, <3>1 DEF RemoveIdleRoom, TargetsKnown, StoreStep
 <2> QED BY <1>1, <2>1, <2>2 DEF Manage
<1>2. ASSUME NEW k \in Code, Persist(k) PROVE TargetsKnown' /\ StoreStep
  BY <1>2 DEF Persist, connections, rooms, TargetsKnown, Worked, StoreStep
<1>3. CASE Close \/ CloseStore
  BY <1>3 DEF Close, CloseStore, connections, rooms, TargetsKnown, ManagerClosed,
              StoreClosed, StoreStep
<1>4. CASE UNCHANGED roomsVars
  BY <1>4 DEF roomsVars, connections, rooms, TargetsKnown, storeView
<1> QED BY <1>1, <1>2, <1>3, <1>4, CommandSteps DEF RoomsNext

-----------------------------------------------------------------------------
(* The invariant is kept.                                                  *)

\* A room whose delete waits or is carried out is the one its code retires.
LEMMA PendingRetires ==
  ASSUME StoreInv, NEW r \in Room, DeletePending(r)
  PROVE  retiringRooms[CodeOf[r]] = r /\ life[r] = "removed"
BY StoreAssumption DEF StoreInv, StoreTypes, Queue, DeletesRetire, DeletePending

LEMMA QueueTaken ==
  ASSUME NEW queue \in Queue, NEW r \in Room
  PROVE  /\ WithDelete(queue, r) \in Queue
         /\ WithDelete(queue, r).save = NoRoom /\ WithDelete(queue, r).delete = r
         /\ [queue EXCEPT !.exists = TRUE, !.save = r] \in Queue
BY DEF Queue, WithDelete

LEMMA QueueEased ==
  ASSUME NEW queue \in Queue
  PROVE  /\ [queue EXCEPT !.delete = NoRoom, !.save = queue.after, !.after = NoRoom] \in Queue
         /\ [queue EXCEPT !.save = NoRoom] \in Queue
BY DEF Queue

LEMMA OpeningKeepsInv ==
  ASSUME StoreInv, NEW r \in Room, Opened(r)
  PROVE  StoreInv'
<1> USE StoreAssumption DEF StoreInv, Opened, storeVars
<1>1. StoreTypes'
  BY DEF StoreTypes, Queue
<1>2. /\ retiringRooms[CodeOf[r]] = NoRoom
      /\ \A q \in Room : Published(q) => CodeOf[q] # CodeOf[r]
  BY DEF CodeIsFree, PublishedAs
<1>3. \A q \in Room : Published(q)' <=> Published(q) \/ q = r
  BY DEF StoreTypes, Queue, Published
<1>4. OneRoomACode'
  BY <1>2, <1>3 DEF OneRoomACode
<1>5. DeletesRetire'
  BY <1>2 DEF DeletesRetire, StoreTypes, Queue
<1>6. SavesAreOfTheOpen'
  BY <1>3 DEF SavesAreOfTheOpen, StoreTypes, Queue
<1>7. ClosedIsEmpty'
  BY DEF ClosedIsEmpty
<1> QED BY <1>1, <1>4, <1>5, <1>6, <1>7

LEMMA DissolvingKeepsInv ==
  ASSUME StoreInv, NEW r \in Room, Dissolved(r)
  PROVE  StoreInv'
<1> DEFINE k == CodeOf[r]
<1> USE StoreAssumption DEF StoreInv, Dissolved
<1>1. /\ retiringRooms' = [retiringRooms EXCEPT ![k] = r]
      /\ queues' = [queues EXCEPT ![k] = WithDelete(@, r)]
  BY DEF ClosedIsEmpty, RetireCode
<1>2. k \in Code /\ retiringRooms[k] = NoRoom
  BY DEF OneRoomACode
<1>3. \A q \in Room : Published(q)' <=> Published(q) /\ q # r
  BY DEF StoreTypes, Queue, Published
<1>4. StoreTypes'
 <2>1. queues[k] \in Queue
   BY <1>2 DEF StoreTypes, Queue
 <2>2. WithDelete(queues[k], r) \in Queue
   BY <2>1, QueueTaken
 <2> QED BY <1>1, <1>2, <2>2 DEF StoreTypes
<1>5. OneRoomACode'
  BY <1>1, <1>3 DEF OneRoomACode, StoreTypes, Queue
<1>6. DeletesRetire'
 <2>1. life'[r] = "removed"
   BY DEF StoreTypes, Queue
 <2>2. \A q \in Room : life[q] = "removed" => life'[q] = "removed"
   BY DEF StoreTypes, Queue
 <2>3. workers[k].op # "delete"
   BY <1>2 DEF DeletesRetire
 <2> QED BY <1>1, <1>2, <2>1, <2>2, <2>3 DEF DeletesRetire, StoreTypes, Queue, WithDelete
<1>7. SavesAreOfTheOpen'
 <2>1. \A j \in Code : j # k => queues'[j] = queues[j]
   BY <1>1 DEF StoreTypes, Queue
 <2>2. queues'[k].save = NoRoom /\ queues'[k].delete = r
  <3>1. queues[k] \in Queue /\ queues'[k] = WithDelete(queues[k], r)
    BY <1>1, <1>2 DEF StoreTypes
  <3>2. /\ WithDelete(queues[k], r).save = NoRoom
        /\ WithDelete(queues[k], r).delete = r
    BY <3>1, QueueTaken, Zenon
  <3> QED BY <3>1, <3>2, Zenon
 <2>3. workers[k].op = "save" => workers[k].room = r
   BY <1>2 DEF SavesAreOfTheOpen, OneRoomACode, DeletesRetire
 <2>4. \A j \in Code : queues'[j].save # NoRoom => j # k
   BY <2>2
 <2>5. \A j \in Code : queues'[j].delete = IF j = k THEN r ELSE queues[j].delete
   BY <2>1, <2>2
 <2>6. UNCHANGED workers
   BY DEF ClosedIsEmpty, RetireCode
 <2>7. ASSUME NEW j \in Code, queues'[j].save # NoRoom
       PROVE  life'[queues'[j].save] = "published" /\ CodeOf[queues'[j].save] = j
  <3>1. j # k /\ queues'[j] = queues[j]
    BY <2>1, <2>4, <2>7
  <3>2. queues[j].save \in Room
    BY <2>7, <3>1 DEF StoreTypes, Queue
  <3>3. Published(queues[j].save) /\ CodeOf[queues[j].save] = j
    BY <2>7, <3>1 DEF SavesAreOfTheOpen
  <3>4. queues[j].save # r
    BY <3>1, <3>3
  <3> QED BY <1>3, <3>1, <3>2, <3>3, <3>4 DEF Published
 <2>8. ASSUME NEW j \in Code, workers[j].op = "save"
       PROVE  /\ workers[j].room \in Room /\ CodeOf[workers[j].room] = j
              /\ life'[workers[j].room] = "published" \/ queues'[j].delete = workers[j].room
  <3>1. /\ workers[j].room \in Room /\ CodeOf[workers[j].room] = j
        /\ Published(workers[j].room) \/ queues[j].delete = workers[j].room
    BY <2>8 DEF SavesAreOfTheOpen
  <3>2. CASE j = k
    BY <2>3, <2>5, <2>8, <3>1, <3>2
  <3>3. CASE j # k
    BY <1>3, <2>5, <3>1, <3>3 DEF Published
  <3> QED BY <3>2, <3>3
 <2> QED BY <2>6, <2>7, <2>8 DEF SavesAreOfTheOpen, Published
<1>8. ClosedIsEmpty'
  BY <1>3 DEF ClosedIsEmpty
<1> QED BY <1>4, <1>5, <1>6, <1>7, <1>8

LEMMA QueueingKeepsInv ==
  ASSUME StoreInv, NEW r \in Room, SaveQueued(r)
  PROVE  StoreInv'
<1> DEFINE k == CodeOf[r]
<1> USE StoreAssumption DEF StoreInv, SaveQueued
<1>1. k \in Code /\ queues[k].delete = NoRoom
  BY DEF OneRoomACode, DeletesRetire, StoreTypes, Queue
<1>2. queues' = [queues EXCEPT ![k].exists = TRUE, ![k].save = r]
  BY <1>1 DEF ClosedIsEmpty, EnqueueSave, WithSave, StoreTypes, Queue
<1>3. StoreTypes'
 <2>1. queues[k] \in Queue
   BY <1>1 DEF StoreTypes, Queue
 <2>2. [queues[k] EXCEPT !.exists = TRUE, !.save = r] \in Queue
   BY <2>1, QueueTaken
 <2>3. queues' = [queues EXCEPT ![k] = [queues[k] EXCEPT !.exists = TRUE, !.save = r]]
   BY <1>2
 <2> QED BY <1>1, <2>2, <2>3 DEF StoreTypes
<1>4. /\ \A j \in Code : /\ queues'[j].delete = queues[j].delete
                         /\ queues'[j].after = queues[j].after
      /\ \A j \in Code : queues'[j].save = IF j = k THEN r ELSE queues[j].save
  BY <1>1, <1>2 DEF StoreTypes, Queue
<1>5. DeletesRetire'
  BY <1>4 DEF DeletesRetire
<1>6. SavesAreOfTheOpen'
  BY <1>4 DEF SavesAreOfTheOpen, Published
<1>7. OneRoomACode' /\ ClosedIsEmpty'
  BY DEF OneRoomACode, ClosedIsEmpty, Published
<1> QED BY <1>3, <1>5, <1>6, <1>7

LEMMA WorkKeepsInv ==
  ASSUME StoreInv, NEW k \in Code, Worked(k)
  PROVE  StoreInv'
<1> USE StoreAssumption DEF StoreInv, Worked
<1>1. CASE Take(k) /\ queues[k].delete # NoRoom
 <2>1. /\ workers[k] = Idle
       /\ workers' = [workers EXCEPT ![k] = [op |-> "delete", room |-> queues[k].delete]]
       /\ queues' = [queues EXCEPT ![k] = [queues[k] EXCEPT
              !.delete = NoRoom, !.save = queues[k].after, !.after = NoRoom]]
       /\ UNCHANGED << retiringRooms, persistenceClosed, store >>
   BY <1>1 DEF Take
 <2>2. StoreTypes'
  <3>1. [queues[k] EXCEPT !.delete = NoRoom, !.save = queues[k].after, !.after = NoRoom] \in Queue
   <4>1. queues[k] \in Queue
     BY DEF StoreTypes
   <4> QED BY <4>1, QueueEased
  <3>2. queues' \in [Code -> Queue]
    BY <2>1, <3>1 DEF StoreTypes
  <3>3. workers' \in [Code -> [op : {"none", "save", "delete"}, room : Room \cup {NoRoom}]]
   <4>1. queues[k].delete \in Room \cup {NoRoom}
     BY DEF StoreTypes, Queue
   <4> QED BY <2>1, <4>1 DEF StoreTypes
  <3> QED BY <2>1, <3>2, <3>3 DEF StoreTypes
 <2>3. /\ queues'[k].delete = NoRoom /\ queues'[k].save = NoRoom /\ queues'[k].after = NoRoom
       /\ workers'[k].op = "delete" /\ workers'[k].room = queues[k].delete
       /\ \A j \in Code : j # k => queues'[j] = queues[j] /\ workers'[j] = workers[j]
   BY <2>1 DEF StoreTypes, Queue, DeletesRetire
 <2>4. DeletesRetire'
   BY <1>1, <2>1, <2>3 DEF DeletesRetire, StoreTypes, Queue
 <2>5. SavesAreOfTheOpen'
   BY <2>1, <2>3 DEF SavesAreOfTheOpen, Published
 <2>6. OneRoomACode' /\ ClosedIsEmpty'
   BY <2>1 DEF OneRoomACode, ClosedIsEmpty, Published
 <2> QED BY <2>2, <2>4, <2>5, <2>6
<1>2. CASE Take(k) /\ queues[k].delete = NoRoom /\ queues[k].save # NoRoom
 <2>1. /\ workers[k] = Idle
       /\ workers' = [workers EXCEPT ![k] = [op |-> "save", room |-> queues[k].save]]
       /\ queues' = [queues EXCEPT ![k].save = NoRoom]
       /\ UNCHANGED << retiringRooms, persistenceClosed, store >>
   BY <1>2 DEF Take
 <2>2. StoreTypes'
  <3>1. [queues[k] EXCEPT !.save = NoRoom] \in Queue
   <4>1. queues[k] \in Queue
     BY DEF StoreTypes
   <4> QED BY <4>1, QueueEased
  <3>2. queues' \in [Code -> Queue]
    BY <2>1, <3>1 DEF StoreTypes
  <3>3. workers' \in [Code -> [op : {"none", "save", "delete"}, room : Room \cup {NoRoom}]]
   <4>1. queues[k].save \in Room \cup {NoRoom}
     BY DEF StoreTypes, Queue
   <4> QED BY <2>1, <4>1 DEF StoreTypes
  <3> QED BY <2>1, <3>2, <3>3 DEF StoreTypes
 <2>3. /\ queues'[k].delete = NoRoom /\ queues'[k].save = NoRoom /\ queues'[k].after = NoRoom
       /\ workers'[k].op = "save" /\ workers'[k].room = queues[k].save
       /\ \A j \in Code : j # k => queues'[j] = queues[j] /\ workers'[j] = workers[j]
   BY <1>2, <2>1 DEF StoreTypes, Queue, DeletesRetire
 <2>4. DeletesRetire'
   BY <2>1, <2>3 DEF DeletesRetire
 <2>5. SavesAreOfTheOpen'
   BY <1>2, <2>1, <2>3 DEF SavesAreOfTheOpen, Published, StoreTypes, Queue
 <2>6. OneRoomACode' /\ ClosedIsEmpty'
   BY <2>1 DEF OneRoomACode, ClosedIsEmpty, Published
 <2> QED BY <2>2, <2>4, <2>5, <2>6
<1>3. CASE Take(k) /\ queues[k].delete = NoRoom /\ queues[k].save = NoRoom
 <2>1. /\ queues' = [queues EXCEPT ![k] = NoQueue]
       /\ UNCHANGED << workers, retiringRooms, persistenceClosed, store >>
   BY <1>3 DEF Take
 <2>2. StoreTypes'
   BY <2>1 DEF StoreTypes, Queue, NoQueue
 <2>3. \A j \in Code : /\ queues'[j].delete = queues[j].delete
                       /\ queues'[j].save = queues[j].save /\ queues'[j].after = NoRoom
   BY <1>3, <2>1 DEF NoQueue, StoreTypes, Queue, DeletesRetire
 <2>4. DeletesRetire' /\ SavesAreOfTheOpen'
   BY <2>1, <2>3 DEF DeletesRetire, SavesAreOfTheOpen, Published
 <2>5. OneRoomACode' /\ ClosedIsEmpty'
   BY <2>1 DEF OneRoomACode, ClosedIsEmpty, Published
 <2> QED BY <2>2, <2>4, <2>5
<1>4. CASE SaveRoom(k)
 <2>1. StoreTypes'
   BY <1>4 DEF SaveRoom, StoreTypes, Queue, Idle
 <2>2. \A j \in Code : workers'[j] = IF j = k THEN Idle ELSE workers[j]
   BY <1>4 DEF SaveRoom, StoreTypes, Queue
 <2>3. DeletesRetire' /\ SavesAreOfTheOpen'
   BY <1>4, <2>2 DEF SaveRoom, Idle, DeletesRetire, SavesAreOfTheOpen, Published
 <2>4. OneRoomACode' /\ ClosedIsEmpty'
   BY <1>4 DEF SaveRoom, OneRoomACode, ClosedIsEmpty, Published
 <2> QED BY <2>1, <2>3, <2>4
<1>5. CASE DeleteRoom(k)
 <2>1. StoreTypes'
   BY <1>5 DEF DeleteRoom, StoreTypes, Queue, Idle
 <2>2. /\ \A j \in Code : workers'[j] = IF j = k THEN Idle ELSE workers[j]
       /\ \A j \in Code : retiringRooms'[j] = IF j = k THEN NoRoom ELSE retiringRooms[j]
       /\ queues[k].delete = NoRoom
   BY <1>5 DEF DeleteRoom, StoreTypes, Queue, DeletesRetire
 <2>3. DeletesRetire' /\ SavesAreOfTheOpen'
   BY <1>5, <2>2 DEF DeleteRoom, Idle, DeletesRetire, SavesAreOfTheOpen, Published
 <2>4. OneRoomACode' /\ ClosedIsEmpty'
   BY <1>5, <2>2 DEF DeleteRoom, OneRoomACode, ClosedIsEmpty, Published
 <2> QED BY <2>1, <2>3, <2>4
<1> QED BY <1>1, <1>2, <1>3, <1>4, <1>5 DEF Work

LEMMA ClosingKeepsInv ==
  ASSUME StoreInv, ManagerClosed \/ StoreClosed \/ UNCHANGED storeView
  PROVE  StoreInv'
<1> USE StoreAssumption DEF StoreInv
<1>1. CASE ManagerClosed \/ UNCHANGED storeView
  BY <1>1 DEF ManagerClosed, storeView, storeVars, StoreTypes, Queue, OneRoomACode, DeletesRetire,
              SavesAreOfTheOpen, ClosedIsEmpty, Published
<1>2. CASE StoreClosed
 <2>1. StoreTypes'
   BY <1>2 DEF StoreClosed, ClosePersistence, StoreTypes, Queue
 <2>2. \A k \in Code : /\ queues'[k].delete = queues[k].delete
                       /\ queues'[k].save = NoRoom /\ queues'[k].after = NoRoom
   BY <1>2 DEF StoreClosed, ClosePersistence, StoreTypes, Queue
 <2>3. UNCHANGED << life, workers, retiringRooms >>
   BY <1>2 DEF StoreClosed, ClosePersistence
 <2>4. DeletesRetire'
   BY <2>2, <2>3 DEF DeletesRetire
 <2>5. SavesAreOfTheOpen'
   BY <2>2, <2>3 DEF SavesAreOfTheOpen, Published
 <2>6. OneRoomACode' /\ ClosedIsEmpty'
   BY <1>2 DEF StoreClosed, ClosePersistence, OneRoomACode, ClosedIsEmpty, Published
 <2> QED BY <2>1, <2>4, <2>5, <2>6
<1> QED BY <1>1, <1>2

LEMMA StoreStepKeepsInv ==
  ASSUME StoreInv, StoreStep \/ UNCHANGED storeView
  PROVE  StoreInv'
BY OpeningKeepsInv, DissolvingKeepsInv, QueueingKeepsInv, WorkKeepsInv, ClosingKeepsInv
   DEF StoreStep

-----------------------------------------------------------------------------
(* Every step is one of the register, or leaves it alone.                  *)

LEMMA Fates ==
  ASSUME StoreInv, NEW r \in Room
  PROVE  /\ life[r] = "unused" => Fate(r) = "unborn"
         /\ life[r] = "published" => Fate(r) = "open"
         /\ life[r] = "removed" /\ DeletePending(r) => Fate(r) = "closed"
         /\ life[r] = "removed" /\ ~DeletePending(r) => Fate(r) = "forgotten"
BY DEF Fate

LEMMA FateFollows ==
  ASSUME StoreInv, StoreInv', NEW r \in Room
  PROVE  /\ life'[r] = "published" => Fate(r)' = "open"
         /\ life'[r] = "removed" /\ DeletePending(r)' => Fate(r)' = "closed"
         /\ life'[r] = "removed" /\ ~DeletePending(r)' => Fate(r)' = "forgotten"
         /\ life'[r] = life[r] /\ (DeletePending(r)' <=> DeletePending(r))
              => Fate(r)' = Fate(r)
BY DEF Fate, StoreInv, StoreTypes

\* Rooms keep their fates and the store its records.
Unmoved == (\A r \in Room : Fate(r)' = Fate(r)) /\ UNCHANGED store

LEMMA UnmovedStutters ==
  ASSUME Unmoved PROVE UNCHANGED Register!registerVars
BY DEF Unmoved, Register!registerVars

LEMMA OpenedOpens ==
  ASSUME StoreInv, StoreInv', NEW r \in Room, Opened(r)
  PROVE  Register!Open(r)
<1> USE StoreAssumption
<1>1. \A q \in Room : life'[q] = IF q = r THEN "published" ELSE life[q]
  BY DEF StoreInv, StoreTypes, Opened
<1>2. \A q \in Room : DeletePending(q)' <=> DeletePending(q)
  BY DEF Opened, storeVars, DeletePending
<1>3. \A q \in Room : Fate(q)' = IF q = r THEN "open" ELSE Fate(q)
  BY <1>1, <1>2, FateFollows
<1>4. ASSUME NEW q \in Room, CodeOf[q] = CodeOf[r] PROVE Fate(q) \in {"unborn", "forgotten"}
 <2>1. ~Published(q) /\ retiringRooms[CodeOf[q]] = NoRoom
   BY <1>4 DEF Opened, CodeIsFree, PublishedAs
 <2>2. ~DeletePending(q)
   BY <2>1, PendingRetires
 <2>3. life[q] \in {"unused", "removed"}
   BY <2>1 DEF StoreInv, StoreTypes, Published
 <2> QED BY <2>2, <2>3, Fates
<1>5. Fate(r) = "unborn"
  BY Fates DEF Opened
<1>6. [q \in Room |-> Fate(q)]' = [[q \in Room |-> Fate(q)] EXCEPT ![r] = "open"]
  BY <1>3
<1> QED BY <1>4, <1>5, <1>6 DEF Register!Open, Opened, storeVars

LEMMA DissolvedCloses ==
  ASSUME StoreInv, StoreInv', NEW r \in Room, Dissolved(r)
  PROVE  Register!Close(r)
<1> DEFINE k == CodeOf[r]
<1> USE StoreAssumption
<1>1. \A q \in Room : life'[q] = IF q = r THEN "removed" ELSE life[q]
  BY DEF StoreInv, StoreTypes, Dissolved
<1>2. k \in Code /\ queues[k].delete = NoRoom
  BY DEF StoreInv, OneRoomACode, DeletesRetire, Dissolved
<1>3. queues' = [queues EXCEPT ![k] = WithDelete(@, r)] /\ UNCHANGED workers
  BY DEF StoreInv, ClosedIsEmpty, Dissolved, RetireCode
<1>4. queues'[k].delete = r /\ \A j \in Code : j # k => queues'[j] = queues[j]
  BY <1>2, <1>3 DEF StoreInv, StoreTypes, Queue, WithDelete
<1>5. \A q \in Room : DeletePending(q)' <=> DeletePending(q) \/ q = r
  BY <1>2, <1>3, <1>4 DEF DeletePending
<1>6. \A q \in Room : Fate(q)' = IF q = r THEN "closed" ELSE Fate(q)
  BY <1>1, <1>5, FateFollows
<1>7. Fate(r) = "open"
  BY Fates DEF Dissolved, Published
<1>8. [q \in Room |-> Fate(q)]' = [[q \in Room |-> Fate(q)] EXCEPT ![r] = "closed"]
  BY <1>6
<1> QED BY <1>7, <1>8 DEF Register!Close, Dissolved

LEMMA QueuedStutters ==
  ASSUME StoreInv, NEW r \in Room, SaveQueued(r)
  PROVE  Unmoved
<1> USE StoreAssumption
<1>1. \A j \in Code : queues'[j].delete = queues[j].delete
  BY DEF StoreInv, StoreTypes, Queue, SaveQueued, EnqueueSave, WithSave
<1>2. \A q \in Room : DeletePending(q)' <=> DeletePending(q)
  BY <1>1 DEF SaveQueued, DeletePending
<1> QED BY <1>2 DEF SaveQueued, Unmoved, Fate

LEMMA TakenStutters ==
  ASSUME StoreInv, NEW k \in Code, Worked(k), Take(k)
  PROVE  Unmoved
<1> USE StoreAssumption
<1>1. \A j \in Code : j # k => queues'[j] = queues[j] /\ workers'[j] = workers[j]
  BY DEF Take, StoreInv, StoreTypes
<1>2. workers[k] = Idle
  BY DEF Take
<1>3. ASSUME NEW q \in Room
      PROVE  queues[k].delete = q <=>
               queues'[k].delete = q \/ workers'[k] = [op |-> "delete", room |-> q]
 <2>1. CASE queues[k].delete # NoRoom
  <3>1. workers'[k] = [op |-> "delete", room |-> queues[k].delete]
    BY <2>1 DEF Take, StoreInv, StoreTypes
  <3>2. queues' = [queues EXCEPT ![k] = [queues[k] EXCEPT
           !.delete = NoRoom, !.save = queues[k].after, !.after = NoRoom]]
    BY <2>1 DEF Take
  <3>3. queues'[k].delete = NoRoom
    BY <3>2 DEF StoreInv, StoreTypes, Queue
  <3> QED BY <3>1, <3>3
 <2>2. CASE queues[k].delete = NoRoom
  <3>1. workers'[k].op # "delete"
    BY <2>2 DEF Take, StoreInv, StoreTypes, Idle
  <3>2. queues'[k].delete = NoRoom
    BY <2>2 DEF Take, StoreInv, StoreTypes, Queue, NoQueue
  <3> QED BY <2>2, <3>1, <3>2
 <2> QED BY <2>1, <2>2
<1>4. ASSUME NEW q \in Room PROVE DeletePending(q)' <=> DeletePending(q)
 <2>1. CASE CodeOf[q] # k
   BY <1>1, <2>1 DEF DeletePending
 <2>2. CASE CodeOf[q] = k
  <3>1. ~(workers[k] = [op |-> "delete", room |-> q])
    BY <1>2 DEF Idle
  <3> QED BY <1>3, <2>2, <3>1 DEF DeletePending
 <2> QED BY <2>1, <2>2
<1> QED BY <1>4 DEF Worked, Take, Unmoved, Fate

LEMMA SavedWrites ==
  ASSUME StoreInv, NEW k \in Code, Worked(k), SaveRoom(k)
  PROVE  (\E r \in Room : Register!Write(r)) \/ Unmoved
<1> DEFINE r == workers[k].room
<1> USE StoreAssumption
<1>1. /\ r \in Room /\ CodeOf[r] = k
      /\ Published(r) \/ queues[k].delete = r
  BY DEF SaveRoom, StoreInv, SavesAreOfTheOpen
<1>2. \A q \in Room : DeletePending(q)' <=> DeletePending(q)
  BY DEF SaveRoom, Idle, StoreInv, StoreTypes, DeletePending
<1>3. \A q \in Room : Fate(q)' = Fate(q)
  BY <1>2 DEF Worked, Fate
<1>4. CASE store' = [store EXCEPT ![k] = store[k]]
  BY <1>3, <1>4 DEF Unmoved, StoreInv, StoreTypes
<1>5. CASE store' = [store EXCEPT ![k] = r]
 <2>1. Fate(r) \in {"open", "closed"}
  <3>1. CASE Published(r)
    BY <1>1, <3>1, Fates DEF Published
  <3>2. CASE queues[k].delete = r
   <4>1. life[r] = "removed" /\ DeletePending(r)
     BY <1>1, <3>2, StoreAssumption DEF StoreInv, DeletesRetire, DeletePending
   <4> QED BY <1>1, <4>1, Fates
  <3> QED BY <1>1, <3>1, <3>2
 <2> QED BY <1>1, <1>3, <1>5, <2>1 DEF Register!Write
<1> QED BY <1>4, <1>5 DEF SaveRoom

LEMMA DeletedForgets ==
  ASSUME StoreInv, StoreInv', NEW k \in Code, Worked(k), DeleteRoom(k)
  PROVE  \E r \in Room : Register!Forget(r)
<1> DEFINE r == workers[k].room
<1> USE StoreAssumption
<1>1. /\ r \in Room /\ CodeOf[r] = k /\ life[r] = "removed" /\ queues[k].delete = NoRoom
      /\ workers[k] = [op |-> "delete", room |-> r]
  BY DEF DeleteRoom, StoreInv, StoreTypes, DeletesRetire
<1>2. Fate(r) = "closed"
  BY <1>1, Fates DEF DeletePending
<1>3. \A q \in Room : DeletePending(q)' <=> DeletePending(q) /\ q # r
  BY <1>1 DEF DeleteRoom, Idle, StoreInv, StoreTypes, DeletePending
<1>4. \A q \in Room : Fate(q)' = IF q = r THEN "forgotten" ELSE Fate(q)
  BY <1>1, <1>3, FateFollows DEF Worked
<1>5. [q \in Room |-> Fate(q)]' = [[q \in Room |-> Fate(q)] EXCEPT ![r] = "forgotten"]
  BY <1>4
<1> HIDE DEF r
<1>7. \E kept \in {NoRoom, store[CodeOf[r]]} : store' = [store EXCEPT ![CodeOf[r]] = kept]
  BY <1>1, Zenon DEF DeleteRoom
<1> QED BY <1>1, <1>2, <1>5, <1>7, Zenon DEF Register!Forget

LEMMA ClosingStutters ==
  ASSUME StoreInv, ManagerClosed \/ StoreClosed \/ UNCHANGED storeView
  PROVE  Unmoved
<1>1. CASE ManagerClosed \/ UNCHANGED storeView
  BY <1>1 DEF ManagerClosed, storeView, storeVars, Unmoved, Fate, DeletePending
<1>2. CASE StoreClosed
 <2>1. \A k \in Code : queues'[k].delete = queues[k].delete
   BY <1>2 DEF StoreClosed, ClosePersistence, StoreInv, StoreTypes, Queue
 <2>2. \A q \in Room : DeletePending(q)' <=> DeletePending(q)
   BY <1>2, <2>1, StoreAssumption DEF StoreClosed, ClosePersistence, DeletePending
 <2> QED BY <1>2, <2>2 DEF StoreClosed, ClosePersistence, Unmoved, Fate
<1> QED BY <1>1, <1>2

LEMMA StepsOfTheRegister ==
  ASSUME StoreInv, StoreStep \/ UNCHANGED storeView
  PROVE  [Register!Next]_(Register!registerVars)
<1>1. StoreInv'
  BY StoreStepKeepsInv
<1>2. ASSUME NEW k \in Code, Worked(k) PROVE [Register!Next]_(Register!registerVars)
  BY <1>1, <1>2, TakenStutters, SavedWrites, DeletedForgets, UnmovedStutters
     DEF Worked, Work, Register!Next
<1>3. ASSUME NEW r \in Room, Opened(r) \/ Dissolved(r) \/ SaveQueued(r)
      PROVE  [Register!Next]_(Register!registerVars)
  BY <1>1, <1>3, OpenedOpens, DissolvedCloses, QueuedStutters, UnmovedStutters DEF Register!Next
<1> QED BY <1>2, <1>3, ClosingStutters, UnmovedStutters DEF StoreStep

-----------------------------------------------------------------------------
\* At the start nothing is published, queued or stored.
LEMMA InitHolds ==
  ASSUME RoomsInit
  PROVE  StoreInv /\ TargetsKnown /\ Register!Init
<1> USE StoreAssumption DEF RoomsInit, StoreInit
<1>1. StoreInv
  BY DEF StoreInv, StoreTypes, Queue, NoQueue, Idle, OneRoomACode, DeletesRetire,
         SavesAreOfTheOpen, ClosedIsEmpty, Published
<1>2. TargetsKnown
  BY DEF TargetsKnown
<1>3. \A r \in Room : Fate(r) = "unborn"
  BY DEF Fate
<1> QED BY <1>1, <1>2, <1>3 DEF Register!Init

\* The room manager and its workers (game/room/persistence.go) do what
\* RoomRegister says: one room a code at a time, every write between a room's
\* creation and its being forgotten, whatever was queued before.
THEOREM RoomsImplementRegister == RoomsSpec => Register!Spec
<1>1. RoomsInit => StoreInv /\ TargetsKnown /\ Register!Init
  BY InitHolds
<1>2. StoreInv /\ TargetsKnown /\ [RoomsNext]_roomsVars
        => StoreInv' /\ TargetsKnown' /\ [Register!Next]_(Register!registerVars)
  BY EveryStep, StoreStepKeepsInv, StepsOfTheRegister
<1> QED BY <1>1, <1>2, PTL DEF RoomsSpec, Register!Spec

-----------------------------------------------------------------------------
(* The invariant of rooms, connections and sessions: the types first.      *)

Member == [seat: 0 .. RoomSize, client: Connection \cup {NoClient}, ready: BOOLEAN]

Doing == {"temporary", "idle", "starting", "saving", "leaving", "reporting",
          "recalled", "rebound", "attached", "undone", "gone"}

ConnectionTypes ==
  /\ clients \in [Player -> Connection \cup {NoClient}]
  /\ doing \in [Connection -> Doing]
  /\ clientRoom \in [Connection -> Code \cup {NoCode}]
  /\ sessionRoom \in [Player -> Code \cup {NoCode}]
  /\ recalled \in [Connection -> Code \cup {NoCode}]
  /\ target \in [Connection -> Room \cup {NoRoom}]
  /\ previous \in [Connection -> Connection \cup {NoClient}]
  /\ former \in [Connection -> Connection \cup {NoClient}]

RoomTypes ==
  /\ life \in [Room -> {"unused", "published", "removed"}]
  /\ state \in [Room -> {"Waiting", "Ready", "Playing", "Ended"}]
  /\ players \in [Room -> [Player -> Member]]
  /\ order \in [Room -> Seq(Player)]
  /\ publishing \in [Room -> Connection \cup {NoClient}]
  /\ removals \subseteq Room /\ closed \in BOOLEAN

SessionTypes ==
  /\ games \in [Code -> Room \cup {NoRoom}]
  /\ game \in [Room -> {"none", "starting", "running"}]
  /\ away \in [Room -> SUBSET Player]

Types == ConnectionTypes /\ RoomTypes /\ SessionTypes

LEMMA MemberFacts ==
  /\ NoMember \in Member /\ NoMember.seat = RoomSize /\ NoMember.client = NoClient
  /\ \A c \in Connection, seat \in Seats :
       /\ MemberAt(c, seat) \in Member /\ MemberAt(c, seat) # NoMember
       /\ MemberAt(c, seat).seat = seat /\ MemberAt(c, seat).client = c
  /\ \A m \in Member, x \in Connection \cup {NoClient} :
       /\ [m EXCEPT !.client = x] \in Member
       /\ [m EXCEPT !.client = x].client = x /\ [m EXCEPT !.client = x].seat = m.seat
  /\ \A m \in Member, b \in BOOLEAN :
       /\ [m EXCEPT !.ready = b] \in Member
       /\ [m EXCEPT !.ready = b].client = m.client /\ [m EXCEPT !.ready = b].seat = m.seat
  /\ \A m \in Member : m = [seat |-> m.seat, client |-> m.client, ready |-> m.ready]
BY RoomsAssumption DEF Member, NoMember, MemberAt, Seats

-----------------------------------------------------------------------------
(* The order of play follows the seats.                                    *)

LEMMA Least ==
  ASSUME NEW T \in SUBSET Nat, T # {}
  PROVE  \E x \in T : \A y \in T : x <= y
<1> DEFINE R == OpToRel(<, Nat)
<1>1. IsWellFoundedOn(R, Nat)
  BY NatLessThanWellFounded
<1>2. \A x, y \in Nat : << x, y >> \in R <=> x < y
  BY DEF OpToRel
<1> HIDE DEF R
<1>3. \E x \in T : \A y \in T : ~(<< y, x >> \in R)
  BY <1>1, WFMin, Zenon
<1>4. ASSUME NEW x \in T, \A y \in T : ~(<< y, x >> \in R) PROVE \A y \in T : x <= y
 <2> TAKE y \in T
 <2>1. x \in Nat /\ y \in Nat /\ ~(<< y, x >> \in R)
   BY <1>4
 <2>2. ~(y < x)
   BY <1>2, <2>1
 <2> QED BY <2>1, <2>2
<1> QED BY <1>3, <1>4

SeatAt(r, i) == players[r][order[r][i]].seat

Ordered(r) ==
  /\ Range(order[r]) = Members(r)
  /\ \A p \in Members(r) : players[r][p].seat \in Seats
  /\ \A i, j \in 1 .. Len(order[r]) : i < j => SeatAt(r, i) < SeatAt(r, j)

\* What the order of a room is made of.
LEMMA OrderFacts ==
  ASSUME RoomTypes, NEW r \in Room, Ordered(r)
  PROVE  /\ Len(order[r]) \in Nat
         /\ order[r] \in [1 .. Len(order[r]) -> Members(r)]
         /\ \A i \in 1 .. Len(order[r]) : SeatAt(r, i) \in Seats
         /\ \A p \in Members(r) : \E i \in 1 .. Len(order[r]) : order[r][i] = p
         /\ \A i, j \in 1 .. Len(order[r]) : order[r][i] = order[r][j] => i = j
<1>1. order[r] \in Seq(Player)
  BY DEF RoomTypes
<1>2. Len(order[r]) \in Nat /\ DOMAIN order[r] = 1 .. Len(order[r])
      /\ order[r] = [i \in 1 .. Len(order[r]) |-> order[r][i]]
  BY <1>1
<1>3. \A i \in 1 .. Len(order[r]) : order[r][i] \in Range(order[r])
  BY <1>2 DEF Range
<1>4. \A p \in Range(order[r]) : \E i \in 1 .. Len(order[r]) : order[r][i] = p
  BY <1>2 DEF Range
<1>5. order[r] \in [1 .. Len(order[r]) -> Members(r)]
  BY <1>2, <1>3 DEF Ordered
<1>6. \A i \in 1 .. Len(order[r]) : SeatAt(r, i) \in Seats
  BY <1>5 DEF Ordered, SeatAt
<1>7. ASSUME NEW i \in 1 .. Len(order[r]), NEW j \in 1 .. Len(order[r]), order[r][i] = order[r][j]
      PROVE  i = j
 <2>1. SeatAt(r, i) = SeatAt(r, j) /\ SeatAt(r, i) \in Nat
   BY <1>6, <1>7, RoomsAssumption DEF SeatAt, Seats
 <2>2. ~(i < j) /\ ~(j < i)
   BY <2>1 DEF Ordered
 <2> QED BY <1>2, <2>2
<1> QED BY <1>2, <1>4, <1>5, <1>6, <1>7 DEF Ordered

LEMMA OrderCounts ==
  ASSUME RoomTypes, NEW r \in Room, Ordered(r)
  PROVE  IsFiniteSet(Members(r)) /\ Cardinality(Members(r)) = Len(order[r])
<1> DEFINE n == Len(order[r])
           M == Members(r)
<1>1. /\ n \in Nat /\ order[r] \in [1 .. n -> M]
      /\ \A p \in M : \E i \in 1 .. n : order[r][i] = p
      /\ \A i, j \in 1 .. n : order[r][i] = order[r][j] => i = j
  BY OrderFacts
<1> HIDE DEF n
<1>2. IsFiniteSet(1 .. n) /\ Cardinality(1 .. n) = n
 <2>1. IsFiniteSet(1 .. n) /\ Cardinality(1 .. n) = IF 1 > n THEN 0 ELSE n - 1 + 1
  <3>1. 1 \in Int /\ n \in Int
    BY <1>1
  <3> QED BY <3>1, FS_Interval, Zenon
 <2> QED BY <1>1, <2>1
<1> HIDE DEF M
<1>3. order[r] \in Bijection(1 .. n, M)
  BY <1>1 DEF Bijection, Injection, Surjection, IsInjective
<1>4. ExistsBijection(1 .. n, M)
  BY <1>3 DEF ExistsBijection
<1>5. IsFiniteSet(M) /\ Cardinality(M) = Cardinality(1 .. n)
  BY <1>2, <1>4, FS_Bijection
<1> QED BY <1>2, <1>5 DEF n, M

\* A room that is not full has a seat to give, which nobody has.
LEMMA SeatIsFree ==
  ASSUME RoomTypes, NEW r \in Room, Ordered(r), Cardinality(Members(r)) < RoomSize
  PROVE  /\ NextAvailableSeat(r) \in Seats
         /\ \A p \in Members(r) : players[r][p].seat # NextAvailableSeat(r)
<1> DEFINE M == Members(r)
           T == { seat \in Seats : \A p \in M : players[r][p].seat # seat }
<1>1. Seats = 0 .. RoomSize - 1 /\ RoomSize \in Nat /\ Seats \subseteq Nat
  BY RoomsAssumption DEF Seats
<1>2. T # {}
 <2> SUFFICES ASSUME T = {} PROVE FALSE
   OBVIOUS
 <2> DEFINE f == [seat \in Seats |-> CHOOSE p \in M : players[r][p].seat = seat]
 <2>1. \A seat \in Seats : \E p \in M : players[r][p].seat = seat
   OBVIOUS
 <2>2. \A seat \in Seats : f[seat] \in M /\ players[r][f[seat]].seat = seat
   BY <2>1
 <2>3. f \in Injection(Seats, M)
  <3>1. f \in [Seats -> M]
    BY <2>2
  <3>2. \A a, b \in Seats : f[a] = f[b] => a = b
    BY <2>2
  <3> HIDE DEF f, M
  <3> QED BY <3>1, <3>2 DEF Injection, IsInjective
 <2>4. IsFiniteSet(M)
   BY OrderCounts
 <2> HIDE DEF f, M
 <2>5. Cardinality(Seats) <= Cardinality(M)
   BY <2>3, <2>4, FS_Injection
 <2>6. Cardinality(Seats) = RoomSize
  <3>1. Cardinality(0 .. RoomSize - 1) = IF 0 > RoomSize - 1 THEN 0 ELSE RoomSize - 1 - 0 + 1
    BY <1>1, FS_Interval
  <3> QED BY <1>1, <3>1
 <2>7. Cardinality(M) \in Nat
   BY <2>4, FS_CardinalityType
 <2> QED BY <1>1, <2>5, <2>6, <2>7 DEF M
<1>3. PICK seat \in T : \A y \in T : seat <= y
 <2>1. T \in SUBSET Nat
   BY <1>1
 <2> HIDE DEF T
 <2> QED BY <1>2, <2>1, Least
<1>4. \A lower \in 0 .. seat - 1 : \E p \in M : players[r][p].seat = lower
 <2> SUFFICES ASSUME NEW lower \in 0 .. seat - 1, \A p \in M : players[r][p].seat # lower PROVE FALSE
   OBVIOUS
 <2>1. lower \in Seats
   BY <1>1
 <2>2. lower \in T
   BY <2>1
 <2> QED BY <1>1, <1>3, <2>2
<1>5. seat \in Seats /\ \A p \in M : players[r][p].seat # seat
  OBVIOUS
<1> HIDE DEF T
<1> QED BY <1>4, <1>5 DEF NextAvailableSeat

LEMMA SameInterval ==
  ASSUME NEW m \in Nat, NEW n \in Nat, 1 .. m = 1 .. n
  PROVE  m = n
<1>1. m >= 1 => m \in 1 .. n
  BY SMT
<1>2. n >= 1 => n \in 1 .. m
  BY SMT
<1> QED BY <1>1, <1>2

\* Where insertPlayerOrderLocked puts a member.
LEMMA InsertedAt ==
  ASSUME RoomTypes, NEW r \in Room, Ordered(r), NEW p \in Player, NEW seat \in Seats
  PROVE  \E at \in 1 .. Len(order[r]) + 1 :
           /\ Inserted(r, p, seat) = [i \in 1 .. Len(order[r]) + 1 |->
                IF i < at THEN order[r][i] ELSE IF i = at THEN p ELSE order[r][i - 1]]
           /\ \A i \in 1 .. Len(order[r]) : i < at => SeatAt(r, i) <= seat
           /\ \A i \in 1 .. Len(order[r]) : i >= at => SeatAt(r, i) > seat
<1> DEFINE n == Len(order[r])
           T == { i \in 1 .. n + 1 : i \in 1 .. n => SeatAt(r, i) > seat }
           Chosen(i) == /\ i \in DOMAIN order[r] => players[r][order[r][i]].seat > seat
                        /\ \A j \in 1 .. i - 1 : ~(players[r][order[r][j]].seat > seat)
           at == CHOOSE i \in 1 .. n + 1 : Chosen(i)
<1>1. /\ n \in Nat /\ DOMAIN order[r] = 1 .. n
      /\ \A i \in 1 .. n : SeatAt(r, i) \in Nat
      /\ seat \in Nat
 <2>1. /\ n \in Nat /\ order[r] \in [1 .. n -> Members(r)]
       /\ \A i \in 1 .. n : SeatAt(r, i) \in Seats
   BY OrderFacts
 <2> QED BY <2>1, RoomsAssumption DEF Seats
<1>2. PICK i \in T : \A y \in T : i <= y
 <2>1. T \in SUBSET Nat /\ n + 1 \in T
   BY <1>1
 <2> HIDE DEF T
 <2> QED BY <2>1, Least
<1>3. Chosen(i)
 <2>1. \A j \in 1 .. i - 1 : j \in 1 .. n /\ j \notin T
   BY <1>1, <1>2
 <2>2. \A j \in 1 .. i - 1 : ~(SeatAt(r, j) > seat)
   BY <1>1, <2>1
 <2> QED BY <1>1, <2>2 DEF SeatAt
<1>4. at \in 1 .. n + 1 /\ Chosen(at)
 <2>1. i \in 1 .. n + 1
   BY <1>2
 <2> HIDE DEF Chosen
 <2> QED BY <1>3, <2>1
<1>5. Inserted(r, p, seat) = [j \in 1 .. n + 1 |->
        IF j < at THEN order[r][j] ELSE IF j = at THEN p ELSE order[r][j - 1]]
  BY DEF Inserted
<1> HIDE DEF at
<1>6. \A j \in 1 .. n : j < at => SeatAt(r, j) <= seat
  BY <1>1, <1>4 DEF SeatAt
<1>7. \A j \in 1 .. n : j >= at => SeatAt(r, j) > seat
 <2> SUFFICES ASSUME NEW j \in 1 .. n, j >= at PROVE SeatAt(r, j) > seat
   OBVIOUS
 <2>1. at \in 1 .. n /\ SeatAt(r, at) > seat
   BY <1>1, <1>4 DEF SeatAt
 <2>2. at < j => SeatAt(r, at) < SeatAt(r, j)
   BY <2>1 DEF Ordered
 <2> QED BY <1>1, <2>1, <2>2
<1> QED BY <1>4, <1>5, <1>6, <1>7

\* What the order of play and the seats become when somebody sits down.
LEMMA SittingKeepsOrder ==
  ASSUME RoomTypes, RoomTypes', NEW r \in Room, Ordered(r), NEW p \in Player, p \notin Members(r),
         NEW seat \in Seats, \A q \in Members(r) : players[r][q].seat # seat,
         order'[r] = Inserted(r, p, seat), players'[r][p].seat = seat,
         \A q \in Player : q # p => players'[r][q] = players[r][q]
  PROVE  Ordered(r)' /\ Len(order'[r]) = Len(order[r]) + 1
<1> DEFINE n == Len(order[r])
<1>1. PICK at \in 1 .. n + 1 :
        /\ Inserted(r, p, seat) = [i \in 1 .. n + 1 |->
              IF i < at THEN order[r][i] ELSE IF i = at THEN p ELSE order[r][i - 1]]
        /\ \A i \in 1 .. n : i < at => SeatAt(r, i) <= seat
        /\ \A i \in 1 .. n : i >= at => SeatAt(r, i) > seat
  BY InsertedAt
<1>2. /\ n \in Nat /\ DOMAIN order[r] = 1 .. n /\ Members(r) \subseteq Player
      /\ \A i \in 1 .. n : order[r][i] \in Members(r) /\ SeatAt(r, i) \in Nat
      /\ \A q \in Members(r) : \E i \in 1 .. n : order[r][i] = q
      /\ seat \in Nat /\ seat # RoomSize
 <2>1. /\ n \in Nat /\ order[r] \in [1 .. n -> Members(r)]
       /\ \A i \in 1 .. n : SeatAt(r, i) \in Seats
       /\ \A q \in Members(r) : \E i \in 1 .. n : order[r][i] = q
   BY OrderFacts
 <2> QED BY <2>1, RoomsAssumption DEF Seats, Members
<1>3. \A i \in 1 .. n : i < at => SeatAt(r, i) < seat
  BY <1>1, <1>2 DEF SeatAt
<1>4. order'[r] = [i \in 1 .. n + 1 |->
              IF i < at THEN order[r][i] ELSE IF i = at THEN p ELSE order[r][i - 1]]
  BY <1>1
<1>5. order'[r] \in Seq(Player) /\ Len(order'[r]) = n + 1
 <2>1. order'[r] \in Seq(Player)
   BY DEF RoomTypes
 <2>2. DOMAIN order'[r] = 1 .. n + 1
   BY <1>4
 <2>3. Len(order'[r]) \in Nat /\ DOMAIN order'[r] = 1 .. Len(order'[r])
   BY <2>1
 <2>4. 1 .. Len(order'[r]) = 1 .. n + 1
   BY <2>2, <2>3
 <2>5. n + 1 \in Nat
   BY <1>2
 <2>6. Len(order'[r]) = n + 1
   BY <2>3, <2>4, <2>5, SameInterval, Zenon
 <2> QED BY <2>1, <2>6
<1>6. Members(r)' = Members(r) \cup {p}
 <2>1. players'[r][p] # NoMember
   BY <1>2, MemberFacts
 <2> QED BY <2>1 DEF Members
<1>7. /\ \A i \in 1 .. n + 1 : i < at => order'[r][i] = order[r][i] /\ i \in 1 .. n
      /\ order'[r][at] = p
      /\ \A i \in 1 .. n + 1 : i > at => order'[r][i] = order[r][i - 1] /\ i - 1 \in 1 .. n
  BY <1>2, <1>4
<1>8. \A q \in Members(r) : players'[r][q].seat = players[r][q].seat
  BY <1>2
<1>9. Range(order'[r]) = Members(r)'
 <2>1. DOMAIN order'[r] = 1 .. n + 1
   BY <1>4
 <2>2. ASSUME NEW i \in 1 .. n + 1 PROVE order'[r][i] \in Members(r) \cup {p}
  <3>1. i < at \/ i = at \/ i > at
    BY <1>2
  <3> QED BY <1>2, <1>7, <3>1
 <2>3. \E i \in 1 .. n + 1 : order'[r][i] = p
   BY <1>7
 <2>4. ASSUME NEW q \in Members(r) PROVE \E i \in 1 .. n + 1 : order'[r][i] = q
  <3>1. PICK i \in 1 .. n : order[r][i] = q
    BY <1>2
  <3>2. CASE i < at
   <4>1. i \in 1 .. n + 1
     BY <1>2
   <4>2. order'[r][i] = q
     BY <1>7, <3>1, <3>2, <4>1
   <4> QED BY <4>1, <4>2
  <3>3. CASE i >= at
   <4>1. i + 1 \in 1 .. n + 1 /\ i + 1 > at /\ (i + 1) - 1 = i
     BY <1>2, <3>3
   <4>2. order'[r][i + 1] = q
     BY <1>7, <3>1, <4>1
   <4> QED BY <4>1, <4>2
  <3> QED BY <1>2, <3>2, <3>3, SMTT(30)
 <2> QED BY <1>6, <2>1, <2>2, <2>3, <2>4 DEF Range
<1>10. \A q \in Members(r)' : players'[r][q].seat \in Seats
  BY <1>2, <1>6, <1>8 DEF Ordered
<1>11. /\ \A i \in 1 .. n + 1 : i < at => SeatAt(r, i)' = SeatAt(r, i)
       /\ SeatAt(r, at)' = seat
       /\ \A i \in 1 .. n + 1 : i > at => SeatAt(r, i)' = SeatAt(r, i - 1)
  BY <1>2, <1>7, <1>8 DEF SeatAt
<1>12. ASSUME NEW i \in 1 .. n + 1, NEW j \in 1 .. n + 1, i < j
       PROVE  SeatAt(r, i)' < SeatAt(r, j)'
 <2>1. CASE j < at
   BY <1>2, <1>7, <1>11, <1>12, <2>1 DEF Ordered
 <2>2. CASE j = at
   BY <1>2, <1>3, <1>7, <1>11, <1>12, <2>2
 <2>3. CASE j > at
  <3>1. j - 1 \in 1 .. n /\ SeatAt(r, j)' = SeatAt(r, j - 1) /\ SeatAt(r, j - 1) \in Nat
    BY <1>2, <1>7, <1>11, <2>3
  <3>2. CASE i < at
   <4>1. i \in 1 .. n /\ SeatAt(r, i)' = SeatAt(r, i) /\ SeatAt(r, i) \in Nat
         /\ SeatAt(r, i) < seat
     BY <1>2, <1>3, <1>7, <1>11, <3>2
   <4>2. SeatAt(r, j - 1) > seat
     BY <1>1, <1>2, <2>3, <3>1
   <4> QED BY <1>2, <3>1, <4>1, <4>2
  <3>3. CASE i = at
   <4>2. SeatAt(r, j - 1) > seat
     BY <1>1, <1>2, <2>3, <3>1
   <4> QED BY <1>2, <1>11, <3>1, <3>3, <4>2
  <3>4. CASE i > at
   <4>1. i - 1 \in 1 .. n /\ SeatAt(r, i)' = SeatAt(r, i - 1)
     BY <1>2, <1>7, <1>11, <3>4
   <4>2. SeatAt(r, i - 1) < SeatAt(r, j - 1)
     BY <1>2, <1>12, <3>1, <4>1 DEF Ordered
   <4> QED BY <3>1, <4>1, <4>2
  <3> QED BY <1>2, <3>2, <3>3, <3>4
 <2> QED BY <1>2, <2>1, <2>2, <2>3
<1> QED BY <1>5, <1>9, <1>10, <1>12 DEF Ordered

\* The same when a member gets up (removePlayerLocked).
LEMMA RisingKeepsOrder ==
  ASSUME RoomTypes, RoomTypes', NEW r \in Room, Ordered(r), NEW p \in Members(r),
         order'[r] = Without(r, p), players'[r][p] = NoMember,
         \A q \in Player : q # p => players'[r][q] = players[r][q]
  PROVE  Ordered(r)'
<1> DEFINE n == Len(order[r])
           at == CHOOSE i \in DOMAIN order[r] : order[r][i] = p
<1>1. /\ n \in Nat /\ DOMAIN order[r] = 1 .. n /\ Members(r) \subseteq Player
      /\ order[r] \in [1 .. n -> Members(r)]
      /\ \A i \in 1 .. n : SeatAt(r, i) \in Nat
      /\ \A q \in Members(r) : \E i \in 1 .. n : order[r][i] = q
      /\ \A i, j \in 1 .. n : order[r][i] = order[r][j] => i = j
 <2>1. /\ n \in Nat /\ order[r] \in [1 .. n -> Members(r)]
       /\ \A i \in 1 .. n : SeatAt(r, i) \in Seats
       /\ \A q \in Members(r) : \E i \in 1 .. n : order[r][i] = q
       /\ \A i, j \in 1 .. n : order[r][i] = order[r][j] => i = j
   BY OrderFacts
 <2> QED BY <2>1, RoomsAssumption DEF Seats, Members
<1>2. at \in 1 .. n /\ order[r][at] = p
 <2>1. \E i \in DOMAIN order[r] : order[r][i] = p
   BY <1>1
 <2> QED BY <1>1, <2>1
<1>3. order'[r] = [i \in 1 .. n - 1 |-> order[r][IF i < at THEN i ELSE i + 1]]
  BY DEF Without
<1> HIDE DEF at
<1>4. order'[r] \in Seq(Player) /\ Len(order'[r]) = n - 1
 <2>1. order'[r] \in Seq(Player) /\ Len(order'[r]) \in Nat
   BY DEF RoomTypes
 <2>2. DOMAIN order'[r] = 1 .. n - 1
   BY <1>3
 <2>3. 1 .. Len(order'[r]) = 1 .. n - 1
   BY <2>1, <2>2
 <2>4. n - 1 \in Nat
   BY <1>1, <1>2
 <2>5. Len(order'[r]) = n - 1
   BY <2>1, <2>3, <2>4, SameInterval, Zenon
 <2> QED BY <2>1, <2>5
<1>5. Members(r)' = Members(r) \ {p}
  BY <1>1 DEF Members
<1>6. /\ \A i \in 1 .. n - 1 : i < at => order'[r][i] = order[r][i] /\ i \in 1 .. n
      /\ \A i \in 1 .. n - 1 : i >= at => order'[r][i] = order[r][i + 1] /\ i + 1 \in 1 .. n
  BY <1>1, <1>2, <1>3
<1>7. \A i \in 1 .. n : order[r][i] \in Members(r) /\ (i # at => order[r][i] # p)
  BY <1>1, <1>2
<1>8. \A q \in Members(r) \ {p} : players'[r][q] = players[r][q]
  BY <1>1
<1>9. \A i \in 1 .. n - 1 : order'[r][i] \in Members(r) \ {p}
 <2> SUFFICES ASSUME NEW i \in 1 .. n - 1 PROVE order'[r][i] \in Members(r) \ {p}
   OBVIOUS
 <2>1. CASE i < at
   BY <1>2, <1>6, <1>7, <2>1
 <2>2. CASE i >= at
  <3>1. i + 1 # at
    BY <1>1, <1>2, <2>2
  <3> QED BY <1>6, <1>7, <2>2, <3>1
 <2> QED BY <1>1, <1>2, <2>1, <2>2
<1>10. ASSUME NEW q \in Members(r) \ {p} PROVE \E i \in 1 .. n - 1 : order'[r][i] = q
 <2>1. PICK i \in 1 .. n : order[r][i] = q
   BY <1>1
 <2>2. i # at
   BY <1>2, <2>1
 <2>3. CASE i < at
  <3>1. i \in 1 .. n - 1
    BY <1>1, <1>2, <2>3
  <3> QED BY <1>6, <2>1, <2>3, <3>1
 <2>4. CASE i > at
  <3>1. i - 1 \in 1 .. n - 1 /\ i - 1 >= at /\ (i - 1) + 1 = i
    BY <1>1, <1>2, <2>4
  <3>2. order'[r][i - 1] = q
    BY <1>6, <2>1, <3>1
  <3> QED BY <3>1, <3>2
 <2> QED BY <1>1, <1>2, <2>2, <2>3, <2>4
<1>11. Range(order'[r]) = Members(r)'
 <2>1. DOMAIN order'[r] = 1 .. n - 1
   BY <1>3
 <2> QED BY <1>5, <1>9, <1>10, <2>1 DEF Range
<1>12. \A q \in Members(r)' : players'[r][q].seat \in Seats
  BY <1>5, <1>8 DEF Ordered
<1>13. /\ \A i \in 1 .. n - 1 : i < at => SeatAt(r, i)' = SeatAt(r, i) /\ i \in 1 .. n
       /\ \A i \in 1 .. n - 1 : i >= at => SeatAt(r, i)' = SeatAt(r, i + 1) /\ i + 1 \in 1 .. n
 <2>1. \A i \in 1 .. n - 1 : SeatAt(r, i)' = players[r][order'[r][i]].seat
   BY <1>8, <1>9 DEF SeatAt
 <2> QED BY <1>6, <2>1 DEF SeatAt
<1>14. ASSUME NEW i \in 1 .. n - 1, NEW j \in 1 .. n - 1, i < j
       PROVE  SeatAt(r, i)' < SeatAt(r, j)'
 <2>1. CASE j < at
  <3>1. i < at
    BY <1>1, <1>2, <1>14, <2>1
  <3> QED BY <1>13, <1>14, <2>1, <3>1 DEF Ordered
 <2>2. CASE j >= at /\ i < at
  <3>1. i < j + 1
    BY <1>1, <1>14
  <3> QED BY <1>13, <2>2, <3>1 DEF Ordered
 <2>3. CASE j >= at /\ i >= at
  <3>1. i + 1 < j + 1
    BY <1>1, <1>14
  <3> QED BY <1>13, <2>3, <3>1 DEF Ordered
 <2> QED BY <1>1, <1>2, <2>1, <2>2, <2>3
<1> QED BY <1>4, <1>11, <1>12, <1>14 DEF Ordered

\* A table whose players sit in order and fill it has seats 0, 1, 2.
LEMMA FullTable ==
  ASSUME RoomTypes, NEW r \in Room, Ordered(r), Len(order[r]) = RoomSize
  PROVE  \A i \in 1 .. RoomSize : SeatAt(r, i) = i - 1
<1>1. /\ RoomSize \in Nat
      /\ \A i \in 1 .. RoomSize : SeatAt(r, i) \in Nat /\ SeatAt(r, i) <= RoomSize - 1
      /\ \A i, j \in 1 .. RoomSize : i < j => SeatAt(r, i) < SeatAt(r, j)
 <2>1. \A i \in 1 .. Len(order[r]) : SeatAt(r, i) \in Seats
   BY OrderFacts
 <2>2. RoomSize \in Nat \ {0}
   BY RoomsAssumption
 <2>3. \A i \in 1 .. RoomSize : SeatAt(r, i) \in Nat /\ SeatAt(r, i) <= RoomSize - 1
   BY <2>1, <2>2 DEF Seats
 <2>4. \A i, j \in 1 .. RoomSize : i < j => SeatAt(r, i) < SeatAt(r, j)
   BY DEF Ordered
 <2> QED BY <2>2, <2>3, <2>4
\* The first who sat lower than his place would have had a seat below zero.
<1>2. \A i \in 1 .. RoomSize : SeatAt(r, i) >= i - 1
 <2> DEFINE T == { i \in 1 .. RoomSize : SeatAt(r, i) < i - 1 }
 <2> SUFFICES ASSUME T # {} PROVE FALSE
   BY <1>1, SMTT(30)
 <2>1. PICK i \in T : \A y \in T : i <= y
  <3>1. T \in SUBSET Nat
    BY <1>1
  <3> HIDE DEF T
  <3> QED BY <3>1, Least
 <2>2. i \in 1 .. RoomSize /\ SeatAt(r, i) < i - 1
   OBVIOUS
 <2>3. i - 1 \in 1 .. RoomSize
   BY <1>1, <2>2
 <2>4. SeatAt(r, i - 1) < SeatAt(r, i)
   BY <1>1, <2>2, <2>3
 <2>5. i - 1 \in T
   BY <1>1, <2>2, <2>3, <2>4
 <2> QED BY <1>1, <2>1, <2>2, <2>5
\* The last who sat higher would have had a seat beyond the table.
<1>3. \A i \in 1 .. RoomSize : SeatAt(r, i) <= i - 1
 <2> DEFINE T == { k \in 0 .. RoomSize - 1 : SeatAt(r, RoomSize - k) > RoomSize - k - 1 }
 <2> SUFFICES ASSUME NEW i \in 1 .. RoomSize, SeatAt(r, i) > i - 1 PROVE FALSE
   BY <1>1
 <2>1. RoomSize - i \in T
  <3>1. RoomSize - i \in 0 .. RoomSize - 1 /\ RoomSize - (RoomSize - i) = i
    BY <1>1
  <3> QED BY <3>1
 <2>2. PICK k \in T : \A y \in T : k <= y
  <3>1. 0 .. RoomSize - 1 \subseteq Nat
    BY <1>1
  <3>2. T \in SUBSET Nat
    BY <3>1, Zenon
  <3> HIDE DEF T
  <3> QED BY <2>1, <3>2, Least
 <2>3. k \in 0 .. RoomSize - 1 /\ SeatAt(r, RoomSize - k) > RoomSize - k - 1
   OBVIOUS
 <2>4. k # 0
   BY <1>1, <2>3
 <2>5. /\ k - 1 \in 0 .. RoomSize - 1 /\ RoomSize - k \in 1 .. RoomSize
       /\ RoomSize - (k - 1) \in 1 .. RoomSize /\ RoomSize - k < RoomSize - (k - 1)
   BY <1>1, <2>3, <2>4
 <2>6. SeatAt(r, RoomSize - (k - 1)) > SeatAt(r, RoomSize - k)
   BY <1>1, <2>5
 <2>7. k - 1 \in T
   BY <1>1, <2>3, <2>5, <2>6
 <2> QED BY <2>2, <2>3, <2>7
<1> QED BY <1>1, <1>2, <1>3

-----------------------------------------------------------------------------
(* Types are kept.                                                         *)

LEMMA ConstantFacts ==
  /\ Owner \in [Connection -> Player] /\ First \subseteq Connection
  /\ CodeOf \in [Room -> Code] /\ NoRoom \notin Room
  /\ NoCode \notin Code /\ NoClient \notin Connection /\ RoomSize \in Nat \ {0}
BY StoreAssumption, RoomsAssumption

\* One player of one room is set anew.
LEMMA PlayerSet ==
  ASSUME NEW r \in Room, NEW p \in Player, NEW m \in Member,
         players \in [Room -> [Player -> Member]],
         players' = [players EXCEPT ![r][p] = m]
  PROVE  /\ players' \in [Room -> [Player -> Member]]
         /\ \A s \in Room, q \in Player :
              players'[s][q] = IF s = r /\ q = p THEN m ELSE players[s][q]
OBVIOUS

\* One member's connection changes, and nothing else of rooms' players.
LEMMA ClientSet ==
  ASSUME NEW r \in Room, NEW p \in Player, NEW x \in Connection \cup {NoClient},
         players \in [Room -> [Player -> Member]]
  PROVE  players' = [players EXCEPT ![r][p].client = x] =>
         /\ players' \in [Room -> [Player -> Member]]
         /\ \A s \in Room, q \in Player : players'[s][q].seat = players[s][q].seat
         /\ \A s \in Room, q \in Player :
              players'[s][q].client = IF s = r /\ q = p THEN x ELSE players[s][q].client
<1> DEFINE m == [players[r][p] EXCEPT !.client = x]
<1>0. SUFFICES ASSUME players' = [players EXCEPT ![r][p].client = x]
      PROVE  /\ players' \in [Room -> [Player -> Member]]
             /\ \A s \in Room, q \in Player : players'[s][q].seat = players[s][q].seat
             /\ \A s \in Room, q \in Player :
              players'[s][q].client = IF s = r /\ q = p THEN x ELSE players[s][q].client
  OBVIOUS
<1>1. players[r][p] \in Member
  OBVIOUS
<1>2. m \in Member /\ m.client = x /\ m.seat = players[r][p].seat
  BY <1>1, MemberFacts
<1>3. players' = [players EXCEPT ![r][p] = m]
  BY <1>0
<1> HIDE DEF m
<1>4. /\ players' \in [Room -> [Player -> Member]]
      /\ \A s \in Room, q \in Player :
           players'[s][q] = IF s = r /\ q = p THEN m ELSE players[s][q]
  BY <1>2, <1>3, PlayerSet
<1> QED BY <1>2, <1>4

\* A member's readiness changes.
LEMMA ReadySet ==
  ASSUME NEW r \in Room, NEW p \in Player, NEW b \in BOOLEAN,
         players \in [Room -> [Player -> Member]]
  PROVE  players' = [players EXCEPT ![r] = [players[r] EXCEPT ![p].ready = b]] =>
         /\ players' \in [Room -> [Player -> Member]]
         /\ \A s \in Room, q \in Player : /\ players'[s][q].seat = players[s][q].seat
                                          /\ players'[s][q].client = players[s][q].client
<1> DEFINE m == [players[r][p] EXCEPT !.ready = b]
<1>0. SUFFICES ASSUME players' = [players EXCEPT ![r] = [players[r] EXCEPT ![p].ready = b]]
      PROVE  /\ players' \in [Room -> [Player -> Member]]
             /\ \A s \in Room, q \in Player : /\ players'[s][q].seat = players[s][q].seat
                                          /\ players'[s][q].client = players[s][q].client
  OBVIOUS
<1>1. players[r][p] \in Member
  OBVIOUS
<1>2. m \in Member /\ m.client = players[r][p].client /\ m.seat = players[r][p].seat
  BY <1>1, MemberFacts
<1>3. players' = [players EXCEPT ![r][p] = m]
  BY <1>0
<1> HIDE DEF m
<1>4. /\ players' \in [Room -> [Player -> Member]]
      /\ \A s \in Room, q \in Player :
           players'[s][q] = IF s = r /\ q = p THEN m ELSE players[s][q]
  BY <1>2, <1>3, PlayerSet
<1> QED BY <1>2, <1>4

\* Nobody of a room is ready any more.
LEMMA ReadyReset ==
  ASSUME NEW r \in Room, players \in [Room -> [Player -> Member]],
         players' = [players EXCEPT ![r] =
           [p \in Player |-> [players[r][p] EXCEPT !.ready = FALSE]]]
  PROVE  /\ players' \in [Room -> [Player -> Member]]
         /\ \A s \in Room, q \in Player : /\ players'[s][q].seat = players[s][q].seat
                                          /\ players'[s][q].client = players[s][q].client
<1>1. \A p \in Player : /\ [players[r][p] EXCEPT !.ready = FALSE] \in Member
                        /\ [players[r][p] EXCEPT !.ready = FALSE].seat = players[r][p].seat
                        /\ [players[r][p] EXCEPT !.ready = FALSE].client = players[r][p].client
 <2> TAKE p \in Player
 <2>1. players[r][p] \in Member
   OBVIOUS
 <2> QED BY <2>1, MemberFacts, Zenon
<1> DEFINE f == [p \in Player |-> [players[r][p] EXCEPT !.ready = FALSE]]
<1>2. f \in [Player -> Member] /\ \A p \in Player : /\ f[p].seat = players[r][p].seat
                                                    /\ f[p].client = players[r][p].client
  BY <1>1
<1> HIDE DEF f
<1>3. players' = [players EXCEPT ![r] = f]
  BY DEF f
<1> QED BY <1>2, <1>3

\* A room is dissolved and its members unbound.
LEMMA UnpublishDoes ==
  ASSUME Types, NEW r \in Room, Unpublish(r)
  PROVE  /\ clientRoom' \in [Connection -> Code \cup {NoCode}]
         /\ sessionRoom' \in [Player -> Code \cup {NoCode}]
         /\ life' = [life EXCEPT ![r] = "removed"]
         /\ state' = [state EXCEPT ![r] = "Ended"]
         /\ players' \in [Room -> [Player -> Member]]
         /\ \A s \in Room, q \in Player :
              players'[s][q] = IF s = r THEN NoMember ELSE players[s][q]
         /\ order' = [order EXCEPT ![r] = << >>]
         /\ life' \in [Room -> {"unused", "published", "removed"}]
         /\ state' \in [Room -> {"Waiting", "Ready", "Playing", "Ended"}]
         /\ order' \in [Room -> Seq(Player)]
         /\ \A d \in Connection : clientRoom'[d] =
              IF players[r][Owner[d]].client = d /\ clientRoom[d] = CodeOf[r]
              THEN NoCode ELSE clientRoom[d]
<1> USE DEF Types, Unpublish, Dissolve
<1>1. clientRoom' \in [Connection -> Code \cup {NoCode}]
  BY DEF ConnectionTypes
<1>2. sessionRoom' \in [Player -> Code \cup {NoCode}]
  BY DEF ConnectionTypes
<1>3. /\ players' \in [Room -> [Player -> Member]]
      /\ \A s \in Room, q \in Player :
           players'[s][q] = IF s = r THEN NoMember ELSE players[s][q]
 <2> DEFINE f == [p \in Player |-> NoMember]
 <2>1. f \in [Player -> Member] /\ \A p \in Player : f[p] = NoMember
   BY MemberFacts
 <2> HIDE DEF f
 <2>2. players' = [players EXCEPT ![r] = f]
   BY DEF f
 <2> QED BY <2>1, <2>2 DEF RoomTypes
<1>4. \A d \in Connection : clientRoom'[d] =
        IF players[r][Owner[d]].client = d /\ clientRoom[d] = CodeOf[r]
        THEN NoCode ELSE clientRoom[d]
  OBVIOUS
<1>5. /\ life' \in [Room -> {"unused", "published", "removed"}]
      /\ state' \in [Room -> {"Waiting", "Ready", "Playing", "Ended"}]
  BY DEF RoomTypes
<1>6. order' \in [Room -> Seq(Player)]
  BY EmptySeq DEF RoomTypes
<1> QED BY <1>1, <1>2, <1>3, <1>4, <1>5, <1>6

LEMMA InsertedIsASequence ==
  ASSUME RoomTypes, NEW r \in Room, Ordered(r), NEW p \in Player, NEW seat \in Seats
  PROVE  Inserted(r, p, seat) \in Seq(Player)
<1>1. PICK at \in 1 .. Len(order[r]) + 1 :
        Inserted(r, p, seat) = [i \in 1 .. Len(order[r]) + 1 |->
          IF i < at THEN order[r][i] ELSE IF i = at THEN p ELSE order[r][i - 1]]
  BY InsertedAt
<1>2. /\ Len(order[r]) \in Nat
      /\ \A i \in 1 .. Len(order[r]) : order[r][i] \in Player
  BY DEF RoomTypes
<1>3. Inserted(r, p, seat) \in [1 .. Len(order[r]) + 1 -> Player]
 <2>1. \A i \in 1 .. Len(order[r]) + 1 :
         (IF i < at THEN order[r][i] ELSE IF i = at THEN p ELSE order[r][i - 1]) \in Player
  <3> TAKE i \in 1 .. Len(order[r]) + 1
  <3>1. CASE i < at
    BY <1>2, <3>1
  <3>2. CASE i = at
    BY <3>2
  <3>3. CASE i > at
   <4>1. i - 1 \in 1 .. Len(order[r])
     BY <1>2, <3>3
   <4> QED BY <1>2, <3>3, <4>1
  <3> QED BY <1>2, <3>1, <3>2, <3>3
 <2> QED BY <1>1, <2>1
<1>4. Len(order[r]) + 1 \in Nat
  BY <1>2
<1> QED BY <1>3, <1>4

LEMMA WithoutIsASequence ==
  ASSUME RoomTypes, NEW r \in Room, Ordered(r), NEW p \in Members(r)
  PROVE  Without(r, p) \in Seq(Player)
<1> DEFINE at == CHOOSE i \in DOMAIN order[r] : order[r][i] = p
<1>1. /\ Len(order[r]) \in Nat /\ DOMAIN order[r] = 1 .. Len(order[r])
      /\ \A i \in 1 .. Len(order[r]) : order[r][i] \in Player
  BY DEF RoomTypes
<1>2. at \in 1 .. Len(order[r])
 <2>1. \E i \in 1 .. Len(order[r]) : order[r][i] = p
   BY OrderFacts
 <2> QED BY <1>1, <2>1
<1>3. Without(r, p) = [i \in 1 .. Len(order[r]) - 1 |-> order[r][IF i < at THEN i ELSE i + 1]]
  BY DEF Without
<1> HIDE DEF at
<1>4. Without(r, p) \in [1 .. Len(order[r]) - 1 -> Player]
  BY <1>1, <1>2, <1>3
<1>5. Len(order[r]) - 1 \in Nat
  BY <1>1, <1>2
<1> QED BY <1>4, <1>5

LEMMA CommandKeepsTypes ==
  ASSUME Types, \A r \in Room : Ordered(r), NEW c \in Connection, Command(c)
  PROVE  Types'
<1> USE ConstantFacts DEF Types
<1> DEFINE p == Owner[c]
<1>0. p \in Player
  OBVIOUS
<1>1. ASSUME NEW r \in Room, CreateRoom(c, r) PROVE Types'
 <2> USE <1>1 DEF CreateRoom
 <2>1. ConnectionTypes'
   BY DEF ConnectionTypes, Doing, Bind, ThenSaves, reconnects
 <2>2. players' \in [Room -> [Player -> Member]]
  <3>1. MemberAt(c, 0) \in Member
    BY MemberFacts DEF Seats
  <3> QED BY <3>1, PlayerSet DEF RoomTypes
 <2>3. RoomTypes'
  <3>1. << p >> \in Seq(Player)
    BY <1>0
  <3>2. order' = [order EXCEPT ![r] = << p >>]
    OBVIOUS
  <3> HIDE DEF p
  <3> QED BY <2>2, <3>1, <3>2 DEF RoomTypes
 <2>4. SessionTypes'
   BY DEF SessionTypes, sessions
 <2> QED BY <2>1, <2>3, <2>4
<1>2. ASSUME NEW r \in Room, JoinRoom(c, r) PROVE Types'
 <2> USE <1>2 DEF JoinRoom
 <2> DEFINE seat == NextAvailableSeat(r)
 <2>1. ConnectionTypes'
   BY DEF ConnectionTypes, Doing, Bind, ThenSaves, reconnects
 <2>2. seat \in Seats
   BY SeatIsFree
 <2>3. players' \in [Room -> [Player -> Member]]
  <3>1. MemberAt(c, seat) \in Member
    BY <2>2, MemberFacts
  <3>2. players' = [players EXCEPT ![r][p] = MemberAt(c, seat)]
    OBVIOUS
  <3> QED BY <1>0, <3>1, <3>2, PlayerSet DEF RoomTypes
 <2>4. RoomTypes'
  <3>1. Inserted(r, p, seat) \in Seq(Player)
    BY <1>0, <2>2, InsertedIsASequence
  <3>2. order' = [order EXCEPT ![r] = Inserted(r, p, seat)]
    OBVIOUS
  <3> HIDE DEF p, seat
  <3> QED BY <2>3, <3>1, <3>2 DEF RoomTypes
 <2>5. SessionTypes'
   BY DEF SessionTypes, sessions
 <2> QED BY <2>1, <2>4, <2>5
<1>3. ASSUME NEW r \in Room, LeaveRoom(c, r) PROVE Types'
 <2> USE <1>3 DEF LeaveRoom
 <2>1. CASE Members(r) = {p}
  <3>1. Unpublish(r) /\ removals' = removals \cup {r} /\ UNCHANGED << doing, target >>
    BY <2>1
  <3>2. ConnectionTypes'
    BY <3>1, UnpublishDoes DEF ConnectionTypes, reconnects
  <3>3. RoomTypes'
   <4>1. /\ life' \in [Room -> {"unused", "published", "removed"}]
         /\ state' \in [Room -> {"Waiting", "Ready", "Playing", "Ended"}]
         /\ order' \in [Room -> Seq(Player)]
         /\ players' \in [Room -> [Player -> Member]]
     BY <3>1, UnpublishDoes
   <4>2. removals' \subseteq Room /\ UNCHANGED << publishing, closed >>
     BY <3>1 DEF RoomTypes
   <4> QED BY <4>1, <4>2 DEF RoomTypes
  <3>4. SessionTypes'
    BY DEF SessionTypes, sessions
  <3> QED BY <3>2, <3>3, <3>4
 <2>2. CASE Members(r) # {p}
  <3>1. /\ Bind(c, NoCode)
        /\ players' = [players EXCEPT ![r][p] = NoMember]
        /\ order' = [order EXCEPT ![r] = Without(r, p)]
        /\ ThenSaves(c, r)
        /\ UNCHANGED << life, state, removals >>
    BY <2>2
  <3>2. ConnectionTypes'
    BY <3>1 DEF ConnectionTypes, Doing, Bind, ThenSaves, reconnects
  <3>3. players' \in [Room -> [Player -> Member]]
    BY <1>0, <3>1, MemberFacts, PlayerSet DEF RoomTypes
  <3>4. p \in Members(r)
    BY <1>0, MemberFacts DEF CurrentMember, Members
  <3>5. RoomTypes'
   <4>1. Without(r, p) \in Seq(Player)
     BY <3>4, WithoutIsASequence
   <4> HIDE DEF p
   <4> QED BY <3>1, <3>3, <4>1 DEF RoomTypes
  <3>6. SessionTypes'
    BY DEF SessionTypes, sessions
  <3> QED BY <3>2, <3>5, <3>6
 <2> QED BY <2>1, <2>2
<1>4. ASSUME NEW r \in Room, NEW ready \in BOOLEAN, SetPlayerReady(c, r, ready) PROVE Types'
 <2> USE <1>4 DEF SetPlayerReady
 <2>1. players' \in [Room -> [Player -> Member]]
  <3>1. players' = [players EXCEPT ![r] = [players[r] EXCEPT ![p].ready = ready]]
    OBVIOUS
  <3> QED BY <1>0, <3>1, ReadySet DEF RoomTypes
 <2>2. /\ state' = [state EXCEPT ![r] = "Ready"] \/ state' = state
       /\ game' = [game EXCEPT ![r] = "starting"] \/ game' = game
       /\ doing' = [doing EXCEPT ![c] = "starting"] \/ doing' = doing
       /\ target' = [target EXCEPT ![c] = r] \/ target' = target
   BY Zenon
 <2>3. ConnectionTypes'
   BY <2>2 DEF ConnectionTypes, Doing, reconnects
 <2>4. RoomTypes'
   BY <2>1, <2>2 DEF RoomTypes
 <2>5. SessionTypes'
   BY <2>2 DEF SessionTypes
 <2> QED BY <2>3, <2>4, <2>5
<1>5. CASE Disconnect(c)
 <2>1. ConnectionTypes'
   BY <1>5 DEF Disconnect, ConnectionTypes, Doing, reconnects
 <2> QED BY <1>5, <2>1 DEF Disconnect, RoomTypes, SessionTypes, rooms, sessions
<1>6. CASE RestoreSession(c)
 <2>1. ConnectionTypes'
   BY <1>6 DEF RestoreSession, ConnectionTypes, Doing
 <2> QED BY <1>6, <2>1 DEF RestoreSession, RoomTypes, SessionTypes, rooms, sessions
<1> QED BY <1>1, <1>2, <1>3, <1>4, <1>5, <1>6 DEF Command

\* What a session is told of its room's players.
LEMMA PresenceTold ==
  ASSUME SessionTypes, NEW r \in Room, NEW p \in Player, NEW online \in BOOLEAN
  PROVE  /\ WithPresence(r, p, online) \in [Room -> SUBSET Player]
         /\ \A q \in Room : q # r => WithPresence(r, p, online)[q] = away[q]
         /\ games[CodeOf[r]] = r /\ game[r] = "running" =>
              WithPresence(r, p, online)[r] =
                IF online THEN away[r] \ {p} ELSE away[r] \cup {p}
<1>1. CASE games[CodeOf[r]] # r \/ game[r] # "running"
  BY <1>1 DEF WithPresence, SessionTypes
<1>2. CASE games[CodeOf[r]] = r /\ game[r] = "running"
 <2>1. WithPresence(r, p, online) =
         [away EXCEPT ![r] = IF online THEN away[r] \ {p} ELSE away[r] \cup {p}]
   BY <1>2 DEF WithPresence
 <2>2. away[r] \subseteq Player
   BY DEF SessionTypes
 <2> QED BY <1>2, <2>1, <2>2 DEF SessionTypes
<1> QED BY <1>1, <1>2

LEMMA ProceedKeepsTypes ==
  ASSUME Types, NEW c \in Connection, Proceed(c),
         doing[c] \in {"reporting", "attached"} => target[c] \in Room
  PROVE  Types'
<1> USE ConstantFacts DEF Types
<1> DEFINE p == Owner[c]
<1>0. p \in Player
  OBVIOUS
<1>1. CASE SetGameSession(c)
 <2> USE <1>1 DEF SetGameSession
 <2>1. ConnectionTypes'
   BY DEF ConnectionTypes, Doing, reconnects
 <2>2. RoomTypes'
   BY DEF RoomTypes
 <2>3. SessionTypes'
  <3>1. PICK r \in {target[c]} :
          \/ /\ Locks(r)
             /\ games' = [games EXCEPT ![CodeOf[r]] = r]
             /\ away' = [away EXCEPT ![r] = OfflineMembers(r)]
             /\ game' = [q \in Room |-> IF q \in Replaced(r) THEN "none"
                                        ELSE IF q = r THEN "running" ELSE game[q]]
             /\ state' = [state EXCEPT ![r] = "Playing"]
          \/ /\ ~Published(r)
             /\ game' = [game EXCEPT ![r] = "none"]
             /\ UNCHANGED << games, away, state >>
    BY Zenon
  <3>2. OfflineMembers(r) \subseteq Player
    BY DEF OfflineMembers, Members
  <3>3. r \in Room \/ r = NoRoom
    BY DEF ConnectionTypes
  <3>4. game' \in [Room -> {"none", "starting", "running"}]
    BY <3>1 DEF SessionTypes
  <3>5. away' \in [Room -> SUBSET Player]
    BY <3>1, <3>2 DEF SessionTypes
  <3>6. games' \in [Code -> Room \cup {NoRoom}]
    BY <3>1, <3>3 DEF SessionTypes
  <3> QED BY <3>4, <3>5, <3>6 DEF SessionTypes
 <2> QED BY <2>1, <2>2, <2>3
<1>2. CASE PersistRoom(c)
  BY <1>2 DEF PersistRoom, ConnectionTypes, Doing, RoomTypes, SessionTypes, reconnects, rooms, sessions
<1>3. CASE NotifyPlayerOffline(c)
 <2>1. CASE /\ doing' = [doing EXCEPT ![c] = "gone"]
            /\ clientRoom' = [clientRoom EXCEPT ![c] = NoCode]
            /\ UNCHANGED << sessionRoom, target, life, state, players, order, publishing >>
   BY <1>3, <2>1 DEF NotifyPlayerOffline, ConnectionTypes, Doing, RoomTypes, SessionTypes,
                     reconnects, sessions
 <2>2. ASSUME NEW r \in Room, Unpublish(r),
              publishing' = [publishing EXCEPT ![r] = c], target' = [target EXCEPT ![c] = r],
              doing' = [doing EXCEPT ![c] = "reporting"]
       PROVE  Types'
  <3>1. ConnectionTypes'
    BY <1>3, <2>2, UnpublishDoes DEF NotifyPlayerOffline, ConnectionTypes, Doing, reconnects
  <3>2. RoomTypes'
   <4>1. /\ life' \in [Room -> {"unused", "published", "removed"}]
         /\ state' \in [Room -> {"Waiting", "Ready", "Playing", "Ended"}]
         /\ order' \in [Room -> Seq(Player)]
         /\ players' \in [Room -> [Player -> Member]]
     BY <2>2, UnpublishDoes
   <4>2. UNCHANGED << removals, closed >>
     BY <1>3 DEF NotifyPlayerOffline
   <4>3. publishing' \in [Room -> Connection \cup {NoClient}]
     BY <2>2 DEF RoomTypes
   <4> QED BY <4>1, <4>2, <4>3 DEF RoomTypes
  <3>3. SessionTypes'
    BY <1>3 DEF NotifyPlayerOffline, SessionTypes, sessions
  <3> QED BY <3>1, <3>2, <3>3
 <2>3. ASSUME NEW r \in Room, players' = [players EXCEPT ![r][p].client = NoClient],
              UNCHANGED << clientRoom, sessionRoom, life, state, order >>,
              publishing' = [publishing EXCEPT ![r] = c], target' = [target EXCEPT ![c] = r],
              doing' = [doing EXCEPT ![c] = "reporting"]
       PROVE  Types'
  <3>1. ConnectionTypes'
    BY <1>3, <2>3 DEF NotifyPlayerOffline, ConnectionTypes, Doing, reconnects
  <3>2. players' \in [Room -> [Player -> Member]]
    BY <1>0, <2>3, ClientSet DEF RoomTypes
  <3>3. RoomTypes'
    BY <1>3, <2>3, <3>2 DEF NotifyPlayerOffline, RoomTypes
  <3>4. SessionTypes'
    BY <1>3 DEF NotifyPlayerOffline, SessionTypes, sessions
  <3> QED BY <3>1, <3>3, <3>4
 <2> HIDE DEF p
 <2>4. \/ /\ doing' = [doing EXCEPT ![c] = "gone"]
          /\ clientRoom' = [clientRoom EXCEPT ![c] = NoCode]
          /\ UNCHANGED << sessionRoom, target, life, state, players, order, publishing >>
       \/ \E r \in Room :
            /\ \/ Unpublish(r)
               \/ /\ players' = [players EXCEPT ![r][p].client = NoClient]
                  /\ UNCHANGED << clientRoom, sessionRoom, life, state, order >>
            /\ publishing' = [publishing EXCEPT ![r] = c]
            /\ target' = [target EXCEPT ![c] = r]
            /\ doing' = [doing EXCEPT ![c] = "reporting"]
   BY <1>3, Zenon DEF NotifyPlayerOffline, PublishedAs, p
 <2> QED BY <2>1, <2>2, <2>3, <2>4, Zenon
<1>4. CASE ReportOffline(c)
 <2> USE <1>4 DEF ReportOffline
 <2>1. ConnectionTypes'
   BY DEF ConnectionTypes, Doing, reconnects
 <2>2. PICK r \in Room :
         /\ away' = WithPresence(r, p, FALSE)
         /\ publishing' = [publishing EXCEPT ![r] = NoClient]
         /\ removals' = IF Published(r) THEN removals ELSE removals \cup {r}
   OBVIOUS
 <2>3. RoomTypes'
   BY <2>2 DEF RoomTypes
 <2>4. away' \in [Room -> SUBSET Player]
   BY <1>0, <2>2, PresenceTold
 <2> QED BY <2>1, <2>3, <2>4 DEF SessionTypes
<1>5. CASE RebindClient(c)
  BY <1>5 DEF RebindClient, ConnectionTypes, Doing, RoomTypes, SessionTypes, rooms, sessions
<1>6. CASE ReconnectPlayer(c)
 <2> USE <1>6 DEF ReconnectPlayer
 <2>1. PICK r \in Room :
         /\ former' = [former EXCEPT ![c] = players[r][p].client]
         /\ AttachClient(r, c)
         /\ publishing' = [publishing EXCEPT ![r] = c]
         /\ target' = [target EXCEPT ![c] = r]
   BY DEF Restorable, PublishedAs
 <2>2. ConnectionTypes'
  <3>1. players[r][p].client \in Connection \cup {NoClient}
    BY <1>0 DEF RoomTypes, Member
  <3>2. former' \in [Connection -> Connection \cup {NoClient}]
    BY <2>1, <3>1 DEF ConnectionTypes
  <3> QED BY <2>1, <3>2 DEF ConnectionTypes, Doing, Bind
 <2>3. players' \in [Room -> [Player -> Member]]
   BY <1>0, <2>1, ClientSet DEF RoomTypes, AttachClient
 <2>4. RoomTypes'
   BY <2>1, <2>3 DEF RoomTypes
 <2> QED BY <2>2, <2>4 DEF SessionTypes, sessions
<1>7. CASE ReconnectRoomless(c)
 <2>1. ConnectionTypes'
   BY <1>7 DEF ReconnectRoomless, Finish, Bind, ConnectionTypes, Doing
 <2> QED BY <1>7, <2>1 DEF ReconnectRoomless, RoomTypes, SessionTypes, rooms, sessions
<1>8. CASE DeliverSnapshot(c)
 <2> USE <1>8 DEF DeliverSnapshot
 <2> DEFINE r == target[c]
 <2>1. r \in Room /\ former[c] \in Connection \cup {NoClient}
   BY DEF ConnectionTypes
 <2>2. /\ publishing' = [publishing EXCEPT ![r] = NoClient]
       /\ target' = [target EXCEPT ![c] = NoRoom]
       /\ former' = [former EXCEPT ![c] = NoClient]
       /\ UNCHANGED << clients, clientRoom, sessionRoom, recalled, life, state, order,
                       removals, closed, games, game >>
   OBVIOUS
 <2>3. \/ /\ away' = WithPresence(r, p, TRUE)
          /\ previous' = [previous EXCEPT ![c] = NoClient]
          /\ doing' = [doing EXCEPT ![c] = "idle"]
          /\ UNCHANGED players
       \/ /\ players' = [players EXCEPT ![r][p].client = former[c]]
          /\ doing' = [doing EXCEPT ![c] = "undone"]
          /\ UNCHANGED << previous, away >>
   BY DEF RoomRolledBack, Finish
 <2> HIDE <1>8 DEF DeliverSnapshot, r, p
 <2>4. ConnectionTypes'
   BY <2>2, <2>3 DEF ConnectionTypes, Doing
 <2>5. players' \in [Room -> [Player -> Member]]
   BY <1>0, <2>1, <2>3, ClientSet DEF RoomTypes
 <2>6. RoomTypes'
   BY <2>2, <2>5 DEF RoomTypes
 <2>7. away' \in [Room -> SUBSET Player]
  <3>1. WithPresence(r, p, TRUE) \in [Room -> SUBSET Player]
    BY <1>0, <2>1, PresenceTold
  <3> QED BY <2>3, <3>1 DEF SessionTypes
 <2> QED BY <2>2, <2>4, <2>6, <2>7 DEF SessionTypes
<1>9. CASE RollbackRebindClient(c)
  BY <1>9 DEF RollbackRebindClient, ConnectionTypes, Doing, RoomTypes, SessionTypes, rooms, sessions
<1> QED BY <1>1, <1>2, <1>3, <1>4, <1>5, <1>6, <1>7, <1>8, <1>9 DEF Proceed

LEMMA ManagerKeepsTypes ==
  ASSUME Types, (\E r \in Room : Manage(r)) \/ (\E k \in Code : Persist(k)) \/ Close \/ CloseStore
                  \/ UNCHANGED roomsVars
  PROVE  Types'
<1> USE ConstantFacts DEF Types
<1>1. ASSUME NEW r \in Room, GameOver(r) PROVE Types'
 <2>1. players' \in [Room -> [Player -> Member]]
   BY <1>1, ReadyReset DEF GameOver, RoomTypes
 <2>2. ConnectionTypes'
   BY <1>1 DEF GameOver, ConnectionTypes, connections, reconnects
 <2>3. RoomTypes'
   BY <1>1, <2>1 DEF GameOver, RoomTypes
 <2>4. SessionTypes'
   BY <1>1 DEF GameOver, SessionTypes
 <2> QED BY <2>2, <2>3, <2>4
<1>2. ASSUME NEW r \in Room, RemoveIdleRoom(r) PROVE Types'
 <2>1. Unpublish(r)
   BY <1>2 DEF RemoveIdleRoom
 <2>2. ConnectionTypes'
   BY <1>2, <2>1, UnpublishDoes DEF RemoveIdleRoom, ConnectionTypes, reconnects
 <2>3. RoomTypes'
  <3>1. /\ life' \in [Room -> {"unused", "published", "removed"}]
        /\ state' \in [Room -> {"Waiting", "Ready", "Playing", "Ended"}]
        /\ order' \in [Room -> Seq(Player)]
        /\ players' \in [Room -> [Player -> Member]]
    BY <2>1, UnpublishDoes
  <3>2. removals' \subseteq Room /\ UNCHANGED << publishing, closed >>
    BY <1>2 DEF RemoveIdleRoom, RoomTypes
  <3> QED BY <3>1, <3>2 DEF RoomTypes
 <2>4. SessionTypes'
   BY <1>2 DEF RemoveIdleRoom, SessionTypes, sessions
 <2> QED BY <2>2, <2>3, <2>4
<1>3. ASSUME NEW r \in Room, HandleRoomRemoved(r) PROVE Types'
 <2>1. ConnectionTypes'
   BY <1>3 DEF HandleRoomRemoved, ConnectionTypes, connections, reconnects
 <2>2. RoomTypes'
   BY <1>3 DEF HandleRoomRemoved, RoomTypes
 <2>3. SessionTypes'
   BY <1>3 DEF HandleRoomRemoved, SessionTypes, Registers
 <2> QED BY <2>1, <2>2, <2>3
<1>4. CASE (\E k \in Code : Persist(k)) \/ CloseStore \/ UNCHANGED roomsVars
  BY <1>4 DEF Persist, CloseStore, roomsVars, connections, rooms, sessions, reconnects,
              ConnectionTypes, RoomTypes, SessionTypes
<1>5. CASE Close
  BY <1>5 DEF Close, connections, sessions, reconnects, ConnectionTypes, RoomTypes, SessionTypes
<1> QED BY <1>1, <1>2, <1>3, <1>4, <1>5 DEF Manage

-----------------------------------------------------------------------------
(* Rooms and their games.                                                  *)

Lives ==
  \A r \in Room :
    /\ ~Published(r) => state[r] \in {"Waiting", "Ended"}
    /\ life[r] = "unused" => /\ state[r] = "Waiting" /\ game[r] = "none"
                             /\ publishing[r] = NoClient
    /\ r \in removals => life[r] = "removed"

\* A room that is ready waits for the one handler that starts its game; one
\* that plays has its game.
Starts ==
  /\ \A r \in Room : Published(r) =>
       /\ state[r] = "Ready" => game[r] = "starting"
       /\ state[r] = "Playing" <=> game[r] = "running"
  /\ \A c \in Connection : doing[c] = "starting" =>
       /\ target[c] \in Room /\ life[target[c]] # "unused"
       /\ Published(target[c]) => state[target[c]] = "Ready"
  /\ \A c, d \in Connection :
       doing[c] = "starting" /\ doing[d] = "starting" /\ target[c] = target[d] => c = d

\* publishMu is held between two steps by the handler that will release it;
\* nobody else removes the room meanwhile.
Publishes ==
  /\ \A r \in Room : publishing[r] # NoClient =>
       doing[publishing[r]] \in {"reporting", "attached"} /\ target[publishing[r]] = r
  /\ \A c \in Connection : doing[c] \in {"reporting", "attached"} =>
       target[c] \in Room /\ publishing[target[c]] = c
  /\ \A c \in Connection : doing[c] = "attached" => Published(target[c])

\* A running game is the one that is registered under its room's code.
Registered ==
  /\ \A r \in Room : game[r] = "running" =>
       /\ games[CodeOf[r]] = r
       /\ Published(r) \/ r \in removals \/ publishing[r] # NoClient
  /\ \A k \in Code : games[k] # NoRoom => CodeOf[games[k]] = k

GamesInv == Lives /\ Starts /\ Publishes /\ Registered

gamesView == << life, state, game, games, removals, publishing, doing, target >>

\* Handlers that hold a room's publishMu or have its game to start.
Busy == {"starting", "reporting", "attached"}

OthersStay(c) ==
  \A d \in Connection : d # c => doing'[d] = doing[d] /\ target'[d] = target[d]

\* A handler goes on, and neither was nor gets busy with a room.
Moves(c) ==
  /\ doing[c] \notin Busy /\ doing'[c] \notin Busy /\ OthersStay(c)
  /\ UNCHANGED << life, state, game, games, removals, publishing >>

\* A new room.
Opens(c, r) ==
  /\ doing[c] \notin Busy /\ doing'[c] \notin Busy /\ OthersStay(c) /\ life[r] = "unused"
  /\ life' = [life EXCEPT ![r] = "published"]
  /\ UNCHANGED << state, game, games, removals, publishing >>

\* A room goes, and the removal is to be dispatched.
Removes(r) ==
  /\ Locks(r)
  /\ life' = [life EXCEPT ![r] = "removed"] /\ state' = [state EXCEPT ![r] = "Ended"]
  /\ removals' = removals \cup {r}
  /\ UNCHANGED << game, games, publishing, doing, target >>

\* Everybody is ready.
Readies(c, r) ==
  /\ Locks(r) /\ state[r] = "Waiting" /\ doing[c] \notin Busy
  /\ state' = [state EXCEPT ![r] = "Ready"] /\ game' = [game EXCEPT ![r] = "starting"]
  /\ doing'[c] = "starting" /\ target'[c] = r /\ OthersStay(c)
  /\ UNCHANGED << life, games, removals, publishing >>

\* The game starts, or its room has gone.
Plays(c, r) ==
  /\ doing[c] = "starting" /\ target[c] = r /\ Locks(r)
  /\ games' = [games EXCEPT ![CodeOf[r]] = r]
  /\ game' = [q \in Room |-> IF q \in Replaced(r) THEN "none"
                             ELSE IF q = r THEN "running" ELSE game[q]]
  /\ state' = [state EXCEPT ![r] = "Playing"]
  /\ doing'[c] = "saving" /\ OthersStay(c)
  /\ UNCHANGED << life, removals, publishing >>

Retires(c, r) ==
  /\ doing[c] = "starting" /\ target[c] = r /\ ~Published(r)
  /\ game' = [game EXCEPT ![r] = "none"]
  /\ doing'[c] = "saving" /\ OthersStay(c)
  /\ UNCHANGED << life, state, games, removals, publishing >>

\* A handler takes a room's publishMu for more than a step; the room may go.
Holds(c, r) ==
  /\ doing[c] \notin Busy /\ Locks(r) /\ OthersStay(c) /\ target'[c] = r
  /\ publishing' = [publishing EXCEPT ![r] = c]
  /\ \/ doing'[c] \in {"reporting", "attached"} /\ UNCHANGED << life, state >>
     \/ /\ doing'[c] = "reporting" /\ life' = [life EXCEPT ![r] = "removed"]
        /\ state' = [state EXCEPT ![r] = "Ended"]
  /\ UNCHANGED << game, games, removals >>

\* And gives it back.
Releases(c, r) ==
  /\ doing[c] \in {"reporting", "attached"} /\ target[c] = r
  /\ doing'[c] \notin Busy /\ OthersStay(c)
  /\ publishing' = [publishing EXCEPT ![r] = NoClient]
  /\ removals' = IF Published(r) THEN removals ELSE removals \cup {r}
  /\ UNCHANGED << life, state, game, games >>

Ends(r) ==
  /\ game[r] = "running" /\ game' = [game EXCEPT ![r] = "none"]
  /\ state' = [state EXCEPT ![r] = "Waiting"]
  /\ UNCHANGED << life, games, removals, publishing, doing, target >>

Dispatches(r) ==
  /\ r \in removals /\ removals' = removals \ {r}
  /\ \/ /\ games[CodeOf[r]] = r /\ game' = [game EXCEPT ![r] = "none"]
        /\ games' = [games EXCEPT ![CodeOf[r]] = NoRoom]
     \/ games[CodeOf[r]] # r /\ UNCHANGED << game, games >>
  /\ UNCHANGED << life, state, publishing, doing, target >>

GamesStep ==
  \/ \E c \in Connection : Moves(c)
  \/ \E c \in Connection, r \in Room :
       Opens(c, r) \/ Readies(c, r) \/ Plays(c, r) \/ Retires(c, r) \/ Holds(c, r) \/ Releases(c, r)
  \/ \E r \in Room : Removes(r) \/ Ends(r) \/ Dispatches(r)
  \/ UNCHANGED gamesView

LEMMA GamesStepTaken ==
  ASSUME Types, GamesInv, [RoomsNext]_roomsVars
  PROVE  GamesStep
<1> USE ConstantFacts DEF Types
<1>1. ASSUME NEW c \in Connection, NEW r \in Room, CreateRoom(c, r) PROVE Opens(c, r)
  BY <1>1 DEF CreateRoom, ThenSaves, Opens, OthersStay, Busy, ConnectionTypes, sessions
<1>2. ASSUME NEW c \in Connection, NEW r \in Room, JoinRoom(c, r) PROVE Moves(c)
  BY <1>2 DEF JoinRoom, ThenSaves, Moves, OthersStay, Busy, ConnectionTypes, sessions
<1>3. ASSUME NEW c \in Connection, NEW r \in Room, LeaveRoom(c, r) PROVE Moves(c) \/ Removes(r)
 <2>1. CASE Members(r) = {Owner[c]}
  <3>1. Removes(r)
    BY <1>3, <2>1 DEF LeaveRoom, Unpublish, Dissolve, Removes, sessions
  <3> QED BY <3>1
 <2>2. CASE Members(r) # {Owner[c]}
   BY <1>3, <2>2 DEF LeaveRoom, CurrentMember, ThenSaves, Moves, OthersStay, Busy, ConnectionTypes,
                     sessions
 <2> QED BY <2>1, <2>2
<1>4. ASSUME NEW c \in Connection, NEW r \in Room, NEW ready \in BOOLEAN, SetPlayerReady(c, r, ready)
      PROVE  UNCHANGED gamesView \/ Readies(c, r)
  BY <1>4 DEF SetPlayerReady, CurrentMember, Readies, OthersStay, Busy, ConnectionTypes, gamesView
<1>5. ASSUME NEW c \in Connection, Disconnect(c) \/ RestoreSession(c) \/ PersistRoom(c)
                                     \/ RebindClient(c) \/ ReconnectRoomless(c) \/ RollbackRebindClient(c)
      PROVE  Moves(c)
  BY <1>5 DEF Disconnect, RestoreSession, PersistRoom, RebindClient, ReconnectRoomless, Finish,
              RollbackRebindClient, Moves, OthersStay, Busy, ConnectionTypes, rooms, sessions
<1>6. ASSUME NEW c \in Connection, SetGameSession(c)
      PROVE  Plays(c, target[c]) \/ Retires(c, target[c])
  BY <1>6 DEF SetGameSession, Plays, Retires, OthersStay, ConnectionTypes
<1>7. ASSUME NEW c \in Connection, NotifyPlayerOffline(c)
      PROVE  Moves(c) \/ \E r \in Room : Holds(c, r)
 <2> USE <1>7 DEF NotifyPlayerOffline
 <2>1. CASE doing' = [doing EXCEPT ![c] = "gone"] /\ UNCHANGED << target, life, state, publishing >>
   BY <2>1 DEF Moves, OthersStay, Busy, ConnectionTypes, sessions
 <2>2. ASSUME NEW r \in Room, Locks(r), target' = [target EXCEPT ![c] = r],
              publishing' = [publishing EXCEPT ![r] = c], doing' = [doing EXCEPT ![c] = "reporting"],
              Unpublish(r) \/ UNCHANGED << life, state >>
       PROVE  Holds(c, r)
   BY <2>2 DEF Holds, OthersStay, Busy, ConnectionTypes, sessions, Unpublish, Dissolve
 <2>3. \/ doing' = [doing EXCEPT ![c] = "gone"] /\ UNCHANGED << target, life, state, publishing >>
       \/ \E r \in Room :
            /\ Locks(r) /\ target' = [target EXCEPT ![c] = r]
            /\ publishing' = [publishing EXCEPT ![r] = c] /\ doing' = [doing EXCEPT ![c] = "reporting"]
            /\ Unpublish(r) \/ UNCHANGED << life, state >>
   BY Zenon DEF PublishedAs
 <2> QED BY <2>1, <2>2, <2>3, Zenon
<1>8. ASSUME NEW c \in Connection, ReportOffline(c) PROVE Releases(c, target[c])
  BY <1>8 DEF ReportOffline, Releases, OthersStay, Busy, ConnectionTypes
<1>9. ASSUME NEW c \in Connection, ReconnectPlayer(c) PROVE \E r \in Room : Holds(c, r)
  BY <1>9 DEF ReconnectPlayer, Restorable, PublishedAs, Holds, OthersStay, Busy, ConnectionTypes, sessions
<1>10. ASSUME NEW c \in Connection, DeliverSnapshot(c) PROVE Releases(c, target[c])
 <2>1. /\ doing[c] = "attached" /\ Published(target[c])
       /\ publishing' = [publishing EXCEPT ![target[c]] = NoClient]
       /\ target' = [target EXCEPT ![c] = NoRoom]
       /\ doing' = [doing EXCEPT ![c] = "idle"] \/ doing' = [doing EXCEPT ![c] = "undone"]
       /\ UNCHANGED << life, state, removals, games, game >>
   BY <1>10 DEF DeliverSnapshot, Finish, GamesInv, Publishes
 <2> QED BY <2>1 DEF Releases, OthersStay, Busy, ConnectionTypes
<1>11. ASSUME NEW r \in Room, GameOver(r) PROVE Ends(r)
  BY <1>11 DEF GameOver, Ends, connections
<1>12. ASSUME NEW r \in Room, RemoveIdleRoom(r) PROVE Removes(r)
  BY <1>12 DEF RemoveIdleRoom, Unpublish, Dissolve, Removes, sessions
<1>13. ASSUME NEW r \in Room, HandleRoomRemoved(r) PROVE Dispatches(r)
  BY <1>13 DEF HandleRoomRemoved, Registers, Dispatches, connections
<1>14. CASE (\E k \in Code : Persist(k)) \/ Close \/ CloseStore \/ UNCHANGED roomsVars
 <2>1. UNCHANGED gamesView
   BY <1>14 DEF Persist, Close, CloseStore, roomsVars, connections, rooms, sessions, gamesView
 <2> QED BY <2>1 DEF GamesStep
<1>15. \A c \in Connection : doing[c] \in {"starting", "reporting", "attached"} => target[c] \in Room
  BY DEF GamesInv, Starts, Publishes
<1>16. ASSUME NEW c \in Connection, SetGameSession(c) \/ ReportOffline(c) \/ DeliverSnapshot(c)
       PROVE  target[c] \in Room
  BY <1>15, <1>16 DEF SetGameSession, ReportOffline, DeliverSnapshot
<1>17. ASSUME NEW c \in Connection, Command(c) PROVE GamesStep
  BY <1>1, <1>2, <1>3, <1>4, <1>5, <1>17, Zenon DEF Command, GamesStep
<1>18. ASSUME NEW c \in Connection, Proceed(c) PROVE GamesStep
  BY <1>5, <1>6, <1>7, <1>8, <1>9, <1>10, <1>16, <1>18, Zenon DEF Proceed, GamesStep
<1>19. ASSUME NEW r \in Room, Manage(r) PROVE GamesStep
  BY <1>11, <1>12, <1>13, <1>19, Zenon DEF Manage, GamesStep
<1> QED BY <1>14, <1>17, <1>18, <1>19, Zenon DEF RoomsNext, GamesStep

LEMMA HoldersAreConnections ==
  ASSUME Types
  PROVE  \A r \in Room : publishing[r] # NoClient => publishing[r] \in Connection
BY DEF Types, RoomTypes

\* publishMu is not touched by a handler that does not hold it.
LEMMA PublishesStays ==
  ASSUME Types, Publishes, NEW c \in Connection, OthersStay(c), UNCHANGED publishing,
         doing[c] \notin {"reporting", "attached"}, doing'[c] \notin {"reporting", "attached"},
         \A r \in Room : Published(r) => life'[r] = "published"
  PROVE  Publishes'
<1> USE DEF OthersStay
<1>1. ASSUME NEW r \in Room, publishing'[r] # NoClient
      PROVE  doing'[publishing'[r]] \in {"reporting", "attached"} /\ target'[publishing'[r]] = r
 <2> DEFINE d == publishing[r]
 <2>1. d \in Connection /\ doing[d] \in {"reporting", "attached"} /\ target[d] = r
   BY <1>1, HoldersAreConnections DEF Publishes
 <2>2. d # c
   BY <2>1
 <2>3. publishing'[r] = d /\ doing'[d] = doing[d] /\ target'[d] = target[d]
   BY <2>1, <2>2
 <2> QED BY <2>1, <2>3
<1>2. ASSUME NEW d \in Connection, doing'[d] \in {"reporting", "attached"}
      PROVE  /\ target'[d] \in Room /\ publishing'[target'[d]] = d
             /\ doing'[d] = "attached" => life'[target'[d]] = "published"
  BY <1>2 DEF Publishes
<1> QED BY <1>1, <1>2 DEF Publishes, Published

LEMMA GamesStepKeepsInv ==
  ASSUME Types, Types', OneRoomACode, GamesInv, GamesStep
  PROVE  GamesInv'
<1> USE ConstantFacts DEF Types, GamesInv
<1>1. ASSUME NEW c \in Connection, Moves(c) PROVE GamesInv'
 <2> USE <1>1 DEF Moves, OthersStay, Busy
 <2>1. Lives' /\ Registered'
   BY DEF Lives, Registered, Published
 <2>2. Starts'
   BY DEF Starts, Published
 <2>3. Publishes'
   BY PublishesStays DEF Published
 <2> QED BY <2>1, <2>2, <2>3
<1>2. ASSUME NEW c \in Connection, NEW r \in Room, Opens(c, r) PROVE GamesInv'
 <2> USE <1>2 DEF Opens, OthersStay, Busy
 <2>0. \A q \in Room : life'[q] = IF q = r THEN "published" ELSE life[q]
   BY DEF RoomTypes
 <2>1. Lives' /\ Registered'
   BY <2>0 DEF Lives, Registered, Published
 <2>2. Starts'
   BY <2>0 DEF Starts, Lives, Published
 <2>3. Publishes'
   BY <2>0, PublishesStays DEF Published
 <2> QED BY <2>1, <2>2, <2>3
<1>3. ASSUME NEW r \in Room, Removes(r) PROVE GamesInv'
 <2> USE <1>3 DEF Removes, Locks
 <2>0. \A q \in Room : /\ life'[q] = IF q = r THEN "removed" ELSE life[q]
                       /\ state'[q] = IF q = r THEN "Ended" ELSE state[q]
   BY DEF RoomTypes
 <2>1. Lives' /\ Registered'
   BY <2>0 DEF Lives, Registered, Published
 <2>2. Starts'
   BY <2>0 DEF Starts, Published
 <2>3. Publishes'
   BY <2>0 DEF Publishes, Published
 <2> QED BY <2>1, <2>2, <2>3
<1>4. ASSUME NEW c \in Connection, NEW r \in Room, Readies(c, r) PROVE GamesInv'
 <2> USE <1>4 DEF Readies, Locks, OthersStay, Busy
 <2>0. \A q \in Room : /\ state'[q] = IF q = r THEN "Ready" ELSE state[q]
                       /\ game'[q] = IF q = r THEN "starting" ELSE game[q]
   BY DEF RoomTypes, SessionTypes
 <2>1. Lives' /\ Registered'
   BY <2>0 DEF Lives, Registered, Published
 <2>2. Starts'
   BY <2>0 DEF Starts, Published
 <2>3. Publishes'
   BY PublishesStays DEF Published
 <2> QED BY <2>1, <2>2, <2>3
<1>5. ASSUME NEW c \in Connection, NEW r \in Room, Plays(c, r) PROVE GamesInv'
 <2> USE <1>5 DEF Plays, Locks, OthersStay, Busy
 <2>0. /\ \A q \in Room : /\ state'[q] = IF q = r THEN "Playing" ELSE state[q]
                          /\ q # r /\ game'[q] # game[q] => games[CodeOf[r]] = q /\ game'[q] = "none"
       /\ game'[r] = "running"
       /\ \A k \in Code : games'[k] = IF k = CodeOf[r] THEN r ELSE games[k]
  <3>1. r \notin Replaced(r)
    BY DEF Replaced
  <3>2. \A q \in Room : game'[q] = IF q \in Replaced(r) THEN "none"
                                   ELSE IF q = r THEN "running" ELSE game[q]
    OBVIOUS
  <3>3. \A q \in Replaced(r) : games[CodeOf[r]] = q
    BY DEF Replaced
  <3>4. \A q \in Room : state'[q] = IF q = r THEN "Playing" ELSE state[q]
    BY DEF RoomTypes
  <3>5. \A k \in Code : games'[k] = IF k = CodeOf[r] THEN r ELSE games[k]
    BY DEF SessionTypes
  <3> QED BY <3>1, <3>2, <3>3, <3>4, <3>5
 <2>1. \A q \in Room : CodeOf[q] = CodeOf[r] /\ q # r => game'[q] # "running"
  <3> SUFFICES ASSUME NEW q \in Room, CodeOf[q] = CodeOf[r], q # r, game'[q] = "running" PROVE FALSE
    OBVIOUS
  <3>1. game[q] = "running"
    BY <2>0
  <3>2. games[CodeOf[q]] = q
    BY <3>1 DEF Registered
  <3>3. q \in Replaced(r)
    BY <3>2 DEF Replaced
  <3> QED BY <3>3
 <2>2. \A q \in Room : q # r /\ game'[q] # game[q] => ~Published(q)
  <3> SUFFICES ASSUME NEW q \in Room, q # r, game'[q] # game[q], Published(q) PROVE FALSE
    OBVIOUS
  <3>1. games[CodeOf[r]] = q
    BY <2>0
  <3>2. CodeOf[q] = CodeOf[r]
    BY <3>1 DEF Registered
  <3> QED BY <3>2 DEF OneRoomACode
 <2>3. Lives'
   BY <2>0, <2>2 DEF Lives, Published
 <2>4. Starts'
   BY <2>0, <2>2 DEF Starts, Published
 <2>5. Publishes'
   BY PublishesStays DEF Published
 <2>6. Registered'
   BY <2>0, <2>1 DEF Registered, Published
 <2> QED BY <2>3, <2>4, <2>5, <2>6
<1>6. ASSUME NEW c \in Connection, NEW r \in Room, Retires(c, r) PROVE GamesInv'
 <2> USE <1>6 DEF Retires, OthersStay, Busy
 <2>0. \A q \in Room : game'[q] = IF q = r THEN "none" ELSE game[q]
   BY DEF SessionTypes
 <2>1. Lives' /\ Registered'
   BY <2>0 DEF Lives, Registered, Published
 <2>2. Starts'
   BY <2>0 DEF Starts, Published
 <2>3. Publishes'
   BY PublishesStays DEF Published
 <2> QED BY <2>1, <2>2, <2>3
<1>7. ASSUME NEW c \in Connection, NEW r \in Room, Holds(c, r) PROVE GamesInv'
 <2> USE <1>7 DEF Holds, Locks, OthersStay, Busy
 <2>0. /\ \A q \in Room : publishing'[q] = IF q = r THEN c ELSE publishing[q]
       /\ \A q \in Room : q # r => life'[q] = life[q] /\ state'[q] = state[q]
       /\ life'[r] # "published" => life'[r] = "removed" /\ state'[r] = "Ended"
       /\ life'[r] = "published" => state'[r] = state[r]
       /\ life'[r] # "unused"
       /\ doing'[c] = "attached" => life'[r] = "published"
   BY DEF RoomTypes, Published
 <2>1. Lives'
   BY <2>0 DEF Lives, Published
 <2>2. Registered'
   BY <2>0 DEF Registered, Published
 <2>3. Starts'
   BY <2>0 DEF Starts, Published
 <2>4. Publishes'
  <3>1. \A d \in Connection : d # c /\ doing[d] \in {"reporting", "attached"} => target[d] # r
    BY DEF Publishes
  <3>2. \A q \in Room : q # r /\ publishing[q] # NoClient => publishing[q] # c
    BY DEF Publishes
  <3>3. doing'[c] \in {"reporting", "attached"}
    OBVIOUS
  <3>4. ASSUME NEW q \in Room, publishing'[q] # NoClient
        PROVE  doing'[publishing'[q]] \in {"reporting", "attached"} /\ target'[publishing'[q]] = q
   <4>1. CASE q = r
     BY <2>0, <3>3, <4>1
   <4>2. CASE q # r
    <5> DEFINE d == publishing[q]
    <5>1. d \in Connection /\ doing[d] \in {"reporting", "attached"} /\ target[d] = q
      BY <2>0, <3>4, <4>2, HoldersAreConnections DEF Publishes
    <5>2. publishing'[q] = d /\ doing'[d] = doing[d] /\ target'[d] = target[d]
      BY <2>0, <4>2, <5>1
    <5> QED BY <5>1, <5>2
   <4> QED BY <4>1, <4>2
  <3>5. ASSUME NEW d \in Connection, doing'[d] \in {"reporting", "attached"}
        PROVE  /\ target'[d] \in Room /\ publishing'[target'[d]] = d
               /\ doing'[d] = "attached" => life'[target'[d]] = "published"
   <4>1. CASE d = c
     BY <2>0, <4>1
   <4>2. CASE d # c
     BY <2>0, <3>1, <3>5, <4>2 DEF Publishes, Published
   <4> QED BY <4>1, <4>2
  <3> QED BY <3>4, <3>5 DEF Publishes, Published
 <2> QED BY <2>1, <2>2, <2>3, <2>4
<1>8. ASSUME NEW c \in Connection, NEW r \in Room, Releases(c, r) PROVE GamesInv'
 <2> USE <1>8 DEF Releases, OthersStay, Busy
 <2>0. \A q \in Room : publishing'[q] = IF q = r THEN NoClient ELSE publishing[q]
   BY DEF RoomTypes
 <2>5. life[r] # "unused" /\ publishing[r] = c
   BY DEF Lives, Publishes
 <2>1. Lives'
   BY <2>0, <2>5 DEF Lives, Published, RoomTypes
 <2>2. Registered'
   BY <2>0 DEF Registered, Published
 <2>3. Starts'
   BY DEF Starts, Published
 <2>4. Publishes'
  <3>1. ASSUME NEW q \in Room, publishing'[q] # NoClient
        PROVE  doing'[publishing'[q]] \in {"reporting", "attached"} /\ target'[publishing'[q]] = q
   <4> DEFINE d == publishing[q]
   <4>1. d \in Connection /\ doing[d] \in {"reporting", "attached"} /\ target[d] = q /\ q # r
     BY <2>0, <3>1, HoldersAreConnections DEF Publishes
   <4>2. d # c /\ publishing'[q] = d
     BY <2>0, <4>1
   <4>3. doing'[d] = doing[d] /\ target'[d] = target[d]
     BY <4>1, <4>2
   <4> QED BY <4>1, <4>2, <4>3
  <3>2. ASSUME NEW d \in Connection, doing'[d] \in {"reporting", "attached"}
        PROVE  /\ target'[d] \in Room /\ publishing'[target'[d]] = d
               /\ doing'[d] = "attached" => life'[target'[d]] = "published"
   <4>1. d # c /\ doing'[d] = doing[d] /\ target'[d] = target[d]
     BY <3>2
   <4>2. target[d] \in Room /\ publishing[target[d]] = d
     BY <3>2, <4>1 DEF Publishes
   <4>3. target[d] # r
     BY <2>5, <4>1, <4>2
   <4> QED BY <2>0, <3>2, <4>1, <4>2, <4>3 DEF Publishes, Published
  <3> QED BY <3>1, <3>2 DEF Publishes, Published
 <2> QED BY <2>1, <2>2, <2>3, <2>4
<1>9. ASSUME NEW r \in Room, Ends(r) PROVE GamesInv'
 <2> USE <1>9 DEF Ends
 <2>0. \A q \in Room : /\ state'[q] = IF q = r THEN "Waiting" ELSE state[q]
                       /\ game'[q] = IF q = r THEN "none" ELSE game[q]
   BY DEF RoomTypes, SessionTypes
 <2>1. Lives' /\ Registered'
   BY <2>0 DEF Lives, Registered, Published
 <2>2. Starts'
   BY <2>0 DEF Starts, Published
 <2>3. Publishes'
   BY DEF Publishes, Published
 <2> QED BY <2>1, <2>2, <2>3
<1>10. ASSUME NEW r \in Room, Dispatches(r) PROVE GamesInv'
 <2> USE <1>10 DEF Dispatches
 <2>0. life[r] = "removed" /\ ~Published(r)
   BY DEF Lives, Published
 <2>1. CASE games[CodeOf[r]] # r /\ UNCHANGED << game, games >>
  <3>1. game[r] # "running"
    BY <2>1 DEF Registered
  <3>2. Lives' /\ Registered'
    BY <2>0, <2>1, <3>1 DEF Lives, Registered, Published
  <3> QED BY <2>1, <3>2 DEF Starts, Publishes, Published
 <2>2. CASE /\ games[CodeOf[r]] = r /\ game' = [game EXCEPT ![r] = "none"]
            /\ games' = [games EXCEPT ![CodeOf[r]] = NoRoom]
  <3>1. /\ \A q \in Room : game'[q] = IF q = r THEN "none" ELSE game[q]
        /\ \A k \in Code : games'[k] = IF k = CodeOf[r] THEN NoRoom ELSE games[k]
    BY <2>2 DEF SessionTypes
  <3>2. Lives'
    BY <2>0, <3>1 DEF Lives, Published
  <3>3. Registered'
    BY <2>2, <3>1 DEF Registered, Published
  <3>4. Starts'
    BY <2>0, <3>1 DEF Starts, Published
  <3>5. Publishes'
    BY DEF Publishes, Published
  <3> QED BY <3>2, <3>3, <3>4, <3>5
 <2> QED BY <2>1, <2>2
<1>11. CASE UNCHANGED gamesView
  BY <1>11 DEF gamesView, Lives, Starts, Publishes, Registered, Published
<1> QED BY <1>1, <1>2, <1>3, <1>4, <1>5, <1>6, <1>7, <1>8, <1>9, <1>10, <1>11 DEF GamesStep

-----------------------------------------------------------------------------
(* Who sits where.                                                         *)

\* Members sit in order, a started game has a full table, and a room that is
\* not published has no members.
Seated ==
  \A r \in Room :
    /\ Ordered(r)
    /\ state[r] \in {"Ready", "Playing"} => Len(order[r]) = RoomSize
    /\ ~Published(r) => \A p \in Player : players[r][p] = NoMember

\* Whoever is attached to a room has its player.
Attending ==
  \A c \in Connection : doing[c] = "attached" =>
    players[target[c]][Owner[c]].client = c /\ clientRoom[c] = CodeOf[target[c]]

\* Nobody sits down or gets up.
LEMMA SameSeats ==
  ASSUME RoomTypes, RoomTypes', NEW r \in Room, Ordered(r), order'[r] = order[r],
         \A p \in Player : players'[r][p].seat = players[r][p].seat,
         \A p \in Player : players[r][p] = NoMember => players'[r][p] = NoMember
  PROVE  Ordered(r)' /\ Members(r)' = Members(r)
<1>1. \A p \in Members(r) : players'[r][p] # NoMember
  BY ConstantFacts, MemberFacts DEF Ordered, Members, Seats
<1>2. Members(r)' = Members(r)
  BY <1>1 DEF Members
<1>3. \A i \in 1 .. Len(order[r]) : SeatAt(r, i)' = SeatAt(r, i)
 <2>1. \A i \in 1 .. Len(order[r]) : order[r][i] \in Player
   BY DEF RoomTypes
 <2> QED BY <2>1 DEF SeatAt
<1> QED BY <1>2, <1>3 DEF Ordered, Members

\* What happens to the seats of one room.
Sits(r) ==
  \/ /\ order'[r] = order[r]
     /\ \A p \in Player : players'[r][p].seat = players[r][p].seat
     /\ \A p \in Player : players[r][p] = NoMember => players'[r][p] = NoMember
     /\ Published(r) => life'[r] = "published"
     /\ \/ state'[r] \in {state[r], "Waiting"}
        \/ state[r] = "Ready" /\ state'[r] = "Playing"
        \/ state'[r] = "Ready" /\ Cardinality(Members(r)') = RoomSize
  \/ /\ Published(r) /\ state[r] = "Waiting" /\ UNCHANGED << state, life >>
     /\ \/ \E p \in Player, seat \in Seats :
             /\ p \notin Members(r) /\ \A q \in Members(r) : players[r][q].seat # seat
             /\ order'[r] = Inserted(r, p, seat) /\ players'[r][p].seat = seat
             /\ \A q \in Player : q # p => players'[r][q] = players[r][q]
        \/ \E p \in Members(r) :
             /\ order'[r] = Without(r, p) /\ players'[r][p] = NoMember
             /\ \A q \in Player : q # p => players'[r][q] = players[r][q]
  \/ /\ life'[r] = "published" /\ state'[r] = state[r] /\ life[r] = "unused"
     /\ \E p \in Player : /\ order'[r] = << p >> /\ players'[r][p].seat = 0
                          /\ \A q \in Player : q # p => players'[r][q] = players[r][q]
  \/ /\ state'[r] = "Ended" /\ order'[r] = << >>
     /\ \A p \in Player : players'[r][p] = NoMember

LEMMA SittingKeepsSeated ==
  ASSUME Types, Types', Lives, Seated, \A r \in Room : Sits(r)
  PROVE  Seated'
<1> USE ConstantFacts DEF Types
<1> SUFFICES ASSUME NEW r \in Room
             PROVE  /\ Ordered(r)'
                    /\ state'[r] \in {"Ready", "Playing"} => Len(order'[r]) = RoomSize
                    /\ life'[r] # "published" => \A p \in Player : players'[r][p] = NoMember
  BY DEF Seated, Published
<1>0. /\ Ordered(r)
      /\ state[r] \in {"Ready", "Playing"} => Len(order[r]) = RoomSize
      /\ ~Published(r) => \A p \in Player : players[r][p] = NoMember
  BY DEF Seated
<1>1. CASE /\ order'[r] = order[r]
           /\ \A p \in Player : players'[r][p].seat = players[r][p].seat
           /\ \A p \in Player : players[r][p] = NoMember => players'[r][p] = NoMember
           /\ Published(r) => life'[r] = "published"
           /\ \/ state'[r] \in {state[r], "Waiting"}
              \/ state[r] = "Ready" /\ state'[r] = "Playing"
              \/ state'[r] = "Ready" /\ Cardinality(Members(r)') = RoomSize
 <2>1. Ordered(r)' /\ Members(r)' = Members(r)
   BY <1>0, <1>1, SameSeats
 <2>2. Cardinality(Members(r)) = Len(order[r])
   BY <1>0, OrderCounts
 <2> QED BY <1>0, <1>1, <2>1, <2>2 DEF Published
<1>2. CASE Published(r) /\ state[r] = "Waiting" /\ UNCHANGED << state, life >> /\ Ordered(r)'
  BY <1>2 DEF Published
<1>3. ASSUME NEW p \in Player, NEW seat \in Seats,
             p \notin Members(r), \A q \in Members(r) : players[r][q].seat # seat,
             order'[r] = Inserted(r, p, seat), players'[r][p].seat = seat,
             \A q \in Player : q # p => players'[r][q] = players[r][q]
      PROVE  Ordered(r)'
  BY <1>0, <1>3, SittingKeepsOrder
<1>4. ASSUME NEW p \in Members(r), order'[r] = Without(r, p), players'[r][p] = NoMember,
             \A q \in Player : q # p => players'[r][q] = players[r][q]
      PROVE  Ordered(r)'
  BY <1>0, <1>4, RisingKeepsOrder
<1>5. ASSUME life'[r] = "published", state'[r] = state[r], life[r] = "unused",
             NEW p \in Player, order'[r] = << p >>, players'[r][p].seat = 0,
             \A q \in Player : q # p => players'[r][q] = players[r][q]
      PROVE  Ordered(r)' /\ state'[r] = "Waiting"
 <2>1. \A q \in Player : players[r][q] = NoMember
   BY <1>0, <1>5 DEF Published
 <2>2. players'[r][p] # NoMember
   BY <1>5, MemberFacts
 <2>3. Members(r)' = {p}
   BY <1>5, <2>1, <2>2 DEF Members
 <2>4. Len(<< p >>) = 1 /\ << p >>[1] = p /\ DOMAIN << p >> = {1}
   OBVIOUS
 <2>5. Range(order'[r]) = {p} /\ Len(order'[r]) = 1
   BY <1>5, <2>4 DEF Range
 <2>6. Ordered(r)'
   BY <1>5, <2>3, <2>5 DEF Ordered, Seats
 <2> QED BY <1>5, <2>6 DEF Lives
<1>6. CASE state'[r] = "Ended" /\ order'[r] = << >> /\ \A p \in Player : players'[r][p] = NoMember
 <2>1. Members(r)' = {}
   BY <1>6 DEF Members
 <2>2. Len(<< >>) = 0 /\ DOMAIN << >> = {}
   OBVIOUS
 <2>3. Range(order'[r]) = {} /\ Len(order'[r]) = 0
   BY <1>6, <2>2 DEF Range
 <2>4. Ordered(r)'
   BY <2>1, <2>3 DEF Ordered
 <2> QED BY <1>6, <2>4
<1>7. Sits(r)
  OBVIOUS
<1> QED BY <1>1, <1>2, <1>3, <1>4, <1>5, <1>6, <1>7 DEF Sits

\* Nothing happens to a room.
LEMMA SitsStill ==
  ASSUME NEW r \in Room, order'[r] = order[r], \A p \in Player : players'[r][p] = players[r][p],
         life'[r] = life[r], state'[r] = state[r]
  PROVE  Sits(r)
BY DEF Sits, Published

LEMMA UnreadyIsUnready ==
  [NoMember EXCEPT !.ready = FALSE] = NoMember
<1> DEFINE m == [NoMember EXCEPT !.ready = FALSE]
<1>1. m \in Member /\ m.seat = RoomSize /\ m.client = NoClient /\ m.ready = FALSE
  BY MemberFacts DEF NoMember
<1> HIDE DEF m
<1>2. m = [seat |-> m.seat, client |-> m.client, ready |-> m.ready]
  BY <1>1, MemberFacts, Zenon
<1>3. m = NoMember
  BY <1>1, <1>2 DEF NoMember
<1> QED BY <1>3 DEF m

LEMMA FirstSeat ==
  ASSUME NEW c \in Connection
  PROVE  MemberAt(c, 0) \in Member /\ MemberAt(c, 0).seat = 0
BY ConstantFacts, MemberFacts DEF Seats

\* A member's connection changes.
LEMMA SitsConnected ==
  ASSUME Types, Seated, NEW r \in Room, NEW p \in Members(r), NEW x \in Connection \cup {NoClient},
         UNCHANGED << order, life, state >>
  PROVE  players' = [players EXCEPT ![r][p].client = x] => \A q \in Room : Sits(q)
<1>1. SUFFICES ASSUME players' = [players EXCEPT ![r][p].client = x] PROVE \A q \in Room : Sits(q)
  OBVIOUS
<1>2. p \in Player /\ players[r][p] # NoMember /\ players \in [Room -> [Player -> Member]]
  BY DEF Members, Types, RoomTypes
<1>3. \A q \in Room, n \in Player : players'[q][n].seat = players[q][n].seat
  BY <1>1, <1>2, ClientSet
<1>4. \A q \in Room, n \in Player : players[q][n] = NoMember => players'[q][n] = NoMember
  BY <1>1, <1>2
<1> QED BY <1>3, <1>4 DEF Sits, Published

LEMMA SitsUnpublished ==
  ASSUME Types, NEW r \in Room, Unpublish(r)
  PROVE  \A q \in Room : Sits(q)
<1>1. /\ life' = [life EXCEPT ![r] = "removed"] /\ state' = [state EXCEPT ![r] = "Ended"]
      /\ \A s \in Room, q \in Player :
           players'[s][q] = IF s = r THEN NoMember ELSE players[s][q]
      /\ order' = [order EXCEPT ![r] = << >>]
  BY UnpublishDoes
<1>2. Sits(r)
  BY <1>1 DEF Sits, Types, RoomTypes
<1>3. ASSUME NEW q \in Room, q # r PROVE Sits(q)
 <2>1. /\ order'[q] = order[q] /\ life'[q] = life[q] /\ state'[q] = state[q]
       /\ \A p \in Player : players'[q][p] = players[q][p]
   BY <1>1, <1>3 DEF Types, RoomTypes
 <2> QED BY <2>1, SitsStill
<1> QED BY <1>2, <1>3

LEMMA CommandSits ==
  ASSUME Types, GamesInv, Seated, NEW c \in Connection, Command(c)
  PROVE  \A q \in Room : Sits(q)
<1> DEFINE p == Owner[c]
<1> USE ConstantFacts DEF Types, RoomTypes
<1>0. p \in Player
  OBVIOUS
<1>1. ASSUME NEW r \in Room, CreateRoom(c, r) PROVE \A q \in Room : Sits(q)
 <2>1. /\ life' = [life EXCEPT ![r] = "published"] /\ life[r] = "unused"
       /\ order' = [order EXCEPT ![r] = << p >>] /\ UNCHANGED state
   BY <1>1 DEF CreateRoom
 <2>2. MemberAt(c, 0) \in Member /\ MemberAt(c, 0).seat = 0
   BY FirstSeat
 <2>3. \A s \in Room, q \in Player :
         players'[s][q] = IF s = r /\ q = p THEN MemberAt(c, 0) ELSE players[s][q]
  <3>1. players' = [players EXCEPT ![r][p] = MemberAt(c, 0)]
    BY <1>1 DEF CreateRoom
  <3> QED BY <1>0, <2>2, <3>1, PlayerSet
 <2> HIDE DEF p
 <2>4. Sits(r)
  <3>1. order'[r] = << p >> /\ life'[r] = "published" /\ state'[r] = state[r]
    BY <2>1
  <3> QED BY <1>0, <2>1, <2>2, <2>3, <3>1 DEF Sits
 <2>5. ASSUME NEW q \in Room, q # r PROVE Sits(q)
   BY <2>1, <2>3, <2>5, SitsStill
 <2> QED BY <2>4, <2>5
<1>2. ASSUME NEW r \in Room, JoinRoom(c, r) PROVE \A q \in Room : Sits(q)
 <2> DEFINE seat == NextAvailableSeat(r)
 <2>1. /\ Locks(r) /\ Cardinality(Members(r)) < RoomSize /\ state[r] = "Waiting" /\ p \notin Members(r)
       /\ players' = [players EXCEPT ![r][p] = MemberAt(c, seat)]
       /\ order' = [order EXCEPT ![r] = Inserted(r, p, seat)]
       /\ UNCHANGED << life, state >>
   BY <1>2 DEF JoinRoom
 <2>2. Ordered(r)
   BY DEF Seated
 <2>3. seat \in Seats /\ \A q \in Members(r) : players[r][q].seat # seat
   BY <2>1, <2>2, SeatIsFree
 <2>4. MemberAt(c, seat) \in Member /\ MemberAt(c, seat).seat = seat
   BY <2>3, MemberFacts
 <2> HIDE DEF p, seat
 <2>5. \A s \in Room, q \in Player :
         players'[s][q] = IF s = r /\ q = p THEN MemberAt(c, seat) ELSE players[s][q]
   BY <1>0, <2>1, <2>4, PlayerSet
 <2>6. Sits(r)
  <3>1. order'[r] = Inserted(r, p, seat) /\ players'[r][p].seat = seat
        /\ (\A q \in Player : q # p => players'[r][q] = players[r][q])
    BY <1>0, <2>1, <2>4, <2>5
  <3> QED BY <1>0, <2>1, <2>3, <3>1 DEF Sits, Locks
 <2>7. ASSUME NEW q \in Room, q # r PROVE Sits(q)
   BY <2>1, <2>5, <2>7, SitsStill
 <2> QED BY <2>6, <2>7
<1>3. ASSUME NEW r \in Room, LeaveRoom(c, r) PROVE \A q \in Room : Sits(q)
 <2>1. CASE Members(r) = {p}
   BY <1>3, <2>1, SitsUnpublished DEF LeaveRoom
 <2>2. CASE Members(r) # {p}
  <3>1. /\ Locks(r) /\ state[r] = "Waiting" /\ players[r][p].client = c
        /\ players' = [players EXCEPT ![r][p] = NoMember]
        /\ order' = [order EXCEPT ![r] = Without(r, p)]
        /\ UNCHANGED << life, state >>
    BY <1>3, <2>2 DEF LeaveRoom, CurrentMember
  <3>2. p \in Members(r)
    BY <1>0, <3>1, MemberFacts DEF Members
  <3> HIDE DEF p
  <3>3. \A s \in Room, q \in Player :
          players'[s][q] = IF s = r /\ q = p THEN NoMember ELSE players[s][q]
    BY <1>0, <3>1, MemberFacts, PlayerSet
  <3>4. Sits(r)
   <4>1. order'[r] = Without(r, p) /\ players'[r][p] = NoMember
         /\ (\A q \in Player : q # p => players'[r][q] = players[r][q])
     BY <1>0, <3>1, <3>3
   <4> QED BY <3>1, <3>2, <4>1 DEF Sits, Locks
  <3>5. ASSUME NEW q \in Room, q # r PROVE Sits(q)
    BY <3>1, <3>3, <3>5, SitsStill
  <3> QED BY <3>4, <3>5
 <2> QED BY <2>1, <2>2
<1>4. ASSUME NEW r \in Room, NEW ready \in BOOLEAN, SetPlayerReady(c, r, ready)
      PROVE  \A q \in Room : Sits(q)
 <2> DEFINE members == [players[r] EXCEPT ![p].ready = ready]
 <2>1. /\ Locks(r) /\ state[r] = "Waiting" /\ players[r][p].client = c
       /\ players' = [players EXCEPT ![r] = members]
       /\ UNCHANGED << life, order >>
       /\ \/ state' = [state EXCEPT ![r] = "Ready"] /\ AllReady(r, members)
          \/ state' = state
   BY <1>4, Zenon DEF SetPlayerReady, CurrentMember
 <2>2. players'[r] = members
   BY <2>1
 <2>3. AllReady(r, members) => Cardinality(Members(r)') = RoomSize
   BY <2>2 DEF AllReady, Members
 <2>4. \A s \in Room, q \in Player : players'[s][q].seat = players[s][q].seat
   BY <1>0, <2>1, ReadySet
 <2>5. \A s \in Room, q \in Player : players[s][q] = NoMember => players'[s][q] = NoMember
  <3>1. players[r][p] # NoMember
    BY <2>1, MemberFacts
  <3>2. \A q \in Player : q # p => members[q] = players[r][q]
    OBVIOUS
  <3> QED BY <2>1, <3>1, <3>2
 <2> HIDE DEF members
 <2>6. ASSUME NEW q \in Room PROVE Sits(q)
  <3>1. order'[q] = order[q] /\ (Published(q) => life'[q] = "published")
    BY <2>1 DEF Published
  <3>2. \/ state'[q] = state[q]
        \/ state'[q] = "Ready" /\ Cardinality(Members(q)') = RoomSize
    BY <2>1, <2>3
  <3> QED BY <2>4, <2>5, <3>1, <3>2 DEF Sits
 <2> QED BY <2>6
<1>5. CASE Disconnect(c) \/ RestoreSession(c)
  BY <1>5, SitsStill DEF Disconnect, RestoreSession, rooms
<1> QED BY <1>1, <1>2, <1>3, <1>4, <1>5 DEF Command

LEMMA EveryStepSits ==
  ASSUME Types, GamesInv, Seated, Attending, [RoomsNext]_roomsVars
  PROVE  \A q \in Room : Sits(q)
<1> USE ConstantFacts DEF Types, RoomTypes
<1>1. ASSUME NEW c \in Connection, SetGameSession(c) PROVE \A q \in Room : Sits(q)
 <2>1. UNCHANGED << life, players, order >> /\ doing[c] = "starting"
       /\ \/ state' = [state EXCEPT ![target[c]] = "Playing"] /\ Locks(target[c])
          \/ UNCHANGED state
   BY <1>1 DEF SetGameSession
 <2>2. Published(target[c]) => state[target[c]] = "Ready"
   BY <2>1 DEF GamesInv, Starts
 <2> QED BY <2>1, <2>2 DEF Sits, Published, Locks
<1>2. ASSUME NEW c \in Connection, NotifyPlayerOffline(c) PROVE \A q \in Room : Sits(q)
 <2>1. \/ UNCHANGED << life, state, players, order >>
       \/ \E r \in Room : Unpublish(r)
       \/ \E r \in Room : /\ Owner[c] \in Members(r)
                          /\ players' = [players EXCEPT ![r][Owner[c]].client = NoClient]
                          /\ UNCHANGED << life, state, order >>
   BY <1>2, Zenon DEF NotifyPlayerOffline, PublishedAs
 <2>2. CASE UNCHANGED << life, state, players, order >>
   BY <2>2, SitsStill
 <2>3. ASSUME NEW r \in Room, Owner[c] \in Members(r),
              players' = [players EXCEPT ![r][Owner[c]].client = NoClient],
              UNCHANGED << life, state, order >>
       PROVE  \A q \in Room : Sits(q)
   BY <2>3, SitsConnected
 <2> QED BY <2>1, <2>2, <2>3, SitsUnpublished
<1>3. ASSUME NEW c \in Connection, ReconnectPlayer(c) PROVE \A q \in Room : Sits(q)
 <2>1. PICK r \in Room : /\ Owner[c] \in Members(r)
                         /\ players' = [players EXCEPT ![r][Owner[c]].client = c]
   BY <1>3 DEF ReconnectPlayer, Restorable, PublishedAs, AttachClient
 <2>2. UNCHANGED << life, state, order >>
   BY <1>3 DEF ReconnectPlayer
 <2> QED BY <2>1, <2>2, SitsConnected
<1>4. ASSUME NEW c \in Connection, DeliverSnapshot(c) PROVE \A q \in Room : Sits(q)
 <2>1. /\ doing[c] = "attached" /\ UNCHANGED << life, state, order >>
       /\ UNCHANGED players \/ players' = [players EXCEPT ![target[c]][Owner[c]].client = former[c]]
   BY <1>4 DEF DeliverSnapshot, RoomRolledBack
 <2>2. target[c] \in Room /\ players[target[c]][Owner[c]].client = c
   BY <2>1 DEF GamesInv, Publishes, Attending
 <2>3. Owner[c] \in Members(target[c]) /\ former[c] \in Connection \cup {NoClient}
   BY <2>2, MemberFacts DEF Members, ConnectionTypes
 <2>4. CASE UNCHANGED players
   BY <2>1, <2>4, SitsStill
 <2>5. CASE players' = [players EXCEPT ![target[c]][Owner[c]].client = former[c]]
   BY <2>1, <2>2, <2>3, <2>5, SitsConnected
 <2> QED BY <2>1, <2>4, <2>5
<1>5. ASSUME NEW r \in Room, GameOver(r) PROVE \A q \in Room : Sits(q)
 <2>1. /\ players' = [players EXCEPT ![r] =
            [p \in Player |-> [players[r][p] EXCEPT !.ready = FALSE]]]
       /\ state' = [state EXCEPT ![r] = "Waiting"] /\ UNCHANGED << life, order >>
   BY <1>5 DEF GameOver
 <2>2. \A s \in Room, q \in Player : players'[s][q].seat = players[s][q].seat
   BY <2>1, ReadyReset
 <2>3. [NoMember EXCEPT !.ready = FALSE] = NoMember
   BY UnreadyIsUnready
 <2>4. \A s \in Room, q \in Player : players[s][q] = NoMember => players'[s][q] = NoMember
  <3>1. ASSUME NEW q \in Player, players[r][q] = NoMember PROVE players'[r][q] = NoMember
   <4>1. players'[r][q] = [players[r][q] EXCEPT !.ready = FALSE]
     BY <2>1
   <4> QED BY <2>3, <3>1, <4>1, Zenon
  <3> QED BY <2>1, <3>1
 <2> QED BY <2>1, <2>2, <2>4 DEF Sits, Published
<1>6. ASSUME NEW r \in Room, RemoveIdleRoom(r) PROVE \A q \in Room : Sits(q)
  BY <1>6, SitsUnpublished DEF RemoveIdleRoom
<1>7. ASSUME UNCHANGED << life, state, players, order >> PROVE \A q \in Room : Sits(q)
  BY <1>7, SitsStill
<1>8. ASSUME NEW c \in Connection, PersistRoom(c) \/ ReportOffline(c) \/ RebindClient(c)
               \/ ReconnectRoomless(c) \/ RollbackRebindClient(c)
      PROVE  UNCHANGED << life, state, players, order >>
  BY <1>8 DEF PersistRoom, ReportOffline, RebindClient, ReconnectRoomless, RollbackRebindClient, rooms
<1>9. ASSUME NEW r \in Room, HandleRoomRemoved(r) PROVE UNCHANGED << life, state, players, order >>
  BY <1>9 DEF HandleRoomRemoved
<1>10. CASE (\E k \in Code : Persist(k)) \/ Close \/ CloseStore \/ UNCHANGED roomsVars
  BY <1>7, <1>10 DEF Persist, Close, CloseStore, roomsVars, rooms
<1>11. ASSUME NEW c \in Connection, Proceed(c) PROVE \A q \in Room : Sits(q)
  BY <1>1, <1>2, <1>3, <1>4, <1>7, <1>8, <1>11 DEF Proceed
<1>12. ASSUME NEW r \in Room, Manage(r) PROVE \A q \in Room : Sits(q)
  BY <1>5, <1>6, <1>7, <1>9, <1>12 DEF Manage
<1> QED BY <1>10, <1>11, <1>12, CommandSits DEF RoomsNext

-----------------------------------------------------------------------------
(* Who is connected to what.                                               *)

\* The handlers of a connection that is neither coming back nor ending.
Serving(c) == doing[c] \in {"idle", "starting", "saving"}

Connected(r, p) == players[r][p].client

\* One reconnect at a time, which is registered from its rebinding on.
OneReconnects ==
  /\ \A c, d \in Reconnecting : c = d
  /\ \A c \in Connection :
       doing[c] \in {"rebound", "attached", "undone"} => clients[Owner[c]] = c

\* A connection that is a member's, or will be if a reconnect is taken back.
Belongs(c, r) ==
  \/ Connected(r, Owner[c]) = c
  \/ \E d \in Connection : /\ doing[d] = "attached" /\ target[d] = r /\ former[d] = c
                           /\ Owner[d] = Owner[c]

\* Every member's connection is his, is bound to the room, and has not come to
\* an end that anybody will hear of.
MemberConnections ==
  \A r \in Room, p \in Player : Published(r) /\ Connected(r, p) # NoClient =>
    /\ clientRoom[Connected(r, p)] = CodeOf[r] /\ Owner[Connected(r, p)] = p
    /\ doing[Connected(r, p)] \in {"idle", "starting", "saving", "leaving", "attached", "gone"}

FormerConnections ==
  \A d \in Connection : doing[d] = "attached" /\ former[d] # NoClient =>
    /\ clientRoom[former[d]] = CodeOf[target[d]] /\ Owner[former[d]] = Owner[d]
    /\ doing[former[d]] \in {"idle", "starting", "saving", "leaving", "gone"}

\* A connection that has its player, or gets him back if a reconnect is taken
\* back.
Rightful(c) ==
  \/ clients[Owner[c]] = c
  \/ \E d \in Connection : /\ doing[d] \in {"rebound", "attached", "undone"}
                           /\ previous[d] = c /\ Owner[d] = Owner[c]

BoundHold ==
  \A c \in Connection : Serving(c) /\ Rightful(c) /\ clientRoom[c] # NoCode =>
    \E r \in Room : Published(r) /\ CodeOf[r] = clientRoom[c] /\ Belongs(c, r)

BondsInv == Attending /\ OneReconnects /\ MemberConnections /\ FormerConnections /\ BoundHold

-----------------------------------------------------------------------------
(* The steps of connections, as far as these bonds are concerned.          *)

\* Nothing changes about other connections than c.
OthersKeep(c) ==
  /\ OthersStay(c)
  /\ \A d \in Connection : d # c => /\ clientRoom'[d] = clientRoom[d]
                                    /\ former'[d] = former[d] /\ previous'[d] = previous[d]

SameMembers == \A r \in Room, p \in Player : Connected(r, p)' = Connected(r, p)

\* In room r only the player of c gets another connection, x.
Reconnected(r, c, x) ==
  \A q \in Room, p \in Player :
    Connected(q, p)' = IF q = r /\ p = Owner[c] THEN x ELSE Connected(q, p)

SameBooks == UNCHANGED << clients, clientRoom, life, former, previous >> /\ SameMembers

\* A handler goes on with what it was asked.
Serves(c) == Serving(c) /\ Serving(c)' /\ OthersKeep(c) /\ SameBooks

\* A connection takes a seat.
Binds(c, r) ==
  /\ doing[c] = "idle" /\ doing'[c] = "saving" /\ clientRoom[c] = NoCode /\ publishing[r] = NoClient
  /\ clientRoom'[c] = CodeOf[r] /\ OthersKeep(c)
  /\ \A q \in Room : life'[q] = IF q = r THEN "published" ELSE life[q]
  /\ ~Published(r) => \A p \in Player : Connected(r, p) = NoClient
  /\ Connected(r, Owner[c]) = NoClient /\ Reconnected(r, c, c) /\ UNCHANGED clients

\* It gives it up.
Unbinds(c, r) ==
  /\ doing[c] = "idle" /\ doing'[c] = "saving" /\ Locks(r) /\ Connected(r, Owner[c]) = c
  /\ clientRoom'[c] = NoCode /\ OthersKeep(c)
  /\ Reconnected(r, c, NoClient) /\ UNCHANGED << clients, life >>

\* A room is removed; its members' connections are unbound.
Clears(r) ==
  /\ Locks(r) /\ UNCHANGED << clients, former, previous >>
  /\ \A q \in Room : life'[q] = IF q = r THEN "removed" ELSE life[q]
  /\ \A q \in Room, p \in Player : Connected(q, p)' = IF q = r THEN NoClient ELSE Connected(q, p)
  /\ \A d \in Connection : clientRoom'[d] =
       IF Connected(r, Owner[d]) = d /\ clientRoom[d] = CodeOf[r] THEN NoCode ELSE clientRoom[d]
  /\ \/ UNCHANGED << doing, target >>
     \/ \E c \in Connection : /\ doing[c] = "leaving" /\ doing'[c] = "reporting" /\ OthersStay(c)
                              /\ clientRoom[c] = CodeOf[r]

\* A connection ends; if it is registered, its player is missed.
Breaks(c) ==
  /\ doing[c] = "idle" /\ OthersKeep(c) /\ UNCHANGED << clientRoom, life, former, previous >> /\ SameMembers
  /\ \/ /\ doing'[c] = "leaving" /\ clients[Owner[c]] = c
        /\ clients' = [clients EXCEPT ![Owner[c]] = NoClient]
     \/ doing'[c] = "gone" /\ UNCHANGED clients

\* It is nobody's.
Fades(c) ==
  /\ doing'[c] = "gone" /\ clientRoom'[c] = NoCode /\ OthersKeep(c)
  /\ \/ doing[c] = "reporting"
     \/ /\ doing[c] = "leaving"
        /\ \A r \in Room : Published(r) /\ CodeOf[r] = clientRoom[c] =>
             publishing[r] = NoClient /\ Connected(r, Owner[c]) # c
  /\ UNCHANGED << clients, life >> /\ SameMembers

\* It was a member's, who is offline now.
Detached(c, r) ==
  /\ doing[c] = "leaving" /\ doing'[c] = "reporting" /\ OthersKeep(c)
  /\ Locks(r) /\ Connected(r, Owner[c]) = c /\ Reconnected(r, c, NoClient)
  /\ UNCHANGED << clients, clientRoom, life >>

Recalls(c) ==
  /\ doing[c] = "temporary" /\ doing'[c] = "recalled" /\ Reconnecting = {} /\ OthersKeep(c)
  /\ SameBooks

Rebinds(c) ==
  /\ doing[c] = "recalled" /\ doing'[c] = "rebound" /\ OthersKeep(c)
  /\ previous'[c] = clients[Owner[c]] /\ clients' = [clients EXCEPT ![Owner[c]] = c]
  /\ UNCHANGED life /\ SameMembers

Attaches(c, r) ==
  /\ doing[c] = "rebound" /\ doing'[c] = "attached" /\ OthersKeep(c)
  /\ Locks(r) /\ CodeOf[r] = clientRoom[c] /\ target'[c] = r
  /\ former'[c] = Connected(r, Owner[c]) /\ Reconnected(r, c, c)
  /\ UNCHANGED << clients, clientRoom, previous, life >>

\* The reconnect has no room to come to.
Roams(c) ==
  /\ doing[c] = "rebound" /\ clientRoom'[c] = NoCode /\ OthersKeep(c)
  /\ \/ doing'[c] = "idle"
     \/ doing'[c] = "undone" /\ UNCHANGED previous
  /\ UNCHANGED << clients, life >> /\ SameMembers

\* It is done, or taken back from the room.
Arrives(c) ==
  /\ doing[c] = "attached" /\ doing'[c] = "idle" /\ previous'[c] = NoClient /\ OthersKeep(c)
  /\ UNCHANGED << clients, clientRoom, life >> /\ SameMembers

Recedes(c) ==
  /\ doing[c] = "attached" /\ doing'[c] = "undone" /\ OthersKeep(c)
  /\ Reconnected(target[c], c, former[c])
  /\ UNCHANGED << clients, clientRoom, previous, life >>

Undoes(c) ==
  /\ doing[c] = "undone" /\ doing'[c] = "gone" /\ OthersKeep(c)
  /\ clients' = [clients EXCEPT ![Owner[c]] = previous[c]] /\ clientRoom'[c] = NoCode
  /\ UNCHANGED life /\ SameMembers

BondsStep ==
  \/ \E c \in Connection :
       \/ Serves(c) \/ Breaks(c) \/ Fades(c) \/ Recalls(c) \/ Rebinds(c)
       \/ Roams(c) \/ Arrives(c) \/ Recedes(c) \/ Undoes(c)
       \/ \E r \in Room : Binds(c, r) \/ Unbinds(c, r) \/ Detached(c, r) \/ Attaches(c, r)
  \/ \E r \in Room : Clears(r)
  \/ UNCHANGED << doing, target >> /\ SameBooks

LEMMA BondsStepTaken ==
  ASSUME Types, GamesInv, Seated, Attending, [RoomsNext]_roomsVars
  PROVE  BondsStep
<1> USE ConstantFacts DEF Types
<1>0. /\ \A c \in Connection : Owner[c] \in Player
      /\ players \in [Room -> [Player -> Member]]
  BY DEF RoomTypes
<1>1. ASSUME NEW c \in Connection, NEW r \in Room, CreateRoom(c, r) PROVE Binds(c, r)
 <2> USE <1>1 DEF CreateRoom, Bind, ThenSaves, reconnects
 <2>1. doing'[c] = "saving" /\ clientRoom'[c] = CodeOf[r] /\ OthersKeep(c)
   BY DEF ConnectionTypes, OthersKeep, OthersStay
 <2>2. \A q \in Room : life'[q] = IF q = r THEN "published" ELSE life[q]
   BY DEF RoomTypes
 <2>3. publishing[r] = NoClient /\ \A p \in Player : Connected(r, p) = NoClient
   BY MemberFacts DEF GamesInv, Lives, Seated, Published, Connected
 <2>4. Reconnected(r, c, c)
  <3>1. MemberAt(c, 0) \in Member /\ MemberAt(c, 0).client = c
    BY MemberFacts DEF Seats
  <3>2. players' = [players EXCEPT ![r][Owner[c]] = MemberAt(c, 0)]
    OBVIOUS
  <3> QED BY <1>0, <3>1, <3>2, PlayerSet DEF Reconnected, Connected
 <2> QED BY <2>1, <2>2, <2>3, <2>4 DEF Binds
<1>2. ASSUME NEW c \in Connection, NEW r \in Room, JoinRoom(c, r) PROVE Binds(c, r)
 <2> USE <1>2 DEF JoinRoom, Bind, ThenSaves, reconnects, Locks
 <2> DEFINE seat == NextAvailableSeat(r)
 <2>1. doing'[c] = "saving" /\ clientRoom'[c] = CodeOf[r] /\ OthersKeep(c)
   BY DEF ConnectionTypes, OthersKeep, OthersStay
 <2>2. seat \in Seats
   BY SeatIsFree DEF Seated
 <2>3. MemberAt(c, seat) \in Member /\ MemberAt(c, seat).client = c
   BY <2>2, MemberFacts
 <2>4. players' = [players EXCEPT ![r][Owner[c]] = MemberAt(c, seat)]
   OBVIOUS
 <2> HIDE DEF seat
 <2>5. Reconnected(r, c, c)
   BY <1>0, <2>3, <2>4, PlayerSet DEF Reconnected, Connected
 <2>6. Connected(r, Owner[c]) = NoClient
   BY <1>0, MemberFacts DEF Members, Connected
 <2> QED BY <2>1, <2>5, <2>6 DEF Binds, Published
<1>3. ASSUME NEW c \in Connection, NEW r \in Room, LeaveRoom(c, r) PROVE Unbinds(c, r) \/ Clears(r)
 <2>0. doing[c] = "idle" /\ Connected(r, Owner[c]) = c /\ Locks(r) /\ UNCHANGED << clients, reconnects >>
   BY <1>3 DEF LeaveRoom, CurrentMember, Connected
 <2>1. CASE Members(r) = {Owner[c]}
  <3>1. Unpublish(r) /\ UNCHANGED << doing, target >>
    BY <1>3, <2>1 DEF LeaveRoom
  <3>2. Clears(r)
    BY <2>0, <3>1, UnpublishDoes, MemberFacts DEF Clears, Connected, reconnects, RoomTypes
  <3> QED BY <3>2
 <2>2. CASE Members(r) # {Owner[c]}
  <3>1. /\ Bind(c, NoCode) /\ players' = [players EXCEPT ![r][Owner[c]] = NoMember]
        /\ ThenSaves(c, r) /\ UNCHANGED life
    BY <1>3, <2>2 DEF LeaveRoom
  <3>2. doing'[c] = "saving" /\ clientRoom'[c] = NoCode /\ OthersKeep(c)
    BY <2>0, <3>1 DEF Bind, ThenSaves, ConnectionTypes, OthersKeep, OthersStay, reconnects
  <3>3. Reconnected(r, c, NoClient)
    BY <1>0, <3>1, MemberFacts, PlayerSet DEF Reconnected, Connected
  <3> QED BY <2>0, <3>1, <3>2, <3>3 DEF Unbinds
 <2> QED BY <2>1, <2>2
<1>4. ASSUME NEW c \in Connection, NEW r \in Room, NEW ready \in BOOLEAN, SetPlayerReady(c, r, ready)
      PROVE  Serves(c)
 <2> USE <1>4 DEF SetPlayerReady, CurrentMember, reconnects
 <2>1. /\ doing[c] = "idle" /\ doing'[c] \in {"idle", "starting"} /\ OthersKeep(c)
       /\ UNCHANGED << clients, clientRoom, life, former, previous >>
   BY DEF ConnectionTypes, OthersKeep, OthersStay
 <2>2. SameMembers
  <3>1. players' = [players EXCEPT ![r] = [players[r] EXCEPT ![Owner[c]].ready = ready]]
    OBVIOUS
  <3> QED BY <1>0, <3>1, ReadySet DEF SameMembers, Connected
 <2> QED BY <2>1, <2>2 DEF Serves, Serving, SameBooks
<1>5. ASSUME NEW c \in Connection, Disconnect(c) PROVE Breaks(c)
  BY <1>5 DEF Disconnect, Unregisters, Breaks, ConnectionTypes, OthersKeep, OthersStay, reconnects,
              rooms, SameMembers, Connected
<1>6. ASSUME NEW c \in Connection, RestoreSession(c) PROVE Recalls(c)
  BY <1>6 DEF RestoreSession, Recalls, ConnectionTypes, OthersKeep, OthersStay, rooms, SameBooks,
              SameMembers, Connected
<1>7. ASSUME NEW c \in Connection, SetGameSession(c) \/ PersistRoom(c) PROVE Serves(c)
  BY <1>7 DEF SetGameSession, PersistRoom, Serves, Serving, ConnectionTypes, OthersKeep, OthersStay,
              reconnects, rooms, SameBooks, SameMembers, Connected
<1>8. ASSUME NEW c \in Connection, NotifyPlayerOffline(c)
      PROVE  Fades(c) \/ (\E r \in Room : Detached(c, r) \/ Clears(r))
 <2>0. doing[c] = "leaving" /\ UNCHANGED << clients, recalled, previous, former >>
   BY <1>8 DEF NotifyPlayerOffline, reconnects
 <2>1. \/ /\ \A r \in PublishedAs(clientRoom[c]) : publishing[r] = NoClient /\ ~Detaches(c, r)
          /\ doing' = [doing EXCEPT ![c] = "gone"]
          /\ clientRoom' = [clientRoom EXCEPT ![c] = NoCode]
          /\ UNCHANGED << target, life, players >>
       \/ \E r \in PublishedAs(clientRoom[c]) :
            /\ Locks(r) /\ Detaches(c, r)
            /\ \/ Unpublish(r)
               \/ /\ players' = [players EXCEPT ![r][Owner[c]].client = NoClient]
                  /\ UNCHANGED << clientRoom, life >>
            /\ target' = [target EXCEPT ![c] = r]
            /\ doing' = [doing EXCEPT ![c] = "reporting"]
   BY <1>8, Zenon DEF NotifyPlayerOffline
 <2>2. CASE /\ \A r \in PublishedAs(clientRoom[c]) : publishing[r] = NoClient /\ ~Detaches(c, r)
            /\ doing' = [doing EXCEPT ![c] = "gone"]
            /\ clientRoom' = [clientRoom EXCEPT ![c] = NoCode]
            /\ UNCHANGED << target, life, players >>
  <3>1. doing'[c] = "gone" /\ clientRoom'[c] = NoCode /\ OthersKeep(c)
    BY <2>0, <2>2 DEF ConnectionTypes, OthersKeep, OthersStay
  <3>2. \A r \in Room : Published(r) /\ CodeOf[r] = clientRoom[c] =>
          publishing[r] = NoClient /\ Connected(r, Owner[c]) # c
    BY <2>2 DEF PublishedAs, Detaches, Connected
  <3> QED BY <2>0, <2>2, <3>1, <3>2 DEF Fades, SameMembers, Connected
 <2>3. ASSUME NEW r \in Room, Locks(r), players[r][Owner[c]].client = c,
              players' = [players EXCEPT ![r][Owner[c]].client = NoClient],
              UNCHANGED << clientRoom, life >>,
              target' = [target EXCEPT ![c] = r], doing' = [doing EXCEPT ![c] = "reporting"]
       PROVE  Detached(c, r)
  <3>1. doing'[c] = "reporting" /\ OthersKeep(c)
    BY <2>0, <2>3 DEF ConnectionTypes, OthersKeep, OthersStay
  <3>2. Reconnected(r, c, NoClient)
    BY <1>0, <2>3, ClientSet DEF Reconnected, Connected
  <3> QED BY <2>0, <2>3, <3>1, <3>2 DEF Detached, Connected
 <2>4. ASSUME NEW r \in Room, Locks(r), Unpublish(r), CodeOf[r] = clientRoom[c],
              target' = [target EXCEPT ![c] = r], doing' = [doing EXCEPT ![c] = "reporting"]
       PROVE  Clears(r)
  <3>1. doing'[c] = "reporting" /\ OthersStay(c)
    BY <2>4 DEF ConnectionTypes, OthersStay
  <3> QED BY <2>0, <2>4, <3>1, UnpublishDoes, MemberFacts DEF Clears, Connected, RoomTypes
 <2>5. \A r \in PublishedAs(clientRoom[c]) : r \in Room /\ CodeOf[r] = clientRoom[c]
   BY DEF PublishedAs
 <2> QED BY <2>1, <2>2, <2>3, <2>4, <2>5, Zenon DEF Detaches
<1>9. ASSUME NEW c \in Connection, ReportOffline(c) PROVE Fades(c)
  BY <1>9 DEF ReportOffline, Fades, ConnectionTypes, OthersKeep, OthersStay, reconnects, SameMembers,
              Connected
<1>10. ASSUME NEW c \in Connection, RebindClient(c) PROVE Rebinds(c)
  BY <1>10 DEF RebindClient, Rebinds, ConnectionTypes, OthersKeep, OthersStay, rooms, SameMembers,
               Connected
<1>11. ASSUME NEW c \in Connection, ReconnectPlayer(c) PROVE \E r \in Room : Attaches(c, r)
 <2>1. PICK r \in Room :
         /\ Locks(r) /\ CodeOf[r] = clientRoom[c]
         /\ former' = [former EXCEPT ![c] = players[r][Owner[c]].client]
         /\ players' = [players EXCEPT ![r][Owner[c]].client = c]
         /\ target' = [target EXCEPT ![c] = r]
   BY <1>11 DEF ReconnectPlayer, Restorable, PublishedAs, AttachClient
 <2>2. /\ doing[c] = "rebound" /\ doing' = [doing EXCEPT ![c] = "attached"]
       /\ clientRoom' = [clientRoom EXCEPT ![c] = clientRoom[c]]
       /\ UNCHANGED << clients, previous, life >>
   BY <1>11 DEF ReconnectPlayer, Bind
 <2>3. Reconnected(r, c, c)
   BY <1>0, <2>1, ClientSet DEF Reconnected, Connected
 <2>4. UNCHANGED clientRoom
   BY <2>2 DEF ConnectionTypes
 <2>5. /\ doing'[c] = "attached" /\ target'[c] = r /\ former'[c] = Connected(r, Owner[c])
       /\ OthersKeep(c)
   BY <2>1, <2>2, <2>4 DEF ConnectionTypes, OthersKeep, OthersStay, Connected
 <2>6. Attaches(c, r)
   BY <2>1, <2>2, <2>3, <2>4, <2>5 DEF Attaches
 <2> QED BY <2>6
<1>12. ASSUME NEW c \in Connection, ReconnectRoomless(c) PROVE Roams(c)
  BY <1>12 DEF ReconnectRoomless, Bind, Finish, Roams, ConnectionTypes, OthersKeep, OthersStay, rooms,
               SameMembers, Connected
<1>13. ASSUME NEW c \in Connection, DeliverSnapshot(c) PROVE Arrives(c) \/ Recedes(c)
 <2>1. /\ doing[c] = "attached" /\ target' = [target EXCEPT ![c] = NoRoom]
       /\ former' = [former EXCEPT ![c] = NoClient]
       /\ UNCHANGED << clients, clientRoom, life >>
       /\ \/ /\ previous' = [previous EXCEPT ![c] = NoClient]
             /\ doing' = [doing EXCEPT ![c] = "idle"]
             /\ UNCHANGED players
          \/ /\ players' = [players EXCEPT ![target[c]][Owner[c]].client = former[c]]
             /\ doing' = [doing EXCEPT ![c] = "undone"]
             /\ UNCHANGED previous
   BY <1>13 DEF DeliverSnapshot, RoomRolledBack, Finish
 <2>2. target[c] \in Room /\ former[c] \in Connection \cup {NoClient}
   BY <2>1 DEF GamesInv, Publishes, ConnectionTypes
 <2>3. CASE /\ previous' = [previous EXCEPT ![c] = NoClient]
            /\ doing' = [doing EXCEPT ![c] = "idle"]
            /\ UNCHANGED players
   BY <2>1, <2>3 DEF Arrives, ConnectionTypes, OthersKeep, OthersStay, SameMembers, Connected
 <2>4. CASE /\ players' = [players EXCEPT ![target[c]][Owner[c]].client = former[c]]
            /\ doing' = [doing EXCEPT ![c] = "undone"]
            /\ UNCHANGED previous
  <3>1. doing'[c] = "undone" /\ OthersKeep(c)
    BY <2>1, <2>4 DEF ConnectionTypes, OthersKeep, OthersStay
  <3>2. Reconnected(target[c], c, former[c])
    BY <1>0, <2>2, <2>4, ClientSet DEF Reconnected, Connected
  <3> QED BY <2>1, <2>4, <3>1, <3>2 DEF Recedes
 <2> QED BY <2>1, <2>3, <2>4
<1>14. ASSUME NEW c \in Connection, RollbackRebindClient(c) PROVE Undoes(c)
  BY <1>14 DEF RollbackRebindClient, Undoes, ConnectionTypes, OthersKeep, OthersStay, rooms,
               SameMembers, Connected
<1>15. ASSUME NEW r \in Room, GameOver(r) PROVE BondsStep
 <2>1. SameMembers
   BY <1>0, <1>15, ReadyReset DEF GameOver, SameMembers, Connected
 <2>2. UNCHANGED << doing, target >> /\ SameBooks
   BY <1>15, <2>1 DEF GameOver, connections, reconnects, SameBooks
 <2> QED BY <2>2 DEF BondsStep
<1>16. ASSUME NEW r \in Room, RemoveIdleRoom(r) PROVE Clears(r)
  BY <1>16, UnpublishDoes, MemberFacts DEF RemoveIdleRoom, Clears, Connected, reconnects, RoomTypes
<1>17. ASSUME NEW r \in Room, HandleRoomRemoved(r) PROVE BondsStep
 <2>1. UNCHANGED << doing, target >> /\ SameBooks
   BY <1>17 DEF HandleRoomRemoved, connections, reconnects, SameBooks, SameMembers, Connected
 <2> QED BY <2>1 DEF BondsStep
<1>18. CASE (\E k \in Code : Persist(k)) \/ Close \/ CloseStore \/ UNCHANGED roomsVars
 <2>1. UNCHANGED << doing, target >> /\ SameBooks
   BY <1>18 DEF Persist, Close, CloseStore, roomsVars, connections, rooms, reconnects, SameBooks,
                SameMembers, Connected
 <2> QED BY <2>1 DEF BondsStep
<1>19. ASSUME NEW c \in Connection, Command(c) PROVE BondsStep
  BY <1>1, <1>2, <1>3, <1>4, <1>5, <1>6, <1>19, Zenon DEF Command, BondsStep
<1>20. ASSUME NEW c \in Connection, Proceed(c) PROVE BondsStep
  BY <1>7, <1>8, <1>9, <1>10, <1>11, <1>12, <1>13, <1>14, <1>20, Zenon DEF Proceed, BondsStep
<1>21. ASSUME NEW r \in Room, Manage(r) PROVE BondsStep
  BY <1>15, <1>16, <1>17, <1>21, Zenon DEF Manage, BondsStep
<1> QED BY <1>18, <1>19, <1>20, <1>21, Zenon DEF RoomsNext

-----------------------------------------------------------------------------
(* The bonds are kept.                                                     *)

BondsFacts ==
  /\ \A c \in Connection : /\ Owner[c] \in Player /\ c # NoClient
                           /\ doing[c] \in Doing /\ clientRoom[c] \in Code \cup {NoCode}
                           /\ former[c] \in Connection \cup {NoClient}
                           /\ previous[c] \in Connection \cup {NoClient}
  /\ \A p \in Player : clients[p] \in Connection \cup {NoClient}
  /\ \A r \in Room : /\ CodeOf[r] \in Code /\ CodeOf[r] # NoCode
                     /\ \A p \in Player : Connected(r, p) \in Connection \cup {NoClient}
  /\ clients \in [Player -> Connection \cup {NoClient}]

LEMMA BondsFactsHold ==
  ASSUME Types PROVE BondsFacts
<1> USE ConstantFacts DEF Types
<1>1. ASSUME NEW r \in Room, NEW p \in Player PROVE Connected(r, p) \in Connection \cup {NoClient}
 <2>1. players[r][p] \in Member
   BY DEF RoomTypes
 <2> QED BY <2>1 DEF Member, Connected
<1> QED BY <1>1 DEF BondsFacts, ConnectionTypes

\* A room whose publishMu is free is nobody's to come back to, and a code is
\* of one room.
LEMMA AttachedElsewhere ==
  ASSUME BondsFacts, GamesInv, OneRoomACode
  PROVE  /\ \A d \in Connection : doing[d] = "attached" =>
              /\ target[d] \in Room /\ Published(target[d]) /\ publishing[target[d]] = d
              /\ \A r \in Room : Locks(r) => target[d] # r /\ CodeOf[target[d]] # CodeOf[r]
         /\ \A q, r \in Room : Published(q) /\ Published(r) /\ CodeOf[q] = CodeOf[r] => q = r
BY DEF BondsFacts, GamesInv, Publishes, OneRoomACode, Locks

LEMMA ServesKeepsBonds ==
  ASSUME BondsFacts, GamesInv, OneRoomACode, BondsInv, NEW c \in Connection, Serves(c)
  PROVE  BondsInv'
<1> USE DEF BondsFacts, BondsInv, Serves, OthersKeep, OthersStay, Serving, SameBooks, SameMembers, Reconnected, Doing
<1>1. Attending'
  BY DEF Attending, Connected, GamesInv, Publishes
<1>2. OneReconnects'
  BY DEF OneReconnects, Reconnecting
<1>3. MemberConnections'
  BY DEF MemberConnections, Published
<1>4. FormerConnections'
  BY DEF FormerConnections
<1>5. BoundHold'
  BY DEF BoundHold, Serving, Rightful, Belongs, Published
<1> QED BY <1>1, <1>2, <1>3, <1>4, <1>5

LEMMA BreaksKeepsBonds ==
  ASSUME BondsFacts, GamesInv, OneRoomACode, BondsInv, NEW c \in Connection, Breaks(c)
  PROVE  BondsInv'
<1> USE DEF BondsFacts, BondsInv, Breaks, OthersKeep, OthersStay, SameBooks, SameMembers, Reconnected, Doing
<1>1. Attending'
  BY DEF Attending, Connected, GamesInv, Publishes
<1>2. OneReconnects'
  BY DEF OneReconnects, Reconnecting
<1>3. MemberConnections'
  BY DEF MemberConnections, Published
<1>4. FormerConnections'
  BY DEF FormerConnections
<1>5. BoundHold'
  BY DEF BoundHold, Serving, Rightful, Belongs, Published
<1> QED BY <1>1, <1>2, <1>3, <1>4, <1>5

LEMMA FadesKeepsBonds ==
  ASSUME BondsFacts, GamesInv, OneRoomACode, BondsInv, NEW c \in Connection, Fades(c)
  PROVE  BondsInv'
<1> USE DEF BondsFacts, BondsInv, Fades, OthersKeep, OthersStay, SameBooks, SameMembers, Reconnected, Doing
<1>1. Attending'
  BY DEF Attending, Connected, GamesInv, Publishes
<1>2. OneReconnects'
  BY DEF OneReconnects, Reconnecting
<1>3. MemberConnections'
  BY DEF MemberConnections, Published
<1>4. FormerConnections'
 <2> SUFFICES ASSUME NEW d \in Connection, doing'[d] = "attached", former'[d] # NoClient
              PROVE  /\ clientRoom'[former'[d]] = CodeOf[target'[d]] /\ Owner[former'[d]] = Owner[d]
                     /\ doing'[former'[d]] \in {"idle", "starting", "saving", "leaving", "gone"}
   BY DEF FormerConnections
 <2>1. /\ d # c /\ doing[d] = "attached" /\ former'[d] = former[d] /\ target'[d] = target[d]
       /\ target[d] \in Room /\ Published(target[d]) /\ publishing[target[d]] = d
   BY AttachedElsewhere
 <2>2. former[d] # c
   BY <2>1 DEF FormerConnections
 <2> QED BY <2>1, <2>2 DEF FormerConnections
<1>5. BoundHold'
  BY DEF BoundHold, Serving, Rightful, Belongs, Published
<1> QED BY <1>1, <1>2, <1>3, <1>4, <1>5

LEMMA RecallsKeepsBonds ==
  ASSUME BondsFacts, GamesInv, OneRoomACode, BondsInv, NEW c \in Connection, Recalls(c)
  PROVE  BondsInv'
<1> USE DEF BondsFacts, BondsInv, Recalls, OthersKeep, OthersStay, SameBooks, SameMembers, Reconnected, Doing
<1>1. Attending'
  BY DEF Attending, Connected, GamesInv, Publishes
<1>2. OneReconnects'
  BY DEF OneReconnects, Reconnecting
<1>3. MemberConnections'
  BY DEF MemberConnections, Published
<1>4. FormerConnections'
  BY DEF FormerConnections
<1>5. BoundHold'
  BY DEF BoundHold, Serving, Rightful, Belongs, Published
<1> QED BY <1>1, <1>2, <1>3, <1>4, <1>5

LEMMA RebindsKeepsBonds ==
  ASSUME BondsFacts, GamesInv, OneRoomACode, BondsInv, NEW c \in Connection, Rebinds(c)
  PROVE  BondsInv'
<1> USE DEF BondsFacts, BondsInv, Rebinds, OthersKeep, OthersStay, SameBooks, SameMembers, Reconnected, Doing
<1>1. Attending'
  BY DEF Attending, Connected, GamesInv, Publishes
<1>2. OneReconnects'
  BY DEF OneReconnects, Reconnecting
<1>3. MemberConnections'
  BY DEF MemberConnections, Published
<1>4. FormerConnections'
  BY DEF FormerConnections
<1>5. BoundHold'
  BY DEF BoundHold, Serving, Rightful, Belongs, Published
<1> QED BY <1>1, <1>2, <1>3, <1>4, <1>5

LEMMA RoamsKeepsBonds ==
  ASSUME BondsFacts, GamesInv, OneRoomACode, BondsInv, NEW c \in Connection, Roams(c)
  PROVE  BondsInv'
<1> USE DEF BondsFacts, BondsInv, Roams, OthersKeep, OthersStay, SameBooks, SameMembers, Reconnected, Doing
<1>1. Attending'
  BY DEF Attending, Connected, GamesInv, Publishes
<1>2. OneReconnects'
  BY DEF OneReconnects, Reconnecting
<1>3. MemberConnections'
  BY DEF MemberConnections, Published
<1>4. FormerConnections'
  BY DEF FormerConnections
<1>5. BoundHold'
  BY DEF BoundHold, Serving, Rightful, Belongs, Published
<1> QED BY <1>1, <1>2, <1>3, <1>4, <1>5

LEMMA ArrivesKeepsBonds ==
  ASSUME BondsFacts, GamesInv, OneRoomACode, BondsInv, NEW c \in Connection, Arrives(c)
  PROVE  BondsInv'
<1> USE DEF BondsFacts, BondsInv, Arrives, OthersKeep, OthersStay, SameBooks, SameMembers, Reconnected, Doing
<1>1. Attending'
  BY DEF Attending, Connected, GamesInv, Publishes
<1>2. OneReconnects'
  BY DEF OneReconnects, Reconnecting
<1>3. MemberConnections'
  BY DEF MemberConnections, Published
<1>4. FormerConnections'
  BY DEF FormerConnections
<1>5. BoundHold'
 <2> SUFFICES ASSUME NEW d \in Connection, Serving(d)', Rightful(d)', clientRoom'[d] # NoCode
              PROVE  \E r \in Room : Published(r)' /\ CodeOf[r] = clientRoom'[d] /\ Belongs(d, r)'
   BY DEF BoundHold
 <2>1. CASE d = c
  <3>1. target[c] \in Room /\ Published(target[c])
    BY AttachedElsewhere
  <3>2. Connected(target[c], Owner[c]) = c /\ clientRoom[c] = CodeOf[target[c]]
    BY DEF Attending, Connected
  <3>3. PICK r \in Room : r = target[c]
    BY <3>1
  <3>4. Connected(r, Owner[c])' = c
    BY <3>2, <3>3
  <3>5. Published(r)' /\ CodeOf[r] = clientRoom'[c]
    BY <3>1, <3>2, <3>3 DEF Published
  <3>6. Belongs(c, r)'
    BY <3>4 DEF Belongs
  <3> QED BY <2>1, <3>5, <3>6
 <2>2. CASE d # c
  <3>1. Serving(d) /\ Rightful(d) /\ clientRoom[d] # NoCode
    BY <2>2 DEF Serving, Rightful
  <3>2. PICK r \in Room : Published(r) /\ CodeOf[r] = clientRoom[d] /\ Belongs(d, r)
    BY <3>1 DEF BoundHold
  <3>3. \A e \in Connection : doing[e] \in {"rebound", "attached", "undone"} => e = c
    BY DEF OneReconnects, Reconnecting
  <3>4. clients[Owner[d]] = d
    BY <2>2, <3>3 DEF Rightful
  <3>5. Owner[d] # Owner[c]
    BY <2>2, <3>4 DEF OneReconnects
  <3>6. Connected(r, Owner[d]) = d
    BY <3>2, <3>3, <3>5 DEF Belongs
  <3> QED BY <3>2, <3>6 DEF Belongs, Published
 <2> QED BY <2>1, <2>2
<1> QED BY <1>1, <1>2, <1>3, <1>4, <1>5

LEMMA RecedesKeepsBonds ==
  ASSUME BondsFacts, GamesInv, OneRoomACode, BondsInv, NEW c \in Connection, Recedes(c)
  PROVE  BondsInv'
<1> USE DEF BondsFacts, BondsInv, Recedes, OthersKeep, OthersStay, SameBooks, SameMembers, Reconnected, Doing
<1>1. Attending'
  BY DEF Attending, Connected, GamesInv, Publishes
<1>2. OneReconnects'
  BY DEF OneReconnects, Reconnecting
<1>3. MemberConnections'
 <2> SUFFICES ASSUME NEW r \in Room, NEW p \in Player, Published(r), Connected(r, p)' # NoClient
              PROVE  /\ clientRoom'[Connected(r, p)'] = CodeOf[r] /\ Owner[Connected(r, p)'] = p
                     /\ doing'[Connected(r, p)'] \in
                          {"idle", "starting", "saving", "leaving", "attached", "gone"}
   BY DEF MemberConnections, Published
 <2>1. CASE r = target[c] /\ p = Owner[c]
  <3>1. Connected(r, p)' = former[c] /\ former[c] \in Connection
    BY <2>1
  <3>2. former[c] # c
    BY <3>1 DEF FormerConnections
  <3> QED BY <2>1, <3>1, <3>2 DEF FormerConnections
 <2>2. CASE ~(r = target[c] /\ p = Owner[c])
  <3> DEFINE x == Connected(r, p)
  <3>1. Connected(r, p)' = x /\ x \in Connection
    BY <2>2
  <3>2. clientRoom[x] = CodeOf[r] /\ Owner[x] = p
        /\ doing[x] \in {"idle", "starting", "saving", "leaving", "attached", "gone"}
    BY <3>1 DEF MemberConnections
  <3>3. x # c
    BY <2>2, <3>2, AttachedElsewhere DEF Attending
  <3> QED BY <3>1, <3>2, <3>3
 <2> QED BY <2>1, <2>2
<1>4. FormerConnections'
  BY DEF FormerConnections
<1>5. BoundHold'
 <2> SUFFICES ASSUME NEW d \in Connection, Serving(d)', Rightful(d)', clientRoom'[d] # NoCode
              PROVE  \E r \in Room : Published(r)' /\ CodeOf[r] = clientRoom'[d] /\ Belongs(d, r)'
   BY DEF BoundHold
 <2>1. d # c /\ Serving(d) /\ Rightful(d) /\ clientRoom[d] # NoCode
   BY DEF Serving, Rightful
 <2>2. PICK r \in Room : Published(r) /\ CodeOf[r] = clientRoom[d] /\ Belongs(d, r)
   BY <2>1 DEF BoundHold
 <2>3. Connected(r, Owner[d])' = d
  <3>1. CASE Connected(r, Owner[d]) = d
   <4>1. ~(r = target[c] /\ Owner[d] = Owner[c])
     BY <2>1, <3>1 DEF Attending, Connected
   <4> QED BY <3>1, <4>1
  <3>2. CASE Connected(r, Owner[d]) # d
   <4>1. target[c] = r /\ former[c] = d /\ Owner[c] = Owner[d]
     BY <2>2, <3>2 DEF Belongs, OneReconnects, Reconnecting
   <4> QED BY <4>1
  <3> QED BY <3>1, <3>2
 <2> QED BY <2>2, <2>3 DEF Belongs, Published
<1> QED BY <1>1, <1>2, <1>3, <1>4, <1>5

LEMMA UndoesKeepsBonds ==
  ASSUME BondsFacts, GamesInv, OneRoomACode, BondsInv, NEW c \in Connection, Undoes(c)
  PROVE  BondsInv'
<1> USE DEF BondsFacts, BondsInv, Undoes, OthersKeep, OthersStay, SameBooks, SameMembers, Reconnected, Doing
<1>1. Attending'
  BY DEF Attending, Connected, GamesInv, Publishes
<1>2. OneReconnects'
  BY DEF OneReconnects, Reconnecting
<1>3. MemberConnections'
  BY DEF MemberConnections, Published
<1>4. FormerConnections'
  BY DEF FormerConnections
<1>5. BoundHold'
  BY DEF BoundHold, Serving, Rightful, Belongs, Published
<1> QED BY <1>1, <1>2, <1>3, <1>4, <1>5

LEMMA BindsKeepsBonds ==
  ASSUME BondsFacts, GamesInv, OneRoomACode, BondsInv, NEW c \in Connection, NEW r \in Room, Binds(c, r)
  PROVE  BondsInv'
<1> USE DEF BondsFacts, BondsInv, Binds, OthersKeep, OthersStay, SameBooks, SameMembers, Reconnected, Doing
<1>1. Attending'
  BY DEF Attending, Connected, GamesInv, Publishes
<1>2. OneReconnects'
  BY DEF OneReconnects, Reconnecting
<1>3. MemberConnections'
  BY DEF MemberConnections, Published
<1>4. FormerConnections'
 <2> SUFFICES ASSUME NEW d \in Connection, doing'[d] = "attached", former'[d] # NoClient
              PROVE  /\ clientRoom'[former'[d]] = CodeOf[target'[d]] /\ Owner[former'[d]] = Owner[d]
                     /\ doing'[former'[d]] \in {"idle", "starting", "saving", "leaving", "gone"}
   BY DEF FormerConnections
 <2>1. /\ d # c /\ doing[d] = "attached" /\ former'[d] = former[d] /\ target'[d] = target[d]
       /\ target[d] \in Room
   BY AttachedElsewhere
 <2>2. former[d] # c
   BY <2>1 DEF FormerConnections
 <2> QED BY <2>1, <2>2 DEF FormerConnections
<1>5. BoundHold'
 <2> SUFFICES ASSUME NEW d \in Connection, Serving(d)', Rightful(d)', clientRoom'[d] # NoCode
              PROVE  \E q \in Room : Published(q)' /\ CodeOf[q] = clientRoom'[d] /\ Belongs(d, q)'
   BY DEF BoundHold
 <2>0. \A q \in Room : Published(q)' <=> (Published(q) \/ q = r)
   BY DEF Published
 <2>1. CASE d = c
  <3>1. Connected(r, Owner[c])' = c
    OBVIOUS
  <3> QED BY <2>0, <2>1, <3>1 DEF Belongs
 <2>2. CASE d # c
  <3>1. Serving(d) /\ Rightful(d) /\ clientRoom[d] # NoCode
    BY <2>2 DEF Serving, Rightful
  <3>2. PICK q \in Room : Published(q) /\ CodeOf[q] = clientRoom[d] /\ Belongs(d, q)
    BY <3>1 DEF BoundHold
  <3>3. CASE Connected(q, Owner[d]) = d
   <4>1. Connected(q, Owner[d])' = d
     BY <3>3
   <4> QED BY <2>0, <2>2, <3>2, <4>1 DEF Belongs
  <3>4. CASE Connected(q, Owner[d]) # d
   <4>1. PICK e \in Connection : /\ doing[e] = "attached" /\ target[e] = q /\ former[e] = d
                                 /\ Owner[e] = Owner[d]
     BY <3>2, <3>4 DEF Belongs
   <4>2. /\ doing'[e] = "attached" /\ target'[e] = q /\ former'[e] = d
     BY <4>1
   <4>3. Belongs(d, q)'
     BY <4>1, <4>2 DEF Belongs
   <4> QED BY <2>0, <2>2, <3>2, <4>3
  <3> QED BY <3>3, <3>4
 <2> QED BY <2>1, <2>2
<1> QED BY <1>1, <1>2, <1>3, <1>4, <1>5

LEMMA UnbindsKeepsBonds ==
  ASSUME BondsFacts, GamesInv, OneRoomACode, BondsInv, NEW c \in Connection, NEW r \in Room, Unbinds(c, r)
  PROVE  BondsInv'
<1> USE DEF BondsFacts, BondsInv, Unbinds, OthersKeep, OthersStay, SameBooks, SameMembers, Reconnected, Doing
<1>1. Attending'
  BY DEF Attending, Connected, GamesInv, Publishes
<1>2. OneReconnects'
  BY DEF OneReconnects, Reconnecting
<1>3. MemberConnections'
 <2> SUFFICES ASSUME NEW q \in Room, NEW p \in Player, Published(q), Connected(q, p)' # NoClient
              PROVE  /\ clientRoom'[Connected(q, p)'] = CodeOf[q] /\ Owner[Connected(q, p)'] = p
                     /\ doing'[Connected(q, p)'] \in
                          {"idle", "starting", "saving", "leaving", "attached", "gone"}
   BY DEF MemberConnections, Published
 <2> DEFINE x == Connected(q, p)
 <2>1. Connected(q, p)' = x /\ x \in Connection /\ ~(q = r /\ p = Owner[c])
   OBVIOUS
 <2>2. clientRoom[x] = CodeOf[q] /\ Owner[x] = p
       /\ doing[x] \in {"idle", "starting", "saving", "leaving", "attached", "gone"}
   BY <2>1 DEF MemberConnections
 <2>3. clientRoom[c] = CodeOf[r]
   BY DEF MemberConnections, Locks
 <2>4. x # c
   BY <2>1, <2>2, <2>3, AttachedElsewhere DEF Locks
 <2> QED BY <2>1, <2>2, <2>4
<1>4. FormerConnections'
 <2> SUFFICES ASSUME NEW d \in Connection, doing'[d] = "attached", former'[d] # NoClient
              PROVE  /\ clientRoom'[former'[d]] = CodeOf[target'[d]] /\ Owner[former'[d]] = Owner[d]
                     /\ doing'[former'[d]] \in {"idle", "starting", "saving", "leaving", "gone"}
   BY DEF FormerConnections
 <2>1. /\ d # c /\ doing[d] = "attached" /\ former'[d] = former[d] /\ target'[d] = target[d]
       /\ target[d] \in Room /\ CodeOf[target[d]] # CodeOf[r]
   BY AttachedElsewhere
 <2>2. clientRoom[c] = CodeOf[r]
   BY DEF MemberConnections, Locks
 <2>3. former[d] # c
   BY <2>1, <2>2 DEF FormerConnections
 <2> QED BY <2>1, <2>3 DEF FormerConnections
<1>5. BoundHold'
  BY DEF BoundHold, Serving, Rightful, Belongs, Published
<1> QED BY <1>1, <1>2, <1>3, <1>4, <1>5

LEMMA DetachedKeepsBonds ==
  ASSUME BondsFacts, GamesInv, OneRoomACode, BondsInv, NEW c \in Connection, NEW r \in Room, Detached(c, r)
  PROVE  BondsInv'
<1> USE DEF BondsFacts, BondsInv, Detached, OthersKeep, OthersStay, SameBooks, SameMembers, Reconnected, Doing
<1>1. Attending'
  BY DEF Attending, Connected, GamesInv, Publishes
<1>2. OneReconnects'
  BY DEF OneReconnects, Reconnecting
<1>3. MemberConnections'
 <2> SUFFICES ASSUME NEW q \in Room, NEW p \in Player, Published(q), Connected(q, p)' # NoClient
              PROVE  /\ clientRoom'[Connected(q, p)'] = CodeOf[q] /\ Owner[Connected(q, p)'] = p
                     /\ doing'[Connected(q, p)'] \in
                          {"idle", "starting", "saving", "leaving", "attached", "gone"}
   BY DEF MemberConnections, Published
 <2> DEFINE x == Connected(q, p)
 <2>1. Connected(q, p)' = x /\ x \in Connection /\ ~(q = r /\ p = Owner[c])
   OBVIOUS
 <2>2. clientRoom[x] = CodeOf[q] /\ Owner[x] = p
       /\ doing[x] \in {"idle", "starting", "saving", "leaving", "attached", "gone"}
   BY <2>1 DEF MemberConnections
 <2>3. clientRoom[c] = CodeOf[r]
   BY DEF MemberConnections, Locks
 <2>4. x # c
   BY <2>1, <2>2, <2>3, AttachedElsewhere DEF Locks
 <2> QED BY <2>1, <2>2, <2>4
<1>4. FormerConnections'
 <2> SUFFICES ASSUME NEW d \in Connection, doing'[d] = "attached", former'[d] # NoClient
              PROVE  /\ clientRoom'[former'[d]] = CodeOf[target'[d]] /\ Owner[former'[d]] = Owner[d]
                     /\ doing'[former'[d]] \in {"idle", "starting", "saving", "leaving", "gone"}
   BY DEF FormerConnections
 <2>1. /\ d # c /\ doing[d] = "attached" /\ former'[d] = former[d] /\ target'[d] = target[d]
       /\ target[d] \in Room /\ CodeOf[target[d]] # CodeOf[r]
   BY AttachedElsewhere
 <2>2. clientRoom[c] = CodeOf[r]
   BY DEF MemberConnections, Locks
 <2>3. former[d] # c
   BY <2>1, <2>2 DEF FormerConnections
 <2> QED BY <2>1, <2>3 DEF FormerConnections
<1>5. BoundHold'
  BY DEF BoundHold, Serving, Rightful, Belongs, Published
<1> QED BY <1>1, <1>2, <1>3, <1>4, <1>5

LEMMA AttachesKeepsBonds ==
  ASSUME BondsFacts, GamesInv, OneRoomACode, BondsInv, NEW c \in Connection, NEW r \in Room, Attaches(c, r)
  PROVE  BondsInv'
<1> USE DEF BondsFacts, BondsInv, Attaches, OthersKeep, OthersStay, SameBooks, SameMembers, Reconnected, Doing
<1>1. Attending'
 <2>1. \A d \in Connection : doing'[d] = "attached" => d = c
   BY DEF OneReconnects, Reconnecting
 <2>2. players'[r][Owner[c]].client = c
   BY DEF Connected
 <2> QED BY <2>1, <2>2 DEF Attending
<1>2. OneReconnects'
  BY DEF OneReconnects, Reconnecting
<1>3. MemberConnections'
  BY DEF MemberConnections, Published
<1>4. FormerConnections'
 <2>1. \A d \in Connection : doing'[d] = "attached" => d = c
   BY DEF OneReconnects, Reconnecting
 <2>2. ASSUME former'[c] # NoClient
       PROVE  /\ clientRoom'[former'[c]] = CodeOf[r] /\ Owner[former'[c]] = Owner[c]
              /\ doing'[former'[c]] \in {"idle", "starting", "saving", "leaving", "gone"}
  <3> DEFINE x == Connected(r, Owner[c])
  <3>1. former'[c] = x /\ x \in Connection
    BY <2>2
  <3>2. clientRoom[x] = CodeOf[r] /\ Owner[x] = Owner[c]
        /\ doing[x] \in {"idle", "starting", "saving", "leaving", "attached", "gone"}
    BY <3>1 DEF MemberConnections, Locks
  <3>3. x # c
    BY <3>2
  <3>4. doing[x] # "attached"
    BY <3>1, <3>3 DEF OneReconnects, Reconnecting
  <3> QED BY <3>1, <3>2, <3>3, <3>4
 <2> QED BY <2>1, <2>2 DEF FormerConnections
<1>5. BoundHold'
  BY DEF BoundHold, Serving, Rightful, Belongs, Published
<1> QED BY <1>1, <1>2, <1>3, <1>4, <1>5

LEMMA ClearsKeepsBonds ==
  ASSUME BondsFacts, GamesInv, OneRoomACode, BondsInv, NEW r \in Room, Clears(r)
  PROVE  BondsInv'
<1> USE DEF BondsFacts, BondsInv, Clears, OthersStay, SameBooks, SameMembers, Reconnected, Doing
<1>1. Attending'
 <2> SUFFICES ASSUME NEW d \in Connection, doing'[d] = "attached"
              PROVE  players'[target'[d]][Owner[d]].client = d /\ clientRoom'[d] = CodeOf[target'[d]]
   BY DEF Attending
 <2>1. doing[d] = "attached" /\ target'[d] = target[d]
   OBVIOUS
 <2>2. target[d] \in Room /\ target[d] # r /\ CodeOf[target[d]] # CodeOf[r]
   BY <2>1, AttachedElsewhere
 <2>3. Connected(target[d], Owner[d])' = Connected(target[d], Owner[d])
   BY <2>2
 <2>4. Connected(target[d], Owner[d]) = d /\ clientRoom[d] = CodeOf[target[d]]
   BY <2>1 DEF Attending, Connected
 <2>5. clientRoom'[d] = clientRoom[d]
   BY <2>2, <2>4
 <2>6. players'[target[d]][Owner[d]].client = d
   BY <2>3, <2>4 DEF Connected
 <2> QED BY <2>1, <2>4, <2>5, <2>6
<1>2. OneReconnects'
  BY DEF OneReconnects, Reconnecting
<1>3. MemberConnections'
 <2> SUFFICES ASSUME NEW q \in Room, NEW p \in Player, Published(q)', Connected(q, p)' # NoClient
              PROVE  /\ clientRoom'[Connected(q, p)'] = CodeOf[q] /\ Owner[Connected(q, p)'] = p
                     /\ doing'[Connected(q, p)'] \in
                          {"idle", "starting", "saving", "leaving", "attached", "gone"}
   BY DEF MemberConnections
 <2> DEFINE x == Connected(q, p)
 <2>1. q # r /\ Published(q) /\ Connected(q, p)' = x /\ x \in Connection
   BY DEF Published
 <2>2. clientRoom[x] = CodeOf[q] /\ Owner[x] = p /\ CodeOf[q] # CodeOf[r]
       /\ doing[x] \in {"idle", "starting", "saving", "leaving", "attached", "gone"}
   BY <2>1, AttachedElsewhere DEF MemberConnections, Locks
 <2>3. clientRoom'[x] = clientRoom[x] /\ doing'[x] = doing[x]
   BY <2>1, <2>2
 <2> QED BY <2>1, <2>2, <2>3
<1>4. FormerConnections'
 <2> SUFFICES ASSUME NEW d \in Connection, doing'[d] = "attached", former'[d] # NoClient
              PROVE  /\ clientRoom'[former'[d]] = CodeOf[target'[d]] /\ Owner[former'[d]] = Owner[d]
                     /\ doing'[former'[d]] \in {"idle", "starting", "saving", "leaving", "gone"}
   BY DEF FormerConnections
 <2> DEFINE x == former[d]
 <2>1. /\ doing[d] = "attached" /\ former'[d] = x /\ target'[d] = target[d] /\ x \in Connection
       /\ target[d] \in Room /\ CodeOf[target[d]] # CodeOf[r]
   BY AttachedElsewhere
 <2>2. /\ clientRoom[x] = CodeOf[target[d]] /\ Owner[x] = Owner[d]
       /\ doing[x] \in {"idle", "starting", "saving", "leaving", "gone"}
   BY <2>1 DEF FormerConnections
 <2>3. clientRoom'[x] = clientRoom[x] /\ doing'[x] = doing[x]
   BY <2>1, <2>2
 <2> QED BY <2>1, <2>2, <2>3
<1>5. BoundHold'
 <2> SUFFICES ASSUME NEW d \in Connection, Serving(d)', Rightful(d)', clientRoom'[d] # NoCode
              PROVE  \E q \in Room : Published(q)' /\ CodeOf[q] = clientRoom'[d] /\ Belongs(d, q)'
   BY DEF BoundHold
 <2>1. Serving(d) /\ clientRoom[d] # NoCode /\ clientRoom'[d] = clientRoom[d]
       /\ (\A e \in Connection : doing'[e] \in {"rebound", "attached", "undone"} => doing[e] = doing'[e])
       /\ (\A e \in Connection : doing[e] = "attached" => doing'[e] = "attached" /\ target'[e] = target[e])
   BY DEF Serving
 <2>2. Rightful(d)
   BY <2>1 DEF Rightful
 <2>3. PICK q \in Room : Published(q) /\ CodeOf[q] = clientRoom[d] /\ Belongs(d, q)
   BY <2>1, <2>2 DEF BoundHold
 <2>4. CASE Connected(q, Owner[d]) = d
  <3>1. q # r
    BY <2>1, <2>3, <2>4
  <3>2. Published(q)' /\ Connected(q, Owner[d])' = d
    BY <2>3, <2>4, <3>1 DEF Published
  <3> QED BY <2>1, <2>3, <3>2 DEF Belongs
 <2>5. CASE Connected(q, Owner[d]) # d
  <3>1. PICK e \in Connection : /\ doing[e] = "attached" /\ target[e] = q /\ former[e] = d
                                /\ Owner[e] = Owner[d]
    BY <2>3, <2>5 DEF Belongs
  <3>2. q # r
    BY <3>1, AttachedElsewhere
  <3>3. doing'[e] = "attached" /\ target'[e] = q /\ former'[e] = d
    BY <2>1, <3>1
  <3>4. Published(q)' /\ Belongs(d, q)'
    BY <2>3, <3>1, <3>2, <3>3 DEF Belongs, Published
  <3> QED BY <2>1, <2>3, <3>4
 <2> QED BY <2>4, <2>5
<1> QED BY <1>1, <1>2, <1>3, <1>4, <1>5

LEMMA BondsStepKeepsInv ==
  ASSUME Types, GamesInv, OneRoomACode, BondsInv, BondsStep
  PROVE  BondsInv'
<1>1. BondsFacts
  BY BondsFactsHold
<1>2. CASE UNCHANGED << doing, target >> /\ SameBooks
  BY <1>1, <1>2 DEF SameBooks, SameMembers, BondsInv, BondsFacts, Attending, Connected, OneReconnects,
     Reconnecting, MemberConnections, FormerConnections, BoundHold, Serving, Rightful, Belongs, Published,
     GamesInv, Publishes
<1> QED BY <1>1, <1>2, ServesKeepsBonds, BreaksKeepsBonds, FadesKeepsBonds, RecallsKeepsBonds,
           RebindsKeepsBonds, RoamsKeepsBonds, ArrivesKeepsBonds, RecedesKeepsBonds, UndoesKeepsBonds,
           BindsKeepsBonds, UnbindsKeepsBonds, DetachedKeepsBonds, AttachesKeepsBonds, ClearsKeepsBonds,
           Zenon DEF BondsStep

-----------------------------------------------------------------------------
(* Who is offline.                                                         *)

\* What a running session knows, but for the news that is under way.
Told(r) ==
  LET c == publishing[r] IN
  CASE c = NoClient -> away[r] = OfflineMembers(r)
    [] c # NoClient /\ doing[c] = "reporting" ->
         OfflineMembers(r) = away[r] \cup {Owner[c]}
    [] c # NoClient /\ doing[c] = "attached" /\ former[c] = NoClient ->
         away[r] = OfflineMembers(r) \cup {Owner[c]}
    [] OTHER -> away[r] = OfflineMembers(r)

Informed(r) == Published(r) /\ game[r] = "running"

Presence == \A r \in Room : Informed(r) => Told(r)

\* A room's presence and what its session is told of it.
SamePresence(r) ==
  /\ OfflineMembers(r)' = OfflineMembers(r) /\ away'[r] = away[r] /\ publishing'[r] = publishing[r]
  /\ publishing[r] # NoClient => /\ doing'[publishing[r]] = doing[publishing[r]]
                                 /\ former'[publishing[r]] = former[publishing[r]]

Synchronizes(r) ==
  publishing'[r] = NoClient /\ away'[r] = OfflineMembers(r)'

Misses(c, r) ==
  /\ publishing[r] = NoClient /\ publishing'[r] = c /\ doing'[c] = "reporting" /\ away'[r] = away[r]
  /\ OfflineMembers(r)' = OfflineMembers(r) \cup {Owner[c]}

Reports(c, r) ==
  /\ publishing[r] = c /\ doing[c] = "reporting" /\ publishing'[r] = NoClient
  /\ OfflineMembers(r)' = OfflineMembers(r)
  /\ away'[r] = away[r] \cup {Owner[c]}

Returns(c, r) ==
  /\ publishing[r] = NoClient /\ publishing'[r] = c /\ doing'[c] = "attached" /\ away'[r] = away[r]
  /\ former'[c] = NoClient <=> Owner[c] \in OfflineMembers(r)
  /\ OfflineMembers(r)' = OfflineMembers(r) \ {Owner[c]}

Delivers(c, r) ==
  /\ publishing[r] = c /\ doing[c] = "attached" /\ publishing'[r] = NoClient
  /\ Owner[c] \notin OfflineMembers(r)
  /\ \/ /\ away'[r] = away[r] \ {Owner[c]} /\ OfflineMembers(r)' = OfflineMembers(r)
     \/ /\ away'[r] = away[r]
        /\ OfflineMembers(r)' = IF former[c] = NoClient THEN OfflineMembers(r) \cup {Owner[c]}
                                ELSE OfflineMembers(r)

PresenceStep(r) ==
  \/ Informed(r) /\ SamePresence(r)
  \/ Synchronizes(r)
  \/ Informed(r) /\ \E c \in Connection : Misses(c, r) \/ Reports(c, r) \/ Returns(c, r) \/ Delivers(c, r)

LEMMA PresenceStepKeepsIt ==
  ASSUME Types, Presence, NEW r \in Room, PresenceStep(r)
  PROVE  Told(r)'
<1>1. CASE Informed(r) /\ SamePresence(r)
  BY <1>1 DEF SamePresence, Presence, Told
<1>2. CASE Synchronizes(r)
  BY <1>2 DEF Synchronizes, Told
<1>3. ASSUME NEW c \in Connection, Informed(r), Misses(c, r) PROVE Told(r)'
 <2>1. away[r] = OfflineMembers(r)
   BY <1>3 DEF Misses, Presence, Told
 <2> QED BY <1>3, <2>1, ConstantFacts DEF Misses, Told
<1>4. ASSUME NEW c \in Connection, Informed(r), Reports(c, r) PROVE Told(r)'
 <2>1. OfflineMembers(r) = away[r] \cup {Owner[c]}
   BY <1>4, ConstantFacts DEF Reports, Presence, Told
 <2> QED BY <1>4, <2>1 DEF Reports, Told
<1>5. ASSUME NEW c \in Connection, Informed(r), Returns(c, r) PROVE Told(r)'
 <2>1. away[r] = OfflineMembers(r)
   BY <1>5 DEF Returns, Presence, Told
 <2>2. CASE former'[c] = NoClient
   BY <1>5, <2>1, <2>2, ConstantFacts DEF Returns, Told
 <2>3. CASE former'[c] # NoClient
   BY <1>5, <2>1, <2>3, ConstantFacts DEF Returns, Told
 <2> QED BY <2>2, <2>3
<1>6. ASSUME NEW c \in Connection, Informed(r), Delivers(c, r) PROVE Told(r)'
 <2>1. away[r] = IF former[c] = NoClient THEN OfflineMembers(r) \cup {Owner[c]} ELSE OfflineMembers(r)
   BY <1>6, ConstantFacts DEF Delivers, Presence, Told
 <2>2. away'[r] = OfflineMembers(r)'
   BY <1>6, <2>1 DEF Delivers
 <2> QED BY <1>6, <2>2 DEF Delivers, Told
<1> QED BY <1>1, <1>2, <1>3, <1>4, <1>5, <1>6 DEF PresenceStep

\* Nobody's connection changes in a room whose players stay as they are.
LEMMA PresenceStays ==
  ASSUME NEW r \in Room, \A p \in Player : players'[r][p] = players[r][p]
  PROVE  OfflineMembers(r)' = OfflineMembers(r)
BY DEF OfflineMembers, Members, Attached

\* A member's connection changes.
LEMMA PresenceChanges ==
  ASSUME Types, Seated, NEW r \in Room, NEW p \in Members(r), NEW x \in Connection \cup {NoClient}
  PROVE  players' = [players EXCEPT ![r][p].client = x] =>
           /\ \A q \in Room : q # r => OfflineMembers(q)' = OfflineMembers(q)
           /\ OfflineMembers(r)' = IF x = NoClient THEN OfflineMembers(r) \cup {p}
                                   ELSE OfflineMembers(r) \ {p}
<1>1. SUFFICES ASSUME players' = [players EXCEPT ![r][p].client = x]
      PROVE  /\ \A q \in Room : q # r => OfflineMembers(q)' = OfflineMembers(q)
             /\ OfflineMembers(r)' = IF x = NoClient THEN OfflineMembers(r) \cup {p}
                                     ELSE OfflineMembers(r) \ {p}
  OBVIOUS
<1>2. p \in Player /\ players[r][p] # NoMember /\ players \in [Room -> [Player -> Member]]
  BY DEF Members, Types, RoomTypes
<1>3. \A q \in Room : q # r => OfflineMembers(q)' = OfflineMembers(q)
  BY <1>1, <1>2, PresenceStays
<1>4. /\ \A q \in Player : players'[r][q].seat = players[r][q].seat
      /\ \A q \in Player : players'[r][q].client = IF q = p THEN x ELSE players[r][q].client
  BY <1>1, <1>2, ClientSet
<1>5. players[r][p].seat \in Seats
  BY DEF Seated, Ordered
<1>6. players'[r][p].seat # RoomSize
  BY <1>2, <1>4, <1>5, ConstantFacts DEF Seats
<1>7. players'[r][p] # NoMember
  BY <1>6, MemberFacts
<1>8. \A q \in Player : q # p => players'[r][q] = players[r][q]
  BY <1>1, <1>2
<1>9. Members(r)' = Members(r)
  BY <1>2, <1>7, <1>8 DEF Members
<1>10. Attached(r)' = IF x = NoClient THEN Attached(r) \ {p} ELSE Attached(r) \cup {p}
  BY <1>2, <1>4 DEF Attached
<1> QED BY <1>3, <1>9, <1>10 DEF OfflineMembers

\* A step that leaves a room alone: it is of a handler that does not hold the
\* room's publishMu, or of none.
LEMMA LeavesPresence ==
  ASSUME Types, GamesInv, NEW q \in Room, NEW c,
         publishing[q] = c => doing[c] \notin {"reporting", "attached"},
         \A d \in Connection : d # c => doing'[d] = doing[d] /\ former'[d] = former[d],
         publishing'[q] = publishing[q], away'[q] = away[q],
         \A p \in Player : players'[q][p] = players[q][p]
  PROVE  SamePresence(q)
<1>1. publishing[q] # NoClient => publishing[q] \in Connection /\ publishing[q] # c
  BY DEF Types, RoomTypes, GamesInv, Publishes
<1> QED BY <1>1, PresenceStays DEF SamePresence

\* A room without a running game, and one that is not published, has none to be
\* told.
LEMMA NotInformed ==
  ASSUME GamesInv, NEW r \in Room, Informed(r)
  PROVE  /\ life[r] = "published" /\ state[r] # "Waiting" /\ games[CodeOf[r]] = r
         /\ life[r] # "unused"
BY DEF GamesInv, Lives, Starts, Registered, Informed, Published

\* A step of a connection moves nobody else's.
DoingOfOne(c) == UNCHANGED doing \/ \E x : doing' = [doing EXCEPT ![c] = x]

LEMMA CommandActsFor ==
  ASSUME NEW c \in Connection, Command(c)
  PROVE  /\ doing[c] \in {"idle", "temporary"}
         /\ DoingOfOne(c)
         /\ UNCHANGED << former, publishing, away >>
<1> USE DEF reconnects, rooms, sessions
<1>1. ASSUME NEW r \in Room, NEW ready \in BOOLEAN, CreateRoom(c, r)
      PROVE  doing[c] = "idle" /\ DoingOfOne(c) /\ UNCHANGED << former, publishing, away >>
 <2>1. doing[c] = "idle" /\ UNCHANGED << former, publishing, away >>
   BY <1>1 DEF CreateRoom, ThenSaves
 <2>2. DoingOfOne(c)
   BY <1>1, Zenon DEF CreateRoom, ThenSaves, DoingOfOne
 <2> QED BY <2>1, <2>2
<1>2. ASSUME NEW r \in Room, NEW ready \in BOOLEAN, JoinRoom(c, r)
      PROVE  doing[c] = "idle" /\ DoingOfOne(c) /\ UNCHANGED << former, publishing, away >>
 <2>1. doing[c] = "idle" /\ UNCHANGED << former, publishing, away >>
   BY <1>2 DEF JoinRoom, ThenSaves
 <2>2. DoingOfOne(c)
   BY <1>2, Zenon DEF JoinRoom, ThenSaves, DoingOfOne
 <2> QED BY <2>1, <2>2
<1>3. ASSUME NEW r \in Room, NEW ready \in BOOLEAN, LeaveRoom(c, r)
      PROVE  doing[c] = "idle" /\ DoingOfOne(c) /\ UNCHANGED << former, publishing, away >>
 <2>1. doing[c] = "idle" /\ UNCHANGED << former, publishing, away >>
   BY <1>3 DEF LeaveRoom, ThenSaves, CurrentMember
 <2>2. DoingOfOne(c)
   BY <1>3, Zenon DEF LeaveRoom, ThenSaves, CurrentMember, DoingOfOne
 <2> QED BY <2>1, <2>2
<1>4. ASSUME NEW r \in Room, NEW ready \in BOOLEAN, SetPlayerReady(c, r, ready)
      PROVE  doing[c] = "idle" /\ DoingOfOne(c) /\ UNCHANGED << former, publishing, away >>
 <2>1. doing[c] = "idle" /\ UNCHANGED << former, publishing, away >>
   BY <1>4 DEF SetPlayerReady, CurrentMember
 <2>2. DoingOfOne(c)
   BY <1>4, Zenon DEF SetPlayerReady, CurrentMember, DoingOfOne
 <2> QED BY <2>1, <2>2
<1>5. ASSUME Disconnect(c) \/ RestoreSession(c)
      PROVE  doing[c] \in {"idle", "temporary"} /\ DoingOfOne(c) /\ UNCHANGED << former, publishing, away >>
 <2>1. doing[c] \in {"idle", "temporary"} /\ UNCHANGED << former, publishing, away >>
   BY <1>5 DEF Disconnect, RestoreSession
 <2>2. DoingOfOne(c)
   BY <1>5, Zenon DEF Disconnect, RestoreSession, DoingOfOne
 <2> QED BY <2>1, <2>2
<1>6. CASE \E r \in Room : CreateRoom(c, r) \/ JoinRoom(c, r) \/ LeaveRoom(c, r)
 <2>1. TRUE \in BOOLEAN
   OBVIOUS
 <2> QED BY <1>1, <1>2, <1>3, <1>6, <2>1
<1>7. CASE \E r \in Room, ready \in BOOLEAN : SetPlayerReady(c, r, ready)
  BY <1>4, <1>7
<1> QED BY <1>5, <1>6, <1>7 DEF Command

LEMMA ProceedActsFor ==
  ASSUME NEW c \in Connection, Proceed(c)
  PROVE  /\ DoingOfOne(c)
         /\ UNCHANGED former \/ \E x : former' = [former EXCEPT ![c] = x]
<1>1. DoingOfOne(c)
 <2>1. CASE SetGameSession(c) \/ PersistRoom(c) \/ ReportOffline(c) \/ RebindClient(c)
   BY <2>1, Zenon DEF SetGameSession, PersistRoom, ReportOffline, RebindClient, DoingOfOne
 <2>2. CASE NotifyPlayerOffline(c)
   BY <2>2, Zenon DEF NotifyPlayerOffline, DoingOfOne
 <2>3. CASE ReconnectPlayer(c) \/ RollbackRebindClient(c)
   BY <2>3, Zenon DEF ReconnectPlayer, RollbackRebindClient, DoingOfOne
 <2>4. CASE ReconnectRoomless(c) \/ DeliverSnapshot(c)
   BY <2>4, Zenon DEF ReconnectRoomless, DeliverSnapshot, Finish, DoingOfOne
 <2> QED BY <2>1, <2>2, <2>3, <2>4 DEF Proceed
<1>2. UNCHANGED former \/ \E x : former' = [former EXCEPT ![c] = x]
 <2>1. CASE ReconnectPlayer(c) \/ DeliverSnapshot(c)
   BY <2>1, Zenon DEF ReconnectPlayer, DeliverSnapshot
 <2>2. CASE ~(ReconnectPlayer(c) \/ DeliverSnapshot(c))
   BY <2>2 DEF Proceed, SetGameSession, PersistRoom, NotifyPlayerOffline, ReportOffline, RebindClient,
               ReconnectRoomless, RollbackRebindClient, reconnects
 <2> QED BY <2>1, <2>2
<1> QED BY <1>1, <1>2

LEMMA CommandTells ==
  ASSUME Types, GamesInv, Seated, NEW c \in Connection, Command(c), NEW q \in Room, Informed(q)'
  PROVE  PresenceStep(q)
<1> USE ConstantFacts DEF Types
<1>1. /\ doing[c] \in {"idle", "temporary"}
      /\ \A d \in Connection : d # c => doing'[d] = doing[d] /\ former'[d] = former[d]
      /\ publishing' = publishing /\ away' = away
 <2>1. ASSUME NEW d \in Connection, d # c PROVE doing'[d] = doing[d] /\ former'[d] = former[d]
   BY <2>1, CommandActsFor DEF ConnectionTypes, DoingOfOne
 <2> QED BY <2>1, CommandActsFor
<1>2. ASSUME Informed(q), \A p \in Player : players'[q][p] = players[q][p]
      PROVE  PresenceStep(q)
 <2>1. SamePresence(q)
   BY <1>1, <1>2, LeavesPresence
 <2> QED BY <1>2, <2>1 DEF PresenceStep
<1>3. ASSUME NEW r \in Room, CreateRoom(c, r) PROVE PresenceStep(q)
 <2>1. life' = [life EXCEPT ![r] = "published"] /\ UNCHANGED game /\ life[r] = "unused"
       /\ players' = [players EXCEPT ![r][Owner[c]] = MemberAt(c, 0)]
   BY <1>3 DEF CreateRoom, sessions
 <2>2. q # r
   BY <2>1 DEF Informed, GamesInv, Lives
 <2>3. Informed(q) /\ \A p \in Player : players'[q][p] = players[q][p]
   BY <2>1, <2>2 DEF Informed, Published, RoomTypes
 <2> QED BY <1>2, <2>3
<1>4. ASSUME NEW r \in Room, JoinRoom(c, r) PROVE PresenceStep(q)
 <2>1. UNCHANGED << life, game, state >> /\ state[r] = "Waiting" /\ \E m : players' = [players EXCEPT ![r][Owner[c]] = m]
   BY <1>4 DEF JoinRoom, sessions
 <2>2. Informed(q)
   BY <2>1 DEF Informed, Published
 <2>3. q # r
   BY <2>1, <2>2, NotInformed
 <2>4. \A p \in Player : players'[q][p] = players[q][p]
   BY <2>1, <2>3 DEF RoomTypes
 <2> QED BY <1>2, <2>2, <2>4
<1>5. ASSUME NEW r \in Room, LeaveRoom(c, r) PROVE PresenceStep(q)
 <2>1. UNCHANGED game /\ state[r] = "Waiting" /\ \E m : players' = [players EXCEPT ![r] = m]
  <3>1. CASE Members(r) = {Owner[c]}
    BY <1>5, <3>1 DEF LeaveRoom, sessions, Unpublish, Dissolve
  <3>2. CASE Members(r) # {Owner[c]}
   <4>1. players' = [players EXCEPT ![r][Owner[c]] = NoMember]
     BY <1>5, <3>2 DEF LeaveRoom
   <4>2. players' = [players EXCEPT ![r] = [players[r] EXCEPT ![Owner[c]] = NoMember]]
     BY <4>1
   <4> QED BY <1>5, <4>2 DEF LeaveRoom, sessions
  <3> QED BY <3>1, <3>2
 <2>2. life' = life \/ life' = [life EXCEPT ![r] = "removed"]
   BY <1>5 DEF LeaveRoom, Unpublish, Dissolve
 <2>3. Informed(q)
   BY <2>1, <2>2 DEF Informed, Published, RoomTypes
 <2>4. q # r
   BY <2>1, <2>3, NotInformed
 <2>5. \A p \in Player : players'[q][p] = players[q][p]
   BY <2>1, <2>4 DEF RoomTypes
 <2> QED BY <1>2, <2>3, <2>5
<1>6. ASSUME NEW r \in Room, NEW ready \in BOOLEAN, SetPlayerReady(c, r, ready) PROVE PresenceStep(q)
 <2>1. /\ UNCHANGED life /\ state[r] = "Waiting"
       /\ players' = [players EXCEPT ![r] = [players[r] EXCEPT ![Owner[c]].ready = ready]]
       /\ game' = [game EXCEPT ![r] = "starting"] \/ UNCHANGED game
   BY <1>6 DEF SetPlayerReady
 <2>2. Informed(q)
   BY <2>1 DEF Informed, Published, SessionTypes
 <2>3. q # r
   BY <2>1, <2>2, NotInformed
 <2>4. \A p \in Player : players'[q][p] = players[q][p]
   BY <2>1, <2>3 DEF RoomTypes
 <2> QED BY <1>2, <2>2, <2>4
<1>7. CASE Disconnect(c) \/ RestoreSession(c)
 <2>1. UNCHANGED << life, game, players >>
   BY <1>7 DEF Disconnect, RestoreSession, rooms, sessions
 <2> QED BY <1>2, <2>1 DEF Informed, Published
<1> QED BY <1>3, <1>4, <1>5, <1>6, <1>7 DEF Command

LEMMA ManagerTells ==
  ASSUME Types, GamesInv, NEW q \in Room, Informed(q)',
         (\E r \in Room : Manage(r)) \/ (\E k \in Code : Persist(k)) \/ Close \/ CloseStore
           \/ UNCHANGED roomsVars
  PROVE  PresenceStep(q)
<1> USE ConstantFacts DEF Types
<1>0. UNCHANGED << doing, former, publishing >>
  BY DEF Manage, GameOver, RemoveIdleRoom, HandleRoomRemoved, Persist, Close, CloseStore, roomsVars,
         connections, reconnects, rooms
<1>1. ASSUME Informed(q), away'[q] = away[q], \A p \in Player : players'[q][p] = players[q][p]
      PROVE  PresenceStep(q)
  BY <1>0, <1>1, PresenceStays DEF PresenceStep, SamePresence
<1>2. ASSUME NEW r \in Room, GameOver(r) PROVE PresenceStep(q)
 <2>1. /\ game' = [game EXCEPT ![r] = "none"] /\ away' = [away EXCEPT ![r] = {}] /\ UNCHANGED life
       /\ \E m : players' = [players EXCEPT ![r] = m]
   BY <1>2 DEF GameOver
 <2>2. q # r
   BY <2>1 DEF Informed, SessionTypes
 <2> QED BY <1>1, <2>1, <2>2 DEF Informed, Published, SessionTypes, RoomTypes
<1>3. ASSUME NEW r \in Room, RemoveIdleRoom(r) PROVE PresenceStep(q)
 <2>1. /\ UNCHANGED << game, away >> /\ life' = [life EXCEPT ![r] = "removed"]
       /\ \E m : players' = [players EXCEPT ![r] = m]
   BY <1>3 DEF RemoveIdleRoom, Unpublish, Dissolve, sessions
 <2>2. q # r
   BY <2>1 DEF Informed, Published, RoomTypes
 <2> QED BY <1>1, <2>1, <2>2 DEF Informed, Published, SessionTypes, RoomTypes
<1>4. ASSUME NEW r \in Room, HandleRoomRemoved(r) PROVE PresenceStep(q)
 <2>1. /\ UNCHANGED << life, away, players >>
       /\ game' = [game EXCEPT ![games[CodeOf[r]]] = "none"] \/ UNCHANGED game
   BY <1>4 DEF HandleRoomRemoved
 <2>2. game'[q] = "running" => game[q] = "running"
   BY <2>1 DEF SessionTypes
 <2> QED BY <1>1, <2>1, <2>2 DEF Informed, Published
<1>5. CASE (\E k \in Code : Persist(k)) \/ Close \/ CloseStore \/ UNCHANGED roomsVars
 <2>1. UNCHANGED << life, game, away, players >>
   BY <1>5 DEF Persist, Close, CloseStore, roomsVars, rooms, sessions
 <2> QED BY <1>1, <2>1 DEF Informed, Published
<1> QED BY <1>2, <1>3, <1>4, <1>5 DEF Manage

LEMMA ProceedTells ==
  ASSUME Types, GamesInv, Seated, Attending, NEW c \in Connection, Proceed(c),
         NEW q \in Room, Informed(q)'
  PROVE  PresenceStep(q)
<1> DEFINE p == Owner[c]
<1> USE ConstantFacts DEF Types
<1>0. p \in Player
  OBVIOUS
<1>1. ASSUME NEW d \in Connection, d # c PROVE doing'[d] = doing[d] /\ former'[d] = former[d]
  BY <1>1, ProceedActsFor DEF ConnectionTypes, DoingOfOne
<1>2. ASSUME Informed(q), \A m \in Player : players'[q][m] = players[q][m], away'[q] = away[q],
             publishing'[q] = publishing[q],
             publishing[q] = c => doing[c] \notin {"reporting", "attached"}
      PROVE  PresenceStep(q)
 <2>1. SamePresence(q)
   BY <1>1, <1>2, LeavesPresence
 <2> QED BY <1>2, <2>1 DEF PresenceStep
<1>3. \A r \in Room : publishing[r] = c => doing[c] \in {"reporting", "attached"} /\ target[c] = r
  BY DEF GamesInv, Publishes
<1>4. CASE SetGameSession(c)
 <2>1. PICK r \in {target[c]} :
         \/ /\ Locks(r)
            /\ away' = [away EXCEPT ![r] = OfflineMembers(r)]
            /\ game' = [s \in Room |-> IF s \in Replaced(r) THEN "none"
                                       ELSE IF s = r THEN "running" ELSE game[s]]
         \/ ~Published(r) /\ game' = [game EXCEPT ![r] = "none"] /\ UNCHANGED away
   BY <1>4, Zenon DEF SetGameSession
 <2>2. doing[c] = "starting" /\ UNCHANGED << life, players, publishing >>
   BY <1>4 DEF SetGameSession
 <2>3. CASE r = q /\ Locks(r) /\ away' = [away EXCEPT ![r] = OfflineMembers(r)]
  <3>1. away'[q] = OfflineMembers(q)
    BY <2>3 DEF SessionTypes
  <3>2. OfflineMembers(q)' = OfflineMembers(q)
    BY <2>2, PresenceStays
  <3>3. publishing'[q] = NoClient
    BY <2>2, <2>3 DEF Locks
  <3> QED BY <3>1, <3>2, <3>3 DEF PresenceStep, Synchronizes
 <2>4. CASE r # q \/ ~Published(r)
  <3>1. Informed(q) /\ away'[q] = away[q]
    BY <2>1, <2>2, <2>4 DEF Informed, Published, Locks, SessionTypes
  <3> QED BY <1>2, <2>2, <3>1
 <2> QED BY <2>1, <2>3, <2>4
<1>5. CASE PersistRoom(c) \/ RebindClient(c) \/ ReconnectRoomless(c) \/ RollbackRebindClient(c)
 <2>1. UNCHANGED << life, game, away, players, publishing >>
       /\ doing[c] \notin {"reporting", "attached"}
   BY <1>5 DEF PersistRoom, RebindClient, ReconnectRoomless, RollbackRebindClient, rooms, sessions
 <2> QED BY <1>2, <2>1 DEF Informed, Published
<1>6. CASE NotifyPlayerOffline(c)
 <2>1. doing[c] = "leaving" /\ UNCHANGED << game, away, former >>
   BY <1>6 DEF NotifyPlayerOffline, sessions, reconnects
 <2>2. \/ UNCHANGED << life, players, publishing >>
       \/ \E r \in Room :
            /\ Locks(r) /\ p \in Members(r)
            /\ \/ Unpublish(r)
               \/ UNCHANGED life /\ players' = [players EXCEPT ![r][p].client = NoClient]
            /\ publishing' = [publishing EXCEPT ![r] = c]
            /\ doing' = [doing EXCEPT ![c] = "reporting"]
   BY <1>6, Zenon DEF NotifyPlayerOffline, PublishedAs
 <2>3. CASE UNCHANGED << life, players, publishing >>
   BY <1>2, <2>1, <2>3 DEF Informed, Published
 <2>4. ASSUME NEW r \in Room, Unpublish(r), publishing' = [publishing EXCEPT ![r] = c]
       PROVE  PresenceStep(q)
  <3>1. /\ life' = [life EXCEPT ![r] = "removed"]
        /\ \A s \in Room, m \in Player : players'[s][m] = IF s = r THEN NoMember ELSE players[s][m]
    BY <2>4, UnpublishDoes
  <3>2. q # r
    BY <3>1 DEF Informed, Published, RoomTypes
  <3>3. Informed(q) /\ publishing'[q] = publishing[q]
    BY <2>1, <2>4, <3>1, <3>2 DEF Informed, Published, RoomTypes
  <3> QED BY <1>2, <2>1, <3>1, <3>2, <3>3
 <2>5. ASSUME NEW r \in Room, Locks(r), p \in Members(r), UNCHANGED life,
              players' = [players EXCEPT ![r][p].client = NoClient],
              publishing' = [publishing EXCEPT ![r] = c], doing' = [doing EXCEPT ![c] = "reporting"]
       PROVE  PresenceStep(q)
  <3>1. /\ \A s \in Room : s # r => OfflineMembers(s)' = OfflineMembers(s)
        /\ OfflineMembers(r)' = OfflineMembers(r) \cup {p}
    BY <2>5, PresenceChanges
  <3>2. Informed(q)
    BY <2>1, <2>5 DEF Informed, Published
  <3>3. CASE q = r
   <4>1. Misses(c, q)
     BY <2>1, <2>5, <3>1, <3>3 DEF Misses, Locks, RoomTypes, ConnectionTypes
   <4> QED BY <3>2, <4>1 DEF PresenceStep
  <3>4. CASE q # r
   <4>1. /\ \A m \in Player : players'[q][m] = players[q][m]
         /\ publishing'[q] = publishing[q]
     BY <2>5, <3>4 DEF RoomTypes
   <4> QED BY <1>2, <2>1, <3>2, <4>1
  <3> QED BY <3>3, <3>4
 <2> HIDE DEF p
 <2> QED BY <2>2, <2>3, <2>4, <2>5, Zenon
<1>7. CASE ReportOffline(c)
 <2>0. PICK r \in Room : r = target[c]
   BY <1>7 DEF ReportOffline, GamesInv, Publishes
 <2>1. /\ doing[c] = "reporting"
       /\ away' = WithPresence(r, p, FALSE) /\ publishing' = [publishing EXCEPT ![r] = NoClient]
       /\ UNCHANGED << life, players, game >>
   BY <1>7, <2>0 DEF ReportOffline
 <2>2. publishing[r] = c
   BY <2>0, <2>1 DEF GamesInv, Publishes
 <2>3. Informed(q)
   BY <2>1 DEF Informed, Published
 <2> HIDE DEF p
 <2>4. CASE q = r
  <3>1. games[CodeOf[q]] = q /\ game[q] = "running"
    BY <2>3, NotInformed DEF Informed
  <3>2. away'[q] = away[q] \cup {p}
    BY <1>0, <2>1, <2>4, <3>1, PresenceTold
  <3>3. OfflineMembers(q)' = OfflineMembers(q)
    BY <2>1, PresenceStays
  <3>4. publishing'[q] = NoClient
    BY <2>1, <2>4 DEF RoomTypes
  <3>5. Reports(c, q)
    BY <2>1, <2>2, <2>4, <3>2, <3>3, <3>4 DEF Reports, p
  <3> QED BY <2>3, <3>5 DEF PresenceStep
 <2>5. CASE q # r
  <3>1. publishing'[q] = publishing[q] /\ publishing[q] # c
    BY <1>3, <2>0, <2>1, <2>5 DEF RoomTypes
  <3>2. WithPresence(r, p, FALSE)[q] = away[q]
   <4>1. \A s \in Room : s # r => WithPresence(r, p, FALSE)[s] = away[s]
     BY <1>0, PresenceTold
   <4> QED BY <2>5, <4>1
  <3> QED BY <1>2, <2>1, <2>3, <3>1, <3>2
 <2> QED BY <2>4, <2>5
<1>8. CASE ReconnectPlayer(c)
 <2>1. PICK r \in Room :
         /\ Locks(r) /\ p \in Members(r)
         /\ former' = [former EXCEPT ![c] = players[r][p].client]
         /\ players' = [players EXCEPT ![r][p].client = c]
         /\ publishing' = [publishing EXCEPT ![r] = c]
   BY <1>8 DEF ReconnectPlayer, Restorable, PublishedAs, AttachClient
 <2>2. /\ doing[c] = "rebound" /\ doing' = [doing EXCEPT ![c] = "attached"]
       /\ UNCHANGED << life, game, away >>
   BY <1>8 DEF ReconnectPlayer, sessions
 <2>3. Informed(q)
   BY <2>2 DEF Informed, Published
 <2>4. /\ \A s \in Room : s # r => OfflineMembers(s)' = OfflineMembers(s)
       /\ OfflineMembers(r)' = OfflineMembers(r) \ {p}
   BY <2>1, PresenceChanges
 <2>5. CASE q = r
  <3>1. former'[c] = NoClient <=> p \in OfflineMembers(q)
    BY <1>0, <2>1, <2>5 DEF ConnectionTypes, OfflineMembers, Attached
  <3>2. publishing[q] = NoClient /\ publishing'[q] = c /\ doing'[c] = "attached"
    BY <2>1, <2>2, <2>5 DEF Locks, RoomTypes, ConnectionTypes
  <3>3. Returns(c, q)
    BY <2>2, <2>4, <2>5, <3>1, <3>2 DEF Returns
  <3> QED BY <2>3, <3>3 DEF PresenceStep
 <2>6. CASE q # r
  <3>1. /\ \A m \in Player : players'[q][m] = players[q][m]
        /\ publishing'[q] = publishing[q]
    BY <2>1, <2>6 DEF RoomTypes
  <3> QED BY <1>2, <2>2, <2>3, <3>1
 <2> QED BY <2>5, <2>6
<1>9. CASE DeliverSnapshot(c)
 <2>0. PICK r \in Room : r = target[c]
   BY <1>9 DEF DeliverSnapshot, GamesInv, Publishes
 <2>1. /\ doing[c] = "attached" /\ publishing[r] = c
       /\ publishing' = [publishing EXCEPT ![r] = NoClient]
       /\ UNCHANGED << life, game >>
       /\ \/ away' = WithPresence(r, p, TRUE) /\ UNCHANGED players
          \/ players' = [players EXCEPT ![r][p].client = former[c]] /\ UNCHANGED away
   BY <1>9, <2>0 DEF DeliverSnapshot, RoomRolledBack, GamesInv, Publishes
 <2>2. players[r][p].client = c
   BY <2>0, <2>1 DEF Attending
 <2>3. p \in Members(r) /\ p \notin OfflineMembers(r) /\ former[c] \in Connection \cup {NoClient}
   BY <1>0, <2>2, MemberFacts DEF Members, OfflineMembers, Attached, ConnectionTypes
 <2>4. Informed(q)
   BY <2>1 DEF Informed, Published
 <2> HIDE DEF p
 <2>5. CASE q = r
  <3>1. games[CodeOf[q]] = q /\ game[q] = "running"
    BY <2>4, NotInformed DEF Informed
  <3>2. publishing'[q] = NoClient
    BY <2>1, <2>5 DEF RoomTypes
  <3>3. CASE away' = WithPresence(r, p, TRUE) /\ UNCHANGED players
   <4>1. away'[q] = away[q] \ {p}
    <5>1. TRUE \in BOOLEAN /\ SessionTypes
      OBVIOUS
    <5>2. WithPresence(q, p, TRUE)[q] = IF TRUE THEN away[q] \ {p} ELSE away[q] \cup {p}
      BY <1>0, <3>1, <5>1, PresenceTold
    <5> QED BY <2>5, <3>3, <5>2
   <4>2. OfflineMembers(q)' = OfflineMembers(q)
     BY <3>3, PresenceStays
   <4>3. Delivers(c, q)
     BY <2>1, <2>3, <2>5, <3>2, <4>1, <4>2 DEF Delivers, p
   <4> QED BY <2>4, <4>3 DEF PresenceStep
  <3>4. CASE players' = [players EXCEPT ![r][p].client = former[c]] /\ UNCHANGED away
   <4>1. OfflineMembers(r)' = IF former[c] = NoClient THEN OfflineMembers(r) \cup {p}
                              ELSE OfflineMembers(r) \ {p}
    <5>1. PICK x \in Connection \cup {NoClient} : x = former[c]
      BY <2>3
    <5>2. OfflineMembers(r)' = IF x = NoClient THEN OfflineMembers(r) \cup {p}
                               ELSE OfflineMembers(r) \ {p}
      BY <2>1, <2>3, <3>4, <5>1, PresenceChanges
    <5> QED BY <5>1, <5>2
   <4>2. OfflineMembers(r) \ {p} = OfflineMembers(r)
     BY <2>3
   <4>3. OfflineMembers(q)' = IF former[c] = NoClient THEN OfflineMembers(q) \cup {p}
                              ELSE OfflineMembers(q)
    <5>1. OfflineMembers(q)' = OfflineMembers(r)' /\ OfflineMembers(q) = OfflineMembers(r)
      BY <2>5
    <5> QED BY <4>1, <4>2, <5>1
   <4>4. Delivers(c, q)
     BY <2>1, <2>3, <2>5, <3>2, <3>4, <4>3 DEF Delivers, p
   <4> QED BY <2>4, <4>4 DEF PresenceStep
  <3> QED BY <2>1, <3>3, <3>4
 <2>6. CASE q # r
  <3>1. publishing'[q] = publishing[q] /\ publishing[q] # c
    BY <1>3, <2>0, <2>1, <2>6 DEF RoomTypes
  <3>2. away'[q] = away[q]
   <4>1. WithPresence(r, p, TRUE)[q] = away[q]
    <5>1. \A s \in Room : s # r => WithPresence(r, p, TRUE)[s] = away[s]
      BY <1>0, PresenceTold
    <5> QED BY <2>6, <5>1
   <4> QED BY <2>1, <4>1
  <3>3. \A m \in Player : players'[q][m] = players[q][m]
    BY <2>1, <2>6 DEF RoomTypes
  <3> QED BY <1>2, <2>4, <3>1, <3>2, <3>3
 <2> QED BY <2>5, <2>6
<1> QED BY <1>4, <1>5, <1>6, <1>7, <1>8, <1>9 DEF Proceed

LEMMA EveryStepTells ==
  ASSUME Types, GamesInv, Seated, Attending, Presence, [RoomsNext]_roomsVars
  PROVE  Presence'
<1> SUFFICES ASSUME NEW q \in Room, Informed(q)' PROVE Told(q)'
  BY DEF Presence
<1>1. PresenceStep(q)
  BY CommandTells, ProceedTells, ManagerTells DEF RoomsNext
<1> QED BY <1>1, PresenceStepKeepsIt

-----------------------------------------------------------------------------
(* The whole invariant.                                                    *)

RoomsInv ==
  /\ StoreInv /\ TargetsKnown /\ Types
  /\ GamesInv /\ Seated /\ BondsInv /\ Presence

LEMMA StepKeepsInv ==
  ASSUME RoomsInv, [RoomsNext]_roomsVars
  PROVE  RoomsInv'
<1> USE DEF RoomsInv
<1>1. StoreInv' /\ TargetsKnown'
  BY EveryStep, StoreStepKeepsInv
<1>2. OneRoomACode /\ Attending /\ Lives /\ Starts /\ Publishes
  BY DEF StoreInv, BondsInv, GamesInv
<1>3. \A c \in Connection : doing[c] \in {"reporting", "attached"} => target[c] \in Room
  BY <1>2 DEF Publishes
<1>4. Types'
  BY <1>3, CommandKeepsTypes, ProceedKeepsTypes, ManagerKeepsTypes DEF RoomsNext, Seated
<1>5. GamesInv'
  BY <1>2, <1>4, GamesStepTaken, GamesStepKeepsInv
<1>6. Seated'
  BY <1>2, <1>4, EveryStepSits, SittingKeepsSeated
<1>7. BondsInv'
  BY <1>2, BondsStepTaken, BondsStepKeepsInv
<1>8. Presence'
  BY <1>2, EveryStepTells
<1> QED BY <1>1, <1>4, <1>5, <1>6, <1>7, <1>8

LEMMA InitKeepsBooks ==
  ASSUME RoomsInit
  PROVE  RoomsInv
<1> USE ConstantFacts
<1>0. StoreInv /\ TargetsKnown
  BY InitHolds
<1>1. \A p \in Player : clients[p] \in First /\ Owner[clients[p]] = p
 <2> TAKE p \in Player
 <2>1. \E c \in First : Owner[c] = p
   BY RoomsAssumption
 <2>2. clients[p] = CHOOSE c \in First : Owner[c] = p
   BY DEF RoomsInit
 <2> QED BY <2>1, <2>2
<1>2. clients \in [Player -> Connection \cup {NoClient}]
  BY <1>1 DEF RoomsInit
<1>3. \A r \in Room, p \in Player : players[r][p] = NoMember
  BY DEF RoomsInit
<1>4. \A c \in Connection : doing[c] \in {"idle", "temporary"} /\ clientRoom[c] = NoCode
  BY DEF RoomsInit
<1>5. Types
 <2>1. players \in [Room -> [Player -> Member]]
   BY MemberFacts DEF RoomsInit
 <2>2. order \in [Room -> Seq(Player)]
   BY EmptySeq DEF RoomsInit
 <2>3. ConnectionTypes
   BY <1>2 DEF RoomsInit, ConnectionTypes, Doing
 <2>4. RoomTypes
   BY <2>1, <2>2 DEF RoomsInit, RoomTypes
 <2>5. SessionTypes
   BY DEF RoomsInit, SessionTypes
 <2> QED BY <2>3, <2>4, <2>5 DEF Types
<1>6. GamesInv
  BY <1>4 DEF RoomsInit, GamesInv, Lives, Starts, Publishes, Registered, Published
<1>7. Seated
 <2> SUFFICES ASSUME NEW r \in Room PROVE Ordered(r)
   BY <1>3 DEF RoomsInit, Seated
 <2>1. Members(r) = {}
   BY <1>3 DEF Members
 <2>2. order[r] = << >>
   BY DEF RoomsInit
 <2> QED BY <2>1, <2>2 DEF Ordered, Range
<1>8. BondsInv
  BY <1>4 DEF RoomsInit, BondsInv, Attending, OneReconnects, Reconnecting, MemberConnections,
              FormerConnections, BoundHold, Published
<1>9. Presence
  BY DEF RoomsInit, Presence, Informed
<1> QED BY <1>0, <1>5, <1>6, <1>7, <1>8, <1>9 DEF RoomsInv

LEMMA InvAlways == RoomsSpec => []RoomsInv
BY InitKeepsBooks, StepKeepsInv, PTL DEF RoomsSpec

-----------------------------------------------------------------------------
(* What it means.                                                          *)

LEMMA MembersBound ==
  ASSUME RoomsInv
  PROVE  BoundAreMembers /\ MembersAreBound
<1> USE DEF RoomsInv, BondsInv
<1>1. BoundAreMembers
 <2> SUFFICES ASSUME NEW c \in Connection, doing[c] = "idle", clients[Owner[c]] = c, clientRoom[c] # NoCode
              PROVE  \E r \in PublishedAs(clientRoom[c]) : players[r][Owner[c]].client = c
   BY DEF BoundAreMembers
 <2>1. PICK r \in Room : Published(r) /\ CodeOf[r] = clientRoom[c] /\ Belongs(c, r)
   BY DEF BoundHold, Serving, Rightful
 <2>2. ASSUME NEW d \in Connection, doing[d] = "attached", former[d] = c, Owner[d] = Owner[c]
       PROVE  FALSE
   BY <2>2 DEF OneReconnects
 <2>3. players[r][Owner[c]].client = c
   BY <2>1, <2>2 DEF Belongs, Connected
 <2> QED BY <2>1, <2>3 DEF PublishedAs
<1>2. MembersAreBound
  BY DEF MembersAreBound, MemberConnections, Connected, Attached
<1> QED BY <1>1, <1>2

LEMMA SeatsOrdered ==
  ASSUME RoomsInv
  PROVE  SeatsInOrder
<1> USE DEF RoomsInv, Types
<1> SUFFICES ASSUME NEW r \in Room
             PROVE  /\ \A i, j \in DOMAIN order[r] : i < j => SeatAt(r, i) < SeatAt(r, j)
                    /\ state[r] \in {"Ready", "Playing"} => \A i \in 1 .. RoomSize : SeatAt(r, i) = i - 1
  BY DEF SeatsInOrder, SeatAt
<1>1. Ordered(r)
  BY DEF Seated
<1>2. DOMAIN order[r] = 1 .. Len(order[r])
  BY DEF RoomTypes
<1>3. state[r] \in {"Ready", "Playing"} => \A i \in 1 .. RoomSize : SeatAt(r, i) = i - 1
  BY <1>1, FullTable DEF Seated
<1> QED BY <1>1, <1>2, <1>3 DEF Ordered

LEMMA TypesMeant ==
  ASSUME RoomsInv
  PROVE  RoomsTypeOK
<1> USE DEF RoomsInv, Types
<1>1. \A r \in Room : Range(order[r]) = Members(r)
  BY DEF Seated, Ordered
<1> QED BY <1>1 DEF RoomsTypeOK, ConnectionTypes, Doing, RoomTypes, Member, SessionTypes

\* Whoever sits in a room is bound to it, and whoever is bound to a code sits
\* in the room published under it, seats in order, whatever connections end,
\* are replaced or come back meanwhile (client.go, handleReconnect, AttachClient,
\* NotifyPlayerOffline, nextAvailableSeatLocked).
THEOREM RoomsKeepMembership == RoomsSpec => []MembershipAgrees
<1>1. RoomsInv => MembershipAgrees
  BY MembersBound, SeatsOrdered, TypesMeant DEF MembershipAgrees
<1> QED BY <1>1, InvAlways, PTL

\* A running session knows exactly who of its players is offline whenever no
\* handler holds the room, however the news and the start of the game race
\* (SyncRoomPresence, handlePresenceChanged, ReconnectPlayerWithResponse).
THEOREM RoomsTellPresence == RoomsSpec => []PresenceAgrees
<1>1. RoomsInv => PresenceAgrees
  BY DEF RoomsInv, Presence, Informed, Told, PresenceAgrees
<1> QED BY <1>1, InvAlways, PTL

\* A room that plays has its game, registered under its code, and a game
\* outlives its room only until the removal is dispatched (SetGameSession,
\* handleRoomRemoved, ResetAfterGame).
THEOREM RoomsHaveTheirGames == RoomsSpec => []GamesFollowRooms
<1>1. RoomsInv => GamesFollowRooms
  BY DEF RoomsInv, GamesInv, Starts, Registered, GamesFollowRooms
<1> QED BY <1>1, InvAlways, PTL
=============================================================================
