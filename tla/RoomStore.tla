----------------------------- MODULE RoomStore -----------------------------
(***************************************************************************)
(* Room persistence (game/room/persistence.go): per room code a queue of   *)
(* at most one save and one delete, emptied by one worker that exists      *)
(* while there is something to do.  Of a snapshot only the room it is of   *)
(* is kept.  Whoever removes a room enqueues its delete in the same step.  *)
(***************************************************************************)
CONSTANTS Room, Code, CodeOf, NoRoom

ASSUME StoreAssumption == CodeOf \in [Room -> Code] /\ NoRoom \notin Room

VARIABLES
  retiringRooms,      \* by code, the removed room whose delete is not done
  queues,             \* by code: pendingSave, pendingDelete, pendingAfterDelete
  workers,            \* by code, the operation the worker carries out
  persistenceClosed,
  store               \* Redis: by code, the room whose snapshot is stored

storeVars == << retiringRooms, queues, workers, persistenceClosed, store >>

NoQueue == [exists |-> FALSE, save |-> NoRoom, delete |-> NoRoom, after |-> NoRoom]
Idle == [op |-> "none", room |-> NoRoom]

StoreInit ==
  /\ retiringRooms = [k \in Code |-> NoRoom]
  /\ queues = [k \in Code |-> NoQueue]
  /\ workers = [k \in Code |-> Idle]
  /\ persistenceClosed = FALSE
  /\ store = [k \in Code |-> NoRoom]

\* enqueuePersistenceSave: after a delete that waits, never before it.
WithSave(queue, r) ==
  IF queue.delete # NoRoom THEN [queue EXCEPT !.exists = TRUE, !.after = r]
                           ELSE [queue EXCEPT !.exists = TRUE, !.save = r]

EnqueueSave(r) ==
  queues' = IF persistenceClosed THEN queues
            ELSE [queues EXCEPT ![CodeOf[r]] = WithSave(@, r)]

\* enqueuePersistenceDelete: the snapshots of before are obsolete.
WithDelete(queue, r) ==
  [queue EXCEPT !.exists = TRUE, !.save = NoRoom, !.delete = r]

\* What removePublishedRoomLocked leaves to the worker.
RetireCode(r) ==
  IF persistenceClosed
  THEN UNCHANGED << retiringRooms, queues >>
  ELSE /\ retiringRooms' = [retiringRooms EXCEPT ![CodeOf[r]] = r]
       /\ queues' = [queues EXCEPT ![CodeOf[r]] = WithDelete(@, r)]

-----------------------------------------------------------------------------
(* runPersistenceQueue                                                     *)

Take(k) ==
  /\ queues[k].exists /\ workers[k] = Idle
  /\ LET queue == queues[k] IN
       \/ /\ queue.delete # NoRoom
          /\ workers' = [workers EXCEPT ![k] = [op |-> "delete", room |-> queue.delete]]
          /\ queues' = [queues EXCEPT ![k] =
               [queue EXCEPT !.delete = NoRoom, !.save = queue.after, !.after = NoRoom]]
       \/ /\ queue.delete = NoRoom /\ queue.save # NoRoom
          /\ workers' = [workers EXCEPT ![k] = [op |-> "save", room |-> queue.save]]
          /\ queues' = [queues EXCEPT ![k].save = NoRoom]
       \/ /\ queue.delete = NoRoom /\ queue.save = NoRoom
          /\ queues' = [queues EXCEPT ![k] = NoQueue]
          /\ UNCHANGED workers
  /\ UNCHANGED << retiringRooms, persistenceClosed, store >>

\* Redis answers a save, or fails to.
SaveRoom(k) ==
  /\ workers[k].op = "save"
  /\ \E written \in {store[k], workers[k].room} :
       store' = [store EXCEPT ![k] = written]
  /\ workers' = [workers EXCEPT ![k] = Idle]
  /\ UNCHANGED << retiringRooms, queues, persistenceClosed >>

\* One bounded attempt, also while the server shuts down; the code is free
\* after it whether or not Redis has done it (finishRoomRetirement).
DeleteRoom(k) ==
  /\ workers[k].op = "delete"
  /\ \E kept \in {NoRoom, store[k]} : store' = [store EXCEPT ![k] = kept]
  /\ retiringRooms' = [retiringRooms EXCEPT ![k] =
       IF @ = workers[k].room THEN NoRoom ELSE @]
  /\ workers' = [workers EXCEPT ![k] = Idle]
  /\ UNCHANGED << queues, persistenceClosed >>

Work(k) == Take(k) \/ SaveRoom(k) \/ DeleteRoom(k)

\* The end of RoomManager.Close: no room is published any more.
ClosePersistence ==
  /\ ~persistenceClosed
  /\ persistenceClosed' = TRUE
  /\ queues' = [k \in Code |-> [queues[k] EXCEPT !.save = NoRoom, !.after = NoRoom]]
  /\ UNCHANGED << retiringRooms, workers, store >>

-----------------------------------------------------------------------------
DeletePending(r) ==
  \/ queues[CodeOf[r]].delete = r
  \/ workers[CodeOf[r]] = [op |-> "delete", room |-> r]
=============================================================================
