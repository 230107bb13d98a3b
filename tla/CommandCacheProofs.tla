------------------------- MODULE CommandCacheProofs -------------------------
(***************************************************************************)
(* The idempotency of commands and the order and size of their cache, for  *)
(* any number of connections, requests and entries and any capacity and    *)
(* time to live.                                                           *)
(***************************************************************************)
EXTENDS CommandCache, SequenceTheorems, FiniteSetTheorems, TLAPS

-----------------------------------------------------------------------------
(* The inductive invariant                                                 *)

Ids == DOMAIN entries

\* The index and the keys of the cached entries are inverse to each other.
IndexInv ==
  /\ \A k \in Key : index[k] # NoEntry =>
       index[k] \in cached /\ k \in entries[index[k]].keys
  /\ \A e \in cached : \A k \in entries[e].keys : index[k] = e

\* A command under way is the only one of its entry, which is cached and
\* running; whoever waits or is answered does so for its own command.
OwnerInv ==
  /\ \A c \in Conn : UnderWay(c) =>
       /\ entry[c] \in cached /\ entries[entry[c]].status = "running"
       /\ KeyOf(c) \in entries[entry[c]].keys
  /\ \A c, d \in Conn :
       UnderWay(c) /\ UnderWay(d) /\ c # d => entry[c] # entry[d]
  /\ \A c \in Conn : phase[c] \in {"waiting", "answered"} =>
       /\ entry[c] \in Ids
       /\ KeyOf(c) \in entries[entry[c]].keys
       /\ entries[entry[c]].print = command[c].print
  /\ \A c \in Conn : phase[c] = "answered" => Finished(entry[c])
  /\ \A e \in Ids : entries[e].status = "running" =>
       \E d \in Conn : UnderWay(d) /\ entry[d] = e

Asked == [player : Conn, request : Request, print : Fingerprint]

CacheTypeOK ==
  /\ now \in Nat /\ entries \in Seq(Entry)
  /\ cached \subseteq Ids /\ newer \subseteq cached \X cached
  /\ index \in [Key -> {NoEntry} \cup Ids]
  /\ identity \in [Conn -> Conn] /\ closed \in [Conn -> BOOLEAN]
  /\ phase \in [Conn -> {"idle", "executing", "executed", "waiting",
                         "answered", "stopped"}]
  /\ command \in [Conn -> Asked \cup {NoCommand}]
  /\ \A c \in Conn : phase[c] \notin {"idle", "stopped"} => command[c] \in Asked
  /\ entry \in [Conn -> {NoEntry} \cup Ids]

Inv == CacheTypeOK /\ IndexInv /\ OwnerInv

LEMMA InitInv == Init => Inv
  BY CacheAssumption
  DEF Init, Inv, CacheTypeOK, IndexInv, OwnerInv, UnderWay, Ids, NoEntry,
      Finished

-----------------------------------------------------------------------------
(* Steps that leave the cache alone                                        *)

LEMMA QuietStep ==
  ASSUME Inv,
         \/ Tick
         \/ \E c \in Conn : Execute(c) \/ GiveUp(c) \/ Reply(c) \/ Close(c)
         \/ UNCHANGED vars
  PROVE  Inv'
<1>1. CASE Tick
 <2>1. CacheTypeOK'
   BY <1>1 DEF Tick, connVars, Inv, CacheTypeOK, Ids
 <2>2. IndexInv' /\ OwnerInv'
   BY <1>1
   DEF Tick, connVars, Inv, IndexInv, OwnerInv, UnderWay, Ids, KeyOf, Finished
 <2> QED
   BY <2>1, <2>2 DEF Inv
<1>2. ASSUME NEW c \in Conn, Execute(c)
      PROVE  Inv'
 <2>5. closed' \in [Conn -> BOOLEAN]
  <3>1. CASE UNCHANGED closed
    BY <3>1 DEF Inv, CacheTypeOK
  <3>2. CASE closed' = [d \in Conn |-> closed[d] \/ (d # c /\ identity[d] = Home)]
   <4>1. \A d \in Conn : (closed[d] \/ (d # c /\ identity[d] = Home)) \in BOOLEAN
     BY Zenon DEF Inv, CacheTypeOK
   <4> QED
     BY <3>2, <4>1, Zenon
  <3> QED
    BY <1>2, <3>1, <3>2 DEF Execute
 <2>6. identity' \in [Conn -> Conn]
   BY <1>2, CacheAssumption DEF Execute, Inv, CacheTypeOK
 <2>1. CacheTypeOK'
   BY <1>2, <2>5, <2>6 DEF Execute, cacheVars, Inv, CacheTypeOK, Ids
 <2>2. IndexInv'
   BY <1>2 DEF Execute, cacheVars, Inv, IndexInv
 <2>3. \A d \in Conn : /\ UnderWay(d)' <=> UnderWay(d)
                       /\ KeyOf(d)' = KeyOf(d) /\ entry'[d] = entry[d]
                       /\ phase'[d] = phase[d] \/ UnderWay(d)'
   BY <1>2 DEF Execute, UnderWay, KeyOf, Inv, CacheTypeOK
 <2>4. OwnerInv'
   BY <1>2, <2>3
   DEF Execute, cacheVars, Inv, OwnerInv, Ids, Finished, UnderWay
 <2> QED
   BY <2>1, <2>2, <2>4 DEF Inv
<1>3. ASSUME NEW c \in Conn, GiveUp(c) \/ Reply(c)
      PROVE  Inv'
 <2>1. CacheTypeOK'
   BY <1>3 DEF GiveUp, Reply, Done, Leaves, Goes, cacheVars, Inv, CacheTypeOK, Ids
 <2>2. IndexInv'
   BY <1>3 DEF GiveUp, Reply, cacheVars, Inv, IndexInv
 <2>3. /\ \A d \in Conn : UnderWay(d)' <=> UnderWay(d)
       /\ \A d \in Conn \ {c} : /\ KeyOf(d)' = KeyOf(d)
                                /\ command'[d] = command[d]
                                /\ entry'[d] = entry[d]
                                /\ phase'[d] = phase[d]
       /\ phase'[c] = "idle" /\ ~UnderWay(c)
   BY <1>3 DEF GiveUp, Reply, Done, Leaves, Goes, UnderWay, KeyOf, Inv, CacheTypeOK
 <2>4. OwnerInv'
   BY <1>3, <2>3
   DEF GiveUp, Reply, cacheVars, Inv, OwnerInv, Ids, Finished
 <2> QED
   BY <2>1, <2>2, <2>4 DEF Inv
<1>4. ASSUME NEW c \in Conn, Close(c)
      PROVE  Inv'
 <2>1. CacheTypeOK'
   BY <1>4 DEF Close, cacheVars, Inv, CacheTypeOK, Ids
 <2>2. IndexInv' /\ OwnerInv'
   BY <1>4
   DEF Close, cacheVars, Inv, IndexInv, OwnerInv, UnderWay, Ids, KeyOf,
       Finished
 <2> QED
   BY <2>1, <2>2 DEF Inv
<1>5. CASE UNCHANGED vars
 <2>1. CacheTypeOK'
   BY <1>5 DEF vars, connVars, cacheVars, Inv, CacheTypeOK, Ids
 <2>2. IndexInv' /\ OwnerInv'
   BY <1>5
   DEF vars, connVars, cacheVars, Inv, IndexInv, OwnerInv, UnderWay, Ids,
       KeyOf, Finished
 <2> QED
   BY <2>1, <2>2 DEF Inv
<1> QED
  BY <1>1, <1>2, <1>3, <1>4, <1>5

-----------------------------------------------------------------------------
(* Steps that change the cache                                             *)

\* What becomes of the other connections when only c moves.
Others(c) ==
  \A d \in Conn \ {c} : /\ KeyOf(d)' = KeyOf(d) /\ command'[d] = command[d]
                        /\ entry'[d] = entry[d] /\ phase'[d] = phase[d]
                        /\ UnderWay(d)' <=> UnderWay(d)

LEMMA GoesElsewhere ==
  ASSUME Inv, NEW c \in Conn, NEW doing, NEW e, Goes(c, doing, e),
         \/ UNCHANGED command
         \/ \E x : command' = [command EXCEPT ![c] = x]
  PROVE  Others(c) /\ phase'[c] = doing /\ entry'[c] = e
  BY DEF Goes, Others, KeyOf, UnderWay, Inv, CacheTypeOK

LEMMA LeavesElsewhere ==
  ASSUME Inv, NEW c \in Conn, NEW doing \in {"idle", "stopped"}, Leaves(c, doing)
  PROVE  /\ Others(c) /\ phase'[c] = doing /\ ~UnderWay(c)'
         /\ phase' \in [Conn -> {"idle", "executing", "executed", "waiting",
                                 "answered", "stopped"}]
         /\ command' \in [Conn -> Asked \cup {NoCommand}]
         /\ \A d \in Conn : phase'[d] \notin {"idle", "stopped"} => command'[d] \in Asked
         /\ entry' \in [Conn -> {NoEntry} \cup Ids]
<1>1. \E x : command' = [command EXCEPT ![c] = x]
  BY DEF Leaves
<1>2. Others(c) /\ phase'[c] = doing
  BY <1>1, GoesElsewhere DEF Leaves
<1>3. ~UnderWay(c)'
  BY <1>2 DEF UnderWay
<1>4. phase' \in [Conn -> {"idle", "executing", "executed", "waiting",
                          "answered", "stopped"}]
  BY DEF Leaves, Goes, Inv, CacheTypeOK
<1>5. command' \in [Conn -> Asked \cup {NoCommand}]
  BY DEF Leaves, Inv, CacheTypeOK
<1>6. entry' \in [Conn -> {NoEntry} \cup Ids]
  BY DEF Leaves, Goes, Inv, CacheTypeOK
<1>7. \A d \in Conn : phase'[d] \notin {"idle", "stopped"} => command'[d] \in Asked
  BY <1>2 DEF Others, Inv, CacheTypeOK
<1> QED
  BY <1>2, <1>3, <1>4, <1>5, <1>6, <1>7

LEMMA DoneElsewhere ==
  ASSUME Inv, NEW c \in Conn, Done(c)
  PROVE  /\ Others(c) /\ phase'[c] = "idle" /\ ~UnderWay(c)'
         /\ phase' \in [Conn -> {"idle", "executing", "executed", "waiting",
                                 "answered", "stopped"}]
         /\ command' \in [Conn -> Asked \cup {NoCommand}]
         /\ \A d \in Conn : phase'[d] \notin {"idle", "stopped"} => command'[d] \in Asked
         /\ entry' \in [Conn -> {NoEntry} \cup Ids]
  BY LeavesElsewhere DEF Done

LEMMA ReorderTyped ==
  ASSUME NEW list, NEW e \in list, NEW order \in SUBSET (list \X list)
  PROVE  ToFront(e, list, order) \subseteq list \X list
  BY DEF ToFront

LEMMA InsertTyped ==
  ASSUME NEW list, NEW e, NEW order \in SUBSET (list \X list)
  PROVE  ToFront(e, list, order) \subseteq (list \cup {e}) \X (list \cup {e})
  BY DEF ToFront

\* Entries are numbered from one and keep their types when one is updated.
LEMMA EntriesTyped ==
  ASSUME Inv
  PROVE  /\ Ids = 1..Len(entries) /\ Ids \subseteq Nat \ {NoEntry}
         /\ \A e \in Ids : entries[e] \in Entry /\ entries[e].keys \subseteq Key
         /\ \A e \in Ids, r \in Entry : [entries EXCEPT ![e] = r] \in Seq(Entry)
<1>1. Ids = 1..Len(entries) /\ Len(entries) \in Nat
  BY DEF Inv, CacheTypeOK, Ids
<1>2. \A e \in Ids : entries[e] \in Entry
  BY <1>1 DEF Inv, CacheTypeOK
<1>3. \A e \in Ids, r \in Entry : [entries EXCEPT ![e] = r] \in Seq(Entry)
  BY <1>1, ExceptSeq DEF Inv, CacheTypeOK
<1>4. \A e \in Ids : entries[e].keys \subseteq Key
  BY <1>2 DEF Entry
<1>5. Ids \subseteq Nat \ {NoEntry}
  BY <1>1 DEF NoEntry
<1> QED
  BY <1>1, <1>2, <1>3, <1>4, <1>5

LEMMA WakeStep ==
  ASSUME Inv, NEW c \in Conn, Wake(c)
  PROVE  Inv'
<1> DEFINE e == entry[c]
<1>1. newer' \subseteq cached \X cached
  BY ReorderTyped DEF Wake, Inv, CacheTypeOK
<1>2. CASE Finished(e) /\ Goes(c, "answered", e) /\ UNCHANGED command
 <2>1. Others(c) /\ phase'[c] = "answered" /\ entry'[c] = e
   BY <1>2, GoesElsewhere
 <2>2. e \in Ids /\ ~UnderWay(c)' /\ ~UnderWay(c) /\ KeyOf(c)' = KeyOf(c)
   BY <1>2, <2>1 DEF Wake, Inv, OwnerInv, UnderWay, KeyOf
 <2>3. CacheTypeOK'
   BY <1>1, <1>2, <2>2 DEF Wake, Goes, Inv, CacheTypeOK, Ids
 <2>4. IndexInv'
   BY DEF Wake, Inv, IndexInv
 <2>5. OwnerInv'
   BY <1>2, <2>1, <2>2
   DEF Wake, Inv, OwnerInv, Others, Finished, Ids
 <2> QED
   BY <2>3, <2>4, <2>5 DEF Inv
<1>3. CASE Done(c) /\ UNCHANGED newer
 <2>1. Others(c) /\ phase'[c] = "idle" /\ ~UnderWay(c)' /\ ~UnderWay(c)
   BY <1>3, DoneElsewhere DEF Wake, UnderWay
 <2>2. CacheTypeOK'
   BY <1>3, DoneElsewhere DEF Wake, Inv, CacheTypeOK, Ids
 <2>3. IndexInv'
   BY DEF Wake, Inv, IndexInv
 <2>4. OwnerInv'
   BY <1>3, <2>1 DEF Wake, Inv, OwnerInv, Others, Finished, Ids
 <2> QED
   BY <2>2, <2>3, <2>4 DEF Inv
<1> QED
  BY <1>2, <1>3 DEF Wake

LEMMA AbortStep ==
  ASSUME Inv, NEW c \in Conn, Abort(c)
  PROVE  Inv'
<1> DEFINE e == entry[c]
<1>1. /\ Others(c) /\ phase'[c] = "stopped" /\ ~UnderWay(c)' /\ UnderWay(c)
      /\ e \in cached /\ e \in Ids /\ entries[e].status = "running"
  BY LeavesElsewhere DEF Abort, UnderWay, Inv, OwnerInv, CacheTypeOK
<1>2. /\ Ids' = Ids /\ entries' \in Seq(Entry)
      /\ entries'[e].status = "aborted"
      /\ entries'[e].keys = entries[e].keys /\ entries'[e].print = entries[e].print
      /\ \A x \in Ids \ {e} : entries'[x] = entries[x]
 <2> DEFINE r == [entries[e] EXCEPT !.status = "aborted"]
 <2>1. /\ r \in Entry /\ r.status = "aborted" /\ r.keys = entries[e].keys
       /\ r.print = entries[e].print
   BY <1>1, EntriesTyped DEF Entry
 <2>2. entries' = [entries EXCEPT ![e] = r]
   BY DEF Abort
 <2> HIDE DEF r
 <2>3. entries' \in Seq(Entry)
   BY <1>1, <2>1, <2>2, EntriesTyped
 <2> QED
   BY <1>1, <2>1, <2>2, <2>3 DEF Ids
<1>3. CacheTypeOK'
 <2>1. newer' \subseteq cached' \X cached' /\ cached' \subseteq Ids'
   BY <1>2 DEF Abort, Without, Inv, CacheTypeOK
 <2>2. index' \in [Key -> {NoEntry} \cup Ids']
   BY <1>2 DEF Abort, Unindex, Inv, CacheTypeOK
 <2>3. closed' \in [Conn -> BOOLEAN]
   BY DEF Abort, Inv, CacheTypeOK
 <2>4. Leaves(c, "stopped") /\ UNCHANGED << now, identity >>
   BY DEF Abort
 <2> QED
   BY <1>2, <2>1, <2>2, <2>3, <2>4, LeavesElsewhere DEF Inv, CacheTypeOK
<1>4. IndexInv'
 <2>1. \A k \in Key : index'[k] = IF index[k] = e THEN NoEntry ELSE index[k]
   BY DEF Abort, Unindex
 <2>2. \A x \in cached \ {e} : x \in Ids
   BY DEF Inv, CacheTypeOK
 <2>3. cached' = cached \ {e}
   BY DEF Abort
 <2> QED
   BY <1>1, <1>2, <2>1, <2>2, <2>3, EntriesTyped DEF Inv, IndexInv
<1>5. OwnerInv'
 <2>1. \A d \in Conn \ {c} : UnderWay(d) => entry[d] # e
   BY <1>1 DEF Inv, OwnerInv
 <2>2. cached' = cached \ {e}
   BY DEF Abort
 <2>3. \A x \in Ids : Finished(x)' <=> Finished(x)
   BY <1>1, <1>2 DEF Finished
 <2>4. \A x \in Ids : entries'[x].keys = entries[x].keys
                      /\ entries'[x].print = entries[x].print
   BY <1>2
 <2>5. \A x \in Ids : entries'[x].status = "running" =>
         x # e /\ entries[x].status = "running"
   BY <1>2
 <2>6. \A d \in Conn \ {c} : UnderWay(d) => entry[d] \in Ids \ {e}
   BY <2>1 DEF Inv, OwnerInv, CacheTypeOK
 <2>7. \A d \in Conn \ {c} : UnderWay(d) => entries'[entry[d]] = entries[entry[d]]
   BY <1>2, <2>6
 <2> QED
   BY <1>1, <1>2, <2>1, <2>2, <2>3, <2>4, <2>5, <2>6, <2>7
   DEF Inv, OwnerInv, Others
<1> QED
  BY <1>3, <1>4, <1>5 DEF Inv

LEMMA FinishStep ==
  ASSUME Inv, NEW c \in Conn, Finish(c)
  PROVE  Inv'
<1> DEFINE e     == entry[c]
           alias == << identity[c], command[c].request >>
           keys  == IF MayAlias(alias, e) THEN {alias} ELSE {}
<1>1. /\ Others(c) /\ phase'[c] = "idle" /\ ~UnderWay(c)' /\ UnderWay(c)
      /\ e \in cached /\ e \in Ids /\ entries[e].status = "running"
      /\ alias \in Key
  BY DoneElsewhere
  DEF Finish, UnderWay, Inv, OwnerInv, CacheTypeOK, Key, Asked
<1> HIDE DEF alias
<1>2. /\ Ids' = Ids /\ entries' \in Seq(Entry)
      /\ entries'[e].status = "finished"
      /\ entries'[e].keys = entries[e].keys \cup keys
      /\ entries'[e].print = entries[e].print
      /\ \A x \in Ids \ {e} : entries'[x] = entries[x]
 <2> DEFINE r == [entries[e] EXCEPT !.status = "finished",
                                    !.expiresAt = now + TTL,
                                    !.keys = @ \cup keys]
 <2>1. entries[e] \in Entry /\ now + TTL \in Nat /\ keys \subseteq Key
   BY <1>1, EntriesTyped, CacheAssumption DEF Inv, CacheTypeOK
 <2>2. /\ r \in Entry /\ r.status = "finished"
       /\ r.keys = entries[e].keys \cup keys /\ r.print = entries[e].print
   BY <2>1 DEF Entry
 <2>3. entries' = [entries EXCEPT ![e] = r]
   BY DEF Finish, alias
 <2> HIDE DEF r
 <2>4. entries' \in Seq(Entry)
   BY <1>1, <2>2, <2>3, EntriesTyped
 <2> QED
   BY <1>1, <2>2, <2>3, <2>4 DEF Ids
<1>3. CacheTypeOK'
 <2>1. newer' \subseteq cached' \X cached' /\ cached' = cached
   BY <1>1, ReorderTyped DEF Finish, Inv, CacheTypeOK
 <2>2. index' \in [Key -> {NoEntry} \cup Ids']
   BY <1>1, <1>2 DEF Finish, Inv, CacheTypeOK
 <2>3. Done(c) /\ UNCHANGED << now, identity, closed >>
   BY DEF Finish
 <2> QED
   BY <1>2, <2>1, <2>2, <2>3, DoneElsewhere DEF Inv, CacheTypeOK
<1>4. IndexInv'
 <2>1. /\ \A k \in Key : index'[k] = IF k \in keys THEN e ELSE index[k]
       /\ cached' = cached
   BY DEF Finish, alias
 <2>2. \A k \in keys : k = alias /\ index[alias] \in {NoEntry, e}
   BY DEF MayAlias
 <2>3. \A x \in cached \ {e} : x \in Ids /\ entries'[x].keys = entries[x].keys
   BY <1>2 DEF Inv, CacheTypeOK
 <2>4. \A x \in cached \ {e} : \A k \in entries[x].keys : k \notin keys
   BY <1>1, <2>2, EntriesTyped DEF Inv, CacheTypeOK, IndexInv
 <2>5. \A k \in Key : index'[k] # NoEntry =>
         index'[k] \in cached' /\ k \in entries'[index'[k]].keys
   BY <1>1, <1>2, <2>1, <2>3 DEF Inv, IndexInv
 <2>6. \A x \in cached' : \A k \in entries'[x].keys : index'[k] = x
  <3>1. \A k \in entries[e].keys : k \in Key /\ index[k] = e
    BY <1>1, EntriesTyped DEF Inv, IndexInv
  <3>2. \A k \in entries'[e].keys : k \in Key /\ index'[k] = e
    BY <1>1, <1>2, <2>1, <2>2, <3>1
  <3>3. \A x \in cached \ {e} : \A k \in entries[x].keys : k \in Key /\ index[k] = x
    BY <1>1, EntriesTyped DEF Inv, IndexInv, CacheTypeOK
  <3> QED
    BY <2>1, <2>3, <2>4, <3>2, <3>3
 <2> QED
   BY <2>5, <2>6 DEF IndexInv
<1>5. OwnerInv'
 <2>1. \A d \in Conn \ {c} : UnderWay(d) => entry[d] # e
   BY <1>1 DEF Inv, OwnerInv
 <2>2. cached' = cached
   BY DEF Finish
 <2>3. \A x \in Ids : Finished(x) => Finished(x)'
   BY <1>1, <1>2 DEF Finished
 <2>4. \A x \in Ids : entries[x].keys \subseteq entries'[x].keys
                      /\ entries'[x].print = entries[x].print
   BY <1>2
 <2>5. \A x \in Ids : entries'[x].status = "running" =>
         x # e /\ entries[x].status = "running"
   BY <1>2
 <2>6. \A d \in Conn \ {c} : UnderWay(d) => entries'[entry[d]] = entries[entry[d]]
   BY <1>2, <2>1 DEF Inv, OwnerInv, CacheTypeOK
 <2> QED
   BY <1>1, <1>2, <2>1, <2>2, <2>3, <2>4, <2>5, <2>6
   DEF Inv, OwnerInv, Others
<1> QED
  BY <1>3, <1>4, <1>5 DEF Inv

\* What a lookup removes has finished, and the rest of the cache stays.
LEMMA RemoveStep ==
  ASSUME Inv, NEW gone, gone \subseteq cached, \A e \in gone : Finished(e)
  PROVE  /\ Unindex(gone) \in [Key -> {NoEntry} \cup Ids]
         /\ \A k \in Key : Unindex(gone)[k] # NoEntry =>
              /\ Unindex(gone)[k] \in cached \ gone
              /\ k \in entries[Unindex(gone)[k]].keys
         /\ \A e \in cached \ gone : \A k \in entries[e].keys : Unindex(gone)[k] = e
         /\ Without(gone, newer) \subseteq (cached \ gone) \X (cached \ gone)
         /\ \A c \in Conn : UnderWay(c) => entry[c] \in cached \ gone
<1>1. \A k \in Key : Unindex(gone)[k] = IF index[k] \in gone THEN NoEntry ELSE index[k]
  BY DEF Unindex
<1>2. Unindex(gone) \in [Key -> {NoEntry} \cup Ids]
  BY DEF Unindex, Inv, CacheTypeOK
<1>3. \A k \in Key : Unindex(gone)[k] # NoEntry =>
        /\ Unindex(gone)[k] \in cached \ gone
        /\ k \in entries[Unindex(gone)[k]].keys
  BY <1>1 DEF Inv, IndexInv
<1>4. \A e \in cached \ gone : \A k \in entries[e].keys : Unindex(gone)[k] = e
  BY <1>1, EntriesTyped DEF Inv, IndexInv, CacheTypeOK
<1>5. Without(gone, newer) \subseteq (cached \ gone) \X (cached \ gone)
  BY DEF Without, Inv, CacheTypeOK
<1>6. \A c \in Conn : UnderWay(c) => entry[c] \in cached \ gone
  BY DEF Inv, OwnerInv, Finished
<1> QED
  BY <1>2, <1>3, <1>4, <1>5, <1>6

LEMMA HitStep ==
  ASSUME Inv, NEW c \in Conn, NEW request \in Request, NEW print \in Fingerprint,
         phase[c] = "idle", UNCHANGED << now, identity, closed >>,
         << identity[c], request >> \in Key,
         index[<< identity[c], request >>] \in cached \ Pruned,
         index' = Unindex(Pruned),
         Hit(c, index[<< identity[c], request >>], request, print,
             cached \ Pruned, Without(Pruned, newer))
  PROVE  Inv'
<1> DEFINE key == << identity[c], request >>
           e   == index[key]
<1>1. Pruned \subseteq cached /\ \A x \in Pruned : Finished(x)
  BY DEF Pruned, Expired
<1>2. /\ cached' = cached \ Pruned /\ UNCHANGED entries /\ Ids' = Ids
      /\ e \in cached' /\ e \in Ids /\ e # NoEntry /\ key \in entries[e].keys
  BY EntriesTyped DEF Hit, Ids, Inv, CacheTypeOK, IndexInv
<1>3. IndexInv'
  BY <1>1, <1>2, RemoveStep DEF IndexInv
<1>4. /\ index' \in [Key -> {NoEntry} \cup Ids']
      /\ newer' \subseteq cached' \X cached' /\ cached' \subseteq Ids'
 <2>1. Without(Pruned, newer) \subseteq cached' \X cached'
   BY <1>1, <1>2, RemoveStep
 <2>2. ToFront(e, cached', Without(Pruned, newer)) \subseteq cached' \X cached'
   BY <1>2, <2>1, ReorderTyped
 <2>3. newer' \subseteq cached' \X cached'
   BY <1>2, <2>1, <2>2 DEF Hit
 <2>4. index' \in [Key -> {NoEntry} \cup Ids']
   BY <1>1, <1>2, RemoveStep
 <2> QED
   BY <1>2, <2>3, <2>4 DEF Inv, CacheTypeOK
<1>5. CASE UNCHANGED << phase, command, entry >>
 <2>1. CacheTypeOK'
   BY <1>2, <1>4, <1>5 DEF Inv, CacheTypeOK
 <2>2. OwnerInv'
   BY <1>1, <1>2, <1>5, RemoveStep
   DEF Inv, OwnerInv, UnderWay, KeyOf, Finished
 <2> QED
   BY <1>3, <2>1, <2>2 DEF Inv
<1>6. ASSUME ~Conflicts(e, print), Asks(c, request, print),
             Goes(c, IF Finished(e) THEN "answered" ELSE "waiting", e)
      PROVE  Inv'
 <2> DEFINE doing == IF Finished(e) THEN "answered" ELSE "waiting"
 <2>1. Others(c) /\ phase'[c] = doing /\ entry'[c] = e
   BY <1>6, GoesElsewhere DEF Asks
 <2>2. /\ command'[c] \in Asked /\ command'[c].print = print
       /\ KeyOf(c)' = key
       /\ command' \in [Conn -> Asked \cup {NoCommand}]
   BY <1>6 DEF Asks, Asked, KeyOf, Inv, CacheTypeOK
 <2>3. /\ phase' \in [Conn -> {"idle", "executing", "executed", "waiting",
                               "answered", "stopped"}]
       /\ entry' \in [Conn -> {NoEntry} \cup Ids']
   BY <1>2, <1>6 DEF Goes, Inv, CacheTypeOK
 <2>4. CacheTypeOK'
   BY <1>2, <1>4, <2>1, <2>2, <2>3 DEF Inv, CacheTypeOK, Others
 <2>5. ~UnderWay(c)' /\ ~UnderWay(c) /\ entries[e].print = print
   BY <1>6, <2>1 DEF UnderWay, Conflicts
 <2>6. OwnerInv'
   BY <1>1, <1>2, <2>1, <2>2, <2>5, RemoveStep
   DEF Inv, OwnerInv, Others, Finished
 <2> QED
   BY <1>3, <2>4, <2>6 DEF Inv
<1> QED
  BY <1>5, <1>6 DEF Hit

LEMMA MissStep ==
  ASSUME Inv, NEW c \in Conn, NEW request \in Request, NEW print \in Fingerprint,
         phase[c] = "idle", UNCHANGED << now, identity, closed >>,
         << identity[c], request >> \in Key,
         index[<< identity[c], request >>] \notin cached \ Pruned,
         Miss(c, << identity[c], request >>, request, print,
              cached \ Pruned, Without(Pruned, newer))
  PROVE  Inv'
<1> DEFINE key  == << identity[c], request >>
           list == cached \ Pruned
           gone == IF Cardinality(list) < Capacity THEN {} ELSE Evict(list)
           left == list \ gone
           new  == Len(entries) + 1
           r    == [print |-> print, keys |-> {key}, status |-> "running",
                    expiresAt |-> 0]
           out  == Pruned \cup gone
<1>1. /\ Pruned \subseteq cached /\ \A x \in Pruned : Finished(x)
      /\ gone \subseteq list /\ \A x \in gone : Finished(x)
  BY DEF Pruned, Expired, Evict
<1> HIDE DEF gone
<1>2. /\ out \subseteq cached /\ \A x \in out : Finished(x)
      /\ left = cached \ out
  BY <1>1
<1>3. CASE /\ cached' = list /\ newer' = Without(Pruned, newer)
           /\ index' = Unindex(Pruned) /\ UNCHANGED << entries, phase, command, entry >>
 <2>1. Ids' = Ids /\ cached' \subseteq Ids
   BY <1>3 DEF Ids, Inv, CacheTypeOK
 <2>2. IndexInv'
   BY <1>1, <1>3, RemoveStep DEF IndexInv
 <2>3. /\ index' \in [Key -> {NoEntry} \cup Ids]
       /\ newer' \subseteq cached' \X cached'
   BY <1>1, <1>3, RemoveStep
 <2>4. CacheTypeOK'
   BY <1>3, <2>1, <2>3 DEF Inv, CacheTypeOK
 <2>5. OwnerInv'
   BY <1>1, <1>3, <2>1, RemoveStep DEF Inv, OwnerInv, UnderWay, KeyOf, Finished
 <2> QED
   BY <2>2, <2>4, <2>5 DEF Inv
<1>4. ASSUME cached' = left \cup {new},
             newer' = ToFront(new, left, Without(gone, Without(Pruned, newer))),
             index' = [Unindex(Pruned \cup gone) EXCEPT ![key] = new],
             entries' = Append(entries, r),
             Asks(c, request, print), Goes(c, "executing", new)
      PROVE  Inv'
 <2>1. /\ new \in Nat \ {NoEntry} /\ new \notin Ids /\ Ids' = Ids \cup {new}
       /\ entries' \in Seq(Entry) /\ entries'[new] = r
       /\ \A x \in Ids : entries'[x] = entries[x]
  <3>1. r \in Entry
    BY DEF Entry
  <3>2. /\ entries \in Seq(Entry) /\ Len(entries) \in Nat
        /\ Ids = 1..Len(entries)
    BY EntriesTyped DEF Inv, CacheTypeOK
  <3> HIDE DEF r
  <3>3. /\ entries' \in Seq(Entry) /\ Len(entries') = Len(entries) + 1
        /\ entries'[new] = r
        /\ \A x \in 1..Len(entries) : entries'[x] = entries[x]
    BY <1>4, <3>1, <3>2
  <3>4. Ids' = 1..Len(entries')
    BY <3>3 DEF Ids
  <3> QED
    BY <3>2, <3>3, <3>4 DEF NoEntry
 <2>2. Others(c) /\ phase'[c] = "executing" /\ entry'[c] = new
   BY <1>4, GoesElsewhere DEF Asks
 <2>3. /\ command'[c] \in Asked /\ KeyOf(c)' = key
       /\ command' \in [Conn -> Asked \cup {NoCommand}]
   BY <1>4 DEF Asks, Asked, KeyOf, Inv, CacheTypeOK
 <2>4. /\ phase' \in [Conn -> {"idle", "executing", "executed", "waiting",
                               "answered", "stopped"}]
       /\ entry' \in [Conn -> {NoEntry} \cup Ids']
   BY <1>4, <2>1 DEF Goes, Inv, CacheTypeOK
 <2> HIDE DEF new, key, r, left, out
 <2>5. newer' \subseteq cached' \X cached'
  <3>1. Without(gone, Without(Pruned, newer)) = Without(out, newer)
    BY DEF Without, out
  <3>2. Without(out, newer) \subseteq left \X left
    BY <1>2, RemoveStep
  <3> QED
    BY <1>4, <3>1, <3>2, InsertTyped
 <2>6. /\ index' \in [Key -> {NoEntry} \cup Ids'] /\ cached' \subseteq Ids'
       /\ index'[key] = new
       /\ \A k \in Key \ {key} : index'[k] = Unindex(out)[k]
  <3>1. Unindex(out) \in [Key -> {NoEntry} \cup Ids]
    BY <1>2, RemoveStep
  <3>2. left \subseteq Ids /\ key \in Key
    BY <1>2 DEF Inv, CacheTypeOK, key
  <3> QED
    BY <1>4, <2>1, <3>1, <3>2 DEF out
 <2>7. CacheTypeOK'
   BY <2>1, <2>2, <2>3, <2>4, <2>5, <2>6 DEF Inv, CacheTypeOK, Others
 <2>8. IndexInv'
  <3>1. entries'[new].keys = {key}
    BY <2>1 DEF r
  <3>2. \A x \in left : x \in Ids /\ x # new /\ entries'[x] = entries[x]
    BY <1>2, <2>1 DEF Inv, CacheTypeOK
  <3>3. \A x \in left : \A k \in entries[x].keys : Unindex(out)[k] = x /\ k \in Key
    BY <1>2, <3>2, RemoveStep, EntriesTyped
  <3>4. \A x \in left : key \notin entries[x].keys
   <4>1. \A x \in left : key \in entries[x].keys => index[key] = x
     BY <1>2 DEF Inv, IndexInv
   <4>2. left \subseteq cached \ Pruned
     BY DEF left
   <4> QED
     BY <4>1, <4>2 DEF key
  <3>5. \A k \in Key : Unindex(out)[k] # NoEntry =>
          Unindex(out)[k] \in left /\ k \in entries[Unindex(out)[k]].keys
    BY <1>2, RemoveStep
  <3>6. \A k \in Key : index'[k] # NoEntry =>
          index'[k] \in cached' /\ k \in entries'[index'[k]].keys
   <4>1. \A k \in Key \ {key} : index'[k] # NoEntry =>
           index'[k] \in left /\ k \in entries'[index'[k]].keys
     BY <2>6, <3>2, <3>5
   <4> QED
     BY <1>4, <2>6, <3>1, <4>1
  <3>7. \A x \in cached' : \A k \in entries'[x].keys : index'[k] = x
   <4>1. \A x \in left : \A k \in entries'[x].keys : index'[k] = x
     BY <2>6, <3>2, <3>3, <3>4
   <4>2. \A k \in entries'[new].keys : index'[k] = new
     BY <2>6, <3>1
   <4> QED
     BY <1>4, <4>1, <4>2
  <3> QED
    BY <3>6, <3>7 DEF IndexInv
 <2>9. OwnerInv'
  <3>1. /\ entries'[new].status = "running" /\ entries'[new].keys = {key}
        /\ UnderWay(c)' /\ ~UnderWay(c)
    BY <2>1, <2>2 DEF r, UnderWay
  <3>2. \A d \in Conn : UnderWay(d) => entry[d] \in left
    BY <1>2, RemoveStep
  <3>3. \A d \in Conn \ {c} : UnderWay(d) => entry[d] \in Ids
    BY <3>2, <1>2 DEF Inv, CacheTypeOK
  <3> QED
   <4>1. \A d \in Conn : UnderWay(d)' =>
           /\ entry'[d] \in cached' /\ entries'[entry'[d]].status = "running"
           /\ KeyOf(d)' \in entries'[entry'[d]].keys
    <5>1. \A d \in Conn \ {c} : UnderWay(d)' =>
            /\ entry'[d] \in left /\ entries'[entry'[d]].status = "running"
            /\ KeyOf(d)' \in entries'[entry'[d]].keys
      BY <2>1, <2>2, <3>2, <3>3 DEF Inv, OwnerInv, Others
    <5>2. entry'[c] \in cached' /\ KeyOf(c)' \in entries'[entry'[c]].keys
      BY <1>4, <2>2, <2>3, <3>1
    <5> QED
      BY <1>4, <2>2, <3>1, <5>1, <5>2
   <4>2. \A d, x \in Conn :
           UnderWay(d)' /\ UnderWay(x)' /\ d # x => entry'[d] # entry'[x]
     BY <2>1, <2>2, <3>3 DEF Inv, OwnerInv, Others
   <4>3. \A d \in Conn : phase'[d] \in {"waiting", "answered"} =>
           /\ entry'[d] \in Ids' /\ KeyOf(d)' \in entries'[entry'[d]].keys
           /\ entries'[entry'[d]].print = command'[d].print
     BY <2>1, <2>2 DEF Inv, OwnerInv, Others
   <4>4. \A d \in Conn : phase'[d] = "answered" => Finished(entry[d])'
     BY <2>1, <2>2 DEF Inv, OwnerInv, Others, Finished
   <4>5. \A x \in Ids' : entries'[x].status = "running" =>
           \E d \in Conn : UnderWay(d)' /\ entry'[d] = x
    <5>1. \A x \in Ids : entries'[x].status = "running" =>
            \E d \in Conn \ {c} : UnderWay(d)' /\ entry'[d] = x
      BY <2>1, <2>2, <3>1 DEF Inv, OwnerInv, Others
    <5> QED
      BY <2>1, <2>2, <3>1, <5>1
   <4> QED
     BY <4>1, <4>2, <4>3, <4>4, <4>5 DEF OwnerInv
 <2> QED
   BY <2>7, <2>8, <2>9 DEF Inv
<1> QED
  BY <1>3, <1>4 DEF Miss, gone

-----------------------------------------------------------------------------
(* Every step                                                              *)

LEMMA CacheStep ==
  ASSUME Inv, [Next]_vars
  PROVE  Inv'
<1>1. ASSUME NEW c \in Conn, NEW request \in Request, NEW print \in Fingerprint,
             Receive(c, request, print)
      PROVE  Inv'
 <2>1. << identity[c], request >> \in Key
   BY DEF Inv, CacheTypeOK, Key
 <2> QED
   BY <1>1, <2>1, HitStep, MissStep DEF Receive
<1> QED
  BY <1>1, QuietStep, WakeStep, AbortStep, FinishStep DEF Next

LEMMA CacheInvariant == Spec => []Inv
  BY InitInv, CacheStep, PTL DEF Spec

-----------------------------------------------------------------------------
(* The list: its order and its size                                        *)

\* Of two entries in a list exactly one was used more recently.
Total(list, order) ==
  \A e, x \in list : e # x => (<< e, x >> \in order <=> << x, e >> \notin order)

ListInv ==
  /\ Total(cached, newer)
  /\ IsFiniteSet(cached) /\ Cardinality(cached) <= Capacity

LEMMA FrontTotal ==
  ASSUME NEW list, NEW e, NEW order, Total(list \ {e}, order)
  PROVE  Total(list \cup {e}, ToFront(e, list, order))
  BY Zenon DEF Total, ToFront

LEMMA FrontOfList ==
  ASSUME NEW list, NEW e \in list, NEW order, Total(list, order)
  PROVE  Total(list, ToFront(e, list, order))
<1>1. Total(list \ {e}, order) /\ list \cup {e} = list
  BY DEF Total
<1> QED
  BY <1>1, FrontTotal

LEMMA WithoutTotal ==
  ASSUME NEW list, NEW gone, NEW order, Total(list, order)
  PROVE  Total(list \ gone, Without(gone, order))
  BY DEF Total, Without

\* A list that only loses entries keeps within its size.
LEMMA ShorterList ==
  ASSUME NEW list, IsFiniteSet(list), Cardinality(list) <= Capacity,
         NEW rest, rest \subseteq list
  PROVE  /\ IsFiniteSet(rest) /\ Cardinality(rest) <= Capacity
         /\ Cardinality(rest) \in Nat
<1>1. IsFiniteSet(rest) /\ Cardinality(rest) <= Cardinality(list)
  BY FS_Subset
<1>2. Cardinality(rest) \in Nat /\ Cardinality(list) \in Nat
  BY <1>1, FS_CardinalityType
<1>3. Capacity \in Nat
  BY CacheAssumption
<1> QED
  BY <1>1, <1>2, <1>3

\* evictOldestFinishedLocked finds one entry at most, the least recently used
\* of those that have finished.
LEMMA EvictsOne ==
  ASSUME Inv, ListInv, NEW list, list \subseteq cached, NEW e \in Evict(list)
  PROVE  /\ Evict(list) = {e} /\ Finished(e)
         /\ \A x \in list \ {e} : Finished(x) => << x, e >> \in newer
<1>1. \A x \in Evict(list) : /\ x \in list /\ x \in cached /\ Finished(x)
                              /\ \A y \in list \ {x} : Finished(y) => << y, x >> \in newer
  BY DEF Evict
<1>2. ASSUME NEW x \in Evict(list), x # e
      PROVE  FALSE
 <2>1. << x, e >> \in newer /\ << e, x >> \in newer
   BY <1>1, <1>2
 <2>2. x \in cached /\ e \in cached
   BY <1>1
 <2> QED
   BY <1>2, <2>1, <2>2 DEF ListInv, Total
<1> QED
  BY <1>1, <1>2

LEMMA ListInit == Init => ListInv
<1>1. ASSUME Init PROVE ListInv
 <2>1. IsFiniteSet(cached) /\ Cardinality(cached) = 0
   BY <1>1, FS_EmptySet DEF Init
 <2>2. Total(cached, newer)
   BY <1>1 DEF Init, Total
 <2> QED
   BY <2>1, <2>2, CacheAssumption DEF ListInv
<1> QED
  BY <1>1

\* A new entry: what makes room for it, and that it then fits.
LEMMA RoomForOne ==
  ASSUME ListInv, NEW left, left \subseteq cached, NEW new, new \notin cached,
         ~(Cardinality(left) >= Capacity)
  PROVE  /\ IsFiniteSet(left \cup {new})
         /\ Cardinality(left \cup {new}) = Cardinality(left) + 1
         /\ Cardinality(left \cup {new}) <= Capacity
<1>1. IsFiniteSet(left) /\ Cardinality(left) \in Nat
  BY ShorterList DEF ListInv
<1>2. /\ IsFiniteSet(left \cup {new})
      /\ Cardinality(left \cup {new}) = Cardinality(left) + 1
  BY <1>1, FS_AddElement
<1> QED
  BY <1>1, <1>2, CacheAssumption

LEMMA NewNumber ==
  ASSUME Inv
  PROVE  Len(entries) + 1 \notin cached
  BY EntriesTyped DEF Inv, CacheTypeOK

LEMMA MissList ==
  ASSUME Inv, ListInv, NEW c \in Conn, NEW request \in Request,
         NEW print \in Fingerprint, NEW key,
         Miss(c, key, request, print, cached \ Pruned, Without(Pruned, newer))
  PROVE  ListInv'
<1> DEFINE list == cached \ Pruned
           gone == IF Cardinality(list) < Capacity THEN {} ELSE Evict(list)
           left == list \ gone
           new  == Len(entries) + 1
<1>1. list \subseteq cached /\ Total(list, Without(Pruned, newer))
  BY WithoutTotal DEF ListInv
<1>2. left \subseteq cached /\ Total(left, Without(gone, Without(Pruned, newer)))
  BY <1>1, WithoutTotal
<1>3. new \notin cached
  BY NewNumber
<1> HIDE DEF gone
<1>4. CASE cached' = list /\ newer' = Without(Pruned, newer)
  BY <1>1, <1>4, ShorterList DEF ListInv
<1>5. CASE /\ ~(Cardinality(left) >= Capacity) /\ cached' = left \cup {new}
           /\ newer' = ToFront(new, left, Without(gone, Without(Pruned, newer)))
 <2> HIDE DEF left, new
 <2>1. left \ {new} = left
   BY <1>2, <1>3
 <2>2. Total(cached', newer')
   BY <1>2, <1>5, <2>1, FrontTotal
 <2>3. IsFiniteSet(cached') /\ Cardinality(cached') <= Capacity
   BY <1>2, <1>3, <1>5, RoomForOne
 <2> QED
   BY <2>2, <2>3 DEF ListInv
<1> QED
  BY <1>4, <1>5 DEF Miss, gone

LEMMA HitList ==
  ASSUME Inv, ListInv, NEW c, NEW e, NEW request, NEW print,
         e \in cached \ Pruned,
         Hit(c, e, request, print, cached \ Pruned, Without(Pruned, newer))
  PROVE  ListInv'
<1> DEFINE list == cached \ Pruned
           order == Without(Pruned, newer)
<1>1. list \subseteq cached /\ Total(list, order)
  BY WithoutTotal DEF ListInv
<1> HIDE DEF list, order
<1>2. Total(list, ToFront(e, list, order))
  BY <1>1, FrontOfList DEF list
<1>3. cached' = list /\ newer' \in {order, ToFront(e, list, order)}
  BY DEF Hit, list, order
<1>4. IsFiniteSet(list) /\ Cardinality(list) <= Capacity
  BY <1>1, ShorterList DEF ListInv
<1> QED
  BY <1>1, <1>2, <1>3, <1>4 DEF ListInv

LEMMA ListStep ==
  ASSUME Inv, ListInv, [Next]_vars
  PROVE  ListInv'
<1>1. ASSUME NEW c \in Conn, NEW request \in Request, NEW print \in Fingerprint,
             Receive(c, request, print)
      PROVE  ListInv'
  BY <1>1, MissList, HitList DEF Receive
<1>2. ASSUME NEW c \in Conn, Finish(c)
      PROVE  ListInv'
 <2>1. entry[c] \in cached
   BY <1>2 DEF Inv, OwnerInv, UnderWay, Finish
 <2>2. cached' = cached /\ newer' = ToFront(entry[c], cached, newer)
   BY <1>2 DEF Finish
 <2> QED
   BY <2>1, <2>2, FrontOfList DEF ListInv
<1>3. ASSUME NEW c \in Conn, Abort(c)
      PROVE  ListInv'
 <2>1. cached' = cached \ {entry[c]} /\ newer' = Without({entry[c]}, newer)
   BY <1>3 DEF Abort
 <2> QED
   BY <2>1, WithoutTotal, ShorterList DEF ListInv
<1>4. ASSUME NEW c \in Conn, Wake(c)
      PROVE  ListInv'
 <2>1. cached' = cached
   BY <1>4 DEF Wake
 <2>2. CASE newer' = newer
   BY <2>1, <2>2 DEF ListInv
 <2>3. CASE entry[c] \in cached /\ newer' = ToFront(entry[c], cached, newer)
   BY <2>1, <2>3, FrontOfList DEF ListInv
 <2> QED
   BY <1>4, <2>2, <2>3 DEF Wake
<1>5. CASE \/ Tick \/ UNCHANGED vars
           \/ \E c \in Conn : Execute(c) \/ GiveUp(c) \/ Reply(c) \/ Close(c)
  BY <1>5 DEF Tick, Execute, GiveUp, Reply, Close, vars, cacheVars, ListInv
<1> QED
  BY <1>1, <1>2, <1>3, <1>4, <1>5 DEF Next

LEMMA ListInvariant == Spec => [](Inv /\ ListInv)
<1>1. Inv /\ ListInv /\ [Next]_vars => (Inv /\ ListInv)'
  BY CacheStep, ListStep
<1> QED
  BY <1>1, InitInv, ListInit, PTL DEF Spec

\* What a lookup removes to make room for a new entry: one that has finished,
\* all others that have were used since, and the list stays full.
LEMMA MissForgets ==
  ASSUME Inv, ListInv, NEW c \in Conn, NEW request \in Request,
         NEW print \in Fingerprint, NEW key,
         Miss(c, key, request, print, cached \ Pruned, Without(Pruned, newer)),
         NEW e \in cached \ cached', e \notin Pruned
  PROVE  /\ Finished(e) /\ Cardinality(cached') = Capacity
         /\ \A x \in cached' \cap cached : Finished(x) => << x, e >> \in newer
<1> DEFINE list == cached \ Pruned
           gone == IF Cardinality(list) < Capacity THEN {} ELSE Evict(list)
           left == list \ gone
           new  == Len(entries) + 1
<1>1. new \notin cached
  BY NewNumber
<1>2. ~(Cardinality(left) >= Capacity) /\ cached' = left \cup {new}
  BY DEF Miss
<1>3. e \in gone
  BY <1>2
<1>4. ~(Cardinality(list) < Capacity) /\ e \in Evict(list) /\ gone = Evict(list)
  BY <1>3
<1> HIDE DEF gone, new, list
<1>5. list \subseteq cached
  BY DEF list
<1>6. /\ Evict(list) = {e} /\ Finished(e) /\ e \in list
      /\ \A x \in list \ {e} : Finished(x) => << x, e >> \in newer
  BY <1>4, <1>5, EvictsOne DEF Evict
<1>7. left = list \ {e}
  BY <1>4, <1>6
<1>8. Capacity \in Nat
  BY CacheAssumption
<1>9. /\ IsFiniteSet(list) /\ Cardinality(list) = Capacity
  BY <1>4, <1>5, <1>8, ShorterList DEF ListInv
<1>10. Cardinality(left) = Capacity - 1
  BY <1>6, <1>7, <1>9, FS_RemoveElement
<1>11. Cardinality(cached') = Cardinality(left) + 1
  BY <1>1, <1>2, <1>5, <1>7, RoomForOne
<1>12. Cardinality(cached') = Capacity
  BY <1>8, <1>10, <1>11
<1>13. \A x \in cached' \cap cached : x \in list \ {e}
  BY <1>1, <1>2, <1>7
<1> QED
  BY <1>6, <1>12, <1>13

LEMMA ForgetStep ==
  ASSUME Inv, ListInv, [Next]_vars, NEW e \in cached \ cached'
  PROVE  \/ entries'[e].status = "aborted"
         \/ Finished(e) /\ entries[e].expiresAt <= now
         \/ /\ Finished(e) /\ Cardinality(cached') = Capacity
            /\ \A x \in cached' \cap cached : Finished(x) => << x, e >> \in newer
<1>1. e \in Pruned => Finished(e) /\ entries[e].expiresAt <= now
  BY DEF Pruned, Expired
<1>2. ASSUME NEW c \in Conn, NEW request \in Request, NEW print \in Fingerprint,
             Receive(c, request, print)
      PROVE  \/ e \in Pruned
             \/ /\ Finished(e) /\ Cardinality(cached') = Capacity
                /\ \A x \in cached' \cap cached : Finished(x) => << x, e >> \in newer
 <2>1. CASE cached' = cached \ Pruned
   BY <2>1
 <2>2. CASE Miss(c, << identity[c], request >>, request, print,
                 cached \ Pruned, Without(Pruned, newer))
   BY <2>2, MissForgets
 <2> QED
   BY <1>2, <2>1, <2>2 DEF Receive, Hit
<1>3. ASSUME NEW c \in Conn, Abort(c)
      PROVE  entries'[e].status = "aborted"
 <2>1. e = entry[c] /\ e \in Ids
   BY <1>3 DEF Abort, Inv, CacheTypeOK
 <2>2. entries' = [entries EXCEPT ![e].status = "aborted"] /\ entries[e] \in Entry
   BY <1>3, <2>1, EntriesTyped DEF Abort
 <2>3. entries'[e] = [entries[e] EXCEPT !.status = "aborted"]
   BY <2>1, <2>2 DEF Ids
 <2> QED
   BY <2>2, <2>3 DEF Entry
<1>4. CASE \/ Tick \/ UNCHANGED vars
           \/ \E c \in Conn : \/ Execute(c) \/ Finish(c) \/ Wake(c)
                              \/ GiveUp(c) \/ Reply(c) \/ Close(c)
  BY <1>4 DEF Tick, Execute, Finish, Wake, GiveUp, Reply, Close, vars, cacheVars
<1> QED
  BY <1>1, <1>2, <1>3, <1>4 DEF Next

-----------------------------------------------------------------------------
(* The theorems                                                            *)

\* Index, keys and list agree and the list is in order and within its bound,
\* whatever was evicted, expired, aborted or aliased before
\* (command_cache.go:99-175).
THEOREM IndexAgreesWithList == Spec => []IndexMatchesList
<1>1. Inv => TypeOK
 <2> SUFFICES ASSUME Inv PROVE TypeOK
   OBVIOUS
 <2>1. \A e \in DOMAIN entries : entries[e] \in Entry
   BY EntriesTyped DEF Ids
 <2> QED
   BY <2>1 DEF Inv, CacheTypeOK, TypeOK, Ids
<1>2. Inv /\ ListInv => IndexMatchesList
  BY <1>1 DEF Inv, IndexInv, ListInv, Total, IndexMatchesList
<1> QED
  BY <1>2, ListInvariant, PTL

\* No entry leaves the cache but expired, aborted, or as the least recently
\* used of those that have finished, to make room in a full cache
\* (command_cache.go:133-175).
THEOREM ForgetsForAReason == Spec => ForgottenForAReason
<1> DEFINE Step == \A e \in cached \ cached' :
             \/ entries'[e].status = "aborted"
             \/ Finished(e) /\ entries[e].expiresAt <= now
             \/ /\ Finished(e) /\ Cardinality(cached') = Capacity
                /\ \A x \in cached' \cap cached : Finished(x) => << x, e >> \in newer
<1>1. Inv /\ ListInv /\ [Next]_vars => [Step]_vars
  BY ForgetStep
<1> QED
  BY <1>1, ListInvariant, PTL DEF Spec, ForgottenForAReason

\* However many connections of a player send a request at the same time, and
\* however full the cache is, one of them executes it (command_cache.go:68-97).
THEOREM OneExecutionAtATime == Spec => []NeverTwiceAtOnce
<1>1. Inv => NeverTwiceAtOnce
 <2> SUFFICES ASSUME Inv, NEW c \in Conn, NEW d \in Conn,
                     UnderWay(c), UnderWay(d), c # d, KeyOf(c) = KeyOf(d)
              PROVE  FALSE
   BY DEF NeverTwiceAtOnce
 <2>1. index[KeyOf(c)] = entry[c] /\ index[KeyOf(d)] = entry[d]
   BY DEF Inv, OwnerInv, IndexInv
 <2> QED
   BY <2>1 DEF Inv, OwnerInv
<1> QED
  BY <1>1, CacheInvariant, PTL

\* Nobody is answered with the result of another command, or of another player
\* (client.go:291-321).
THEOREM OwnAnswers == Spec => []AnswersOwnCommand
<1>1. Inv => AnswersOwnCommand
  BY DEF Inv, OwnerInv, AnswersOwnCommand
<1> QED
  BY <1>1, CacheInvariant, PTL

\* A running entry always has somebody who finishes or aborts it
\* (client.go:357-391), so that its waiters are released.
THEOREM WaitersHaveAnOwner == Spec => []NobodyWaitsInVain
<1>1. Inv => NobodyWaitsInVain
  BY DEF Inv, OwnerInv, NobodyWaitsInVain
<1> QED
  BY <1>1, CacheInvariant, PTL
=============================================================================
