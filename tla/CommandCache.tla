---------------------------- MODULE CommandCache ----------------------------
(***************************************************************************)
(* The idempotency cache of client commands (internal/server/              *)
(* command_cache.go) and the part of a connection that uses it (client.go):*)
(* a command is looked up by player and request ID, executed by whoever    *)
(* looked it up first, and answered from the cache to everybody else.      *)
(*                                                                         *)
(* Every connection handles one command at a time in its own goroutine;    *)
(* cache.mu makes begin, finish, abort and responsesAfter one step each.   *)
(* An entry outlives its removal from the cache for those who hold it; the *)
(* result it caches is known by the entry's number.                        *)
(***************************************************************************)
EXTENDS Integers, Sequences, FiniteSets

CONSTANTS
  Conn,        \* connections; each begins under a temporary player of its own
  Home,        \* the player that reconnecting clients come back as
  Request,     \* request IDs
  Payload,     \* what a command asks for, apart from a reconnect
  Capacity,    \* entries the cache may hold
  TTL,         \* how long a result is kept
  MaxTime,     \* bound: time
  MaxEntries   \* bound: commands that are executed

ASSUME CacheAssumption ==
  /\ Home \in Conn /\ "reconnect" \notin Payload
  /\ {Capacity, TTL, MaxTime, MaxEntries} \subseteq Nat \ {0}

VARIABLES
  now,
  entries,     \* all entries ever made: fingerprint, keys, state and expiry
  index,       \* cache.entries: the entry of a key, or NoEntry
  cached,      \* the entries in cache.lru
  newer,       \* its order: pairs of a more and a less recently used entry
  identity,    \* the player a connection acts for
  closed,
  phase,       \* what a connection's goroutine is doing
  command,     \* its command, and the player it was looked up for
  entry        \* the entry it owns, waits for or is answered from

cacheVars == << now, entries, index, cached, newer >>
connVars == << identity, closed, phase, command, entry >>
vars == << cacheVars, connVars >>

NoEntry == 0
Key == Conn \X Request
Fingerprint == Payload \cup {"reconnect"}
Entry == [print : Fingerprint, keys : SUBSET Key,
          status : {"running", "finished", "aborted"}, expiresAt : Nat]
NoCommand == [player |-> Home, request |-> "", print |-> ""]

KeyOf(c) == << command[c].player, command[c].request >>

Init ==
  /\ now = 0 /\ entries = << >> /\ cached = {} /\ newer = {}
  /\ index = [k \in Key |-> NoEntry]
  /\ identity = [c \in Conn |-> c] /\ closed = [c \in Conn |-> FALSE]
  /\ phase = [c \in Conn |-> "idle"]
  /\ command = [c \in Conn |-> NoCommand]
  /\ entry = [c \in Conn |-> NoEntry]

-----------------------------------------------------------------------------
(* The cache                                                               *)

Finished(e) == entries[e].status = "finished"

\* Fault: a command under way, whose expiry is not set yet, counts as expired.
ExpiredUnfinished(e) == entries[e].expiresAt <= now

Expired(e) == Finished(e) /\ entries[e].expiresAt <= now

\* lru.MoveToFront or PushFront, and lru.Remove.
ToFront(e, list, order) ==
  {p \in order : e \notin {p[1], p[2]}} \cup {<< e, x >> : x \in list \ {e}}

Without(gone, order) == {p \in order : {p[1], p[2]} \cap gone = {}}

\* removeLocked, for all entries in gone.
Unindex(gone) == [k \in Key |-> IF index[k] \in gone THEN NoEntry ELSE index[k]]

\* pruneExpiredLocked.
Pruned == {e \in cached : Expired(e)}

\* Fault: the least recently used entry goes, finished or not.
EvictAny(list) == {e \in list : \A x \in list \ {e} : << x, e >> \in newer}

\* evictOldestFinishedLocked: the least recently used finished entry, if any.
Evict(list) ==
  {e \in list : /\ Finished(e)
                /\ \A x \in list \ {e} : Finished(x) => << x, e >> \in newer}

\* Fault: the fingerprint is not compared.
ConflictsNever(e, print) == FALSE

Conflicts(e, print) == entries[e].print # print

-----------------------------------------------------------------------------
(* One command on a connection                                             *)

Goes(c, doing, e) ==
  /\ phase' = [phase EXCEPT ![c] = doing]
  /\ entry' = [entry EXCEPT ![c] = e]

\* The connection is done with its command.
Leaves(c, doing) ==
  /\ Goes(c, doing, NoEntry)
  /\ command' = [command EXCEPT ![c] = NoCommand]

Done(c) == Leaves(c, "idle")

Asks(c, request, print) ==
  command' = [command EXCEPT ![c] =
    [player |-> identity[c], request |-> request, print |-> print]]

\* The three ways a lookup of a known key ends; list and order are the cache
\* after pruning.
Hit(c, e, request, print, list, order) ==
  /\ cached' = list /\ UNCHANGED entries
  /\ \/ /\ Conflicts(e, print)
        /\ newer' = order
        /\ UNCHANGED << phase, command, entry >>
     \/ /\ ~Conflicts(e, print)
        /\ newer' = ToFront(e, list, order)
        /\ Asks(c, request, print)
        /\ Goes(c, IF Finished(e) THEN "answered" ELSE "waiting", e)

\* An unknown key gets an entry of its own, if there is room or an entry can
\* be evicted.
Miss(c, key, request, print, list, order) ==
  LET gone == IF Cardinality(list) < Capacity THEN {} ELSE Evict(list)
      left == list \ gone
      new  == Len(entries) + 1
  IN  IF Cardinality(left) >= Capacity
      THEN /\ cached' = list /\ newer' = order /\ index' = Unindex(Pruned)
           /\ UNCHANGED << entries, phase, command, entry >>
      ELSE /\ new <= MaxEntries
           /\ cached' = left \cup {new}
           /\ newer' = ToFront(new, left, Without(gone, order))
           /\ index' = [Unindex(Pruned \cup gone) EXCEPT ![key] = new]
           /\ entries' = Append(entries,
                [print |-> print, keys |-> {key}, status |-> "running",
                 expiresAt |-> 0])
           /\ Asks(c, request, print)
           /\ Goes(c, "executing", new)

\* handleValidatedIncomingCommand up to the lookup: begin. A conflict and a
\* full cache are answered with an error and leave nothing to do. The read loop
\* does not look whether the connection is closed: it goes on until it reads
\* from a socket that is.
Receive(c, request, print) ==
  LET key   == << identity[c], request >>
      list  == cached \ Pruned
      order == Without(Pruned, newer)
  IN  /\ phase[c] = "idle"
      /\ \/ /\ index[key] \in list
            /\ index' = Unindex(Pruned)
            /\ Hit(c, index[key], request, print, list, order)
         \/ /\ index[key] \notin list
            /\ Miss(c, key, request, print, list, order)
      /\ UNCHANGED << now, identity, closed >>

\* The handler took effect. A successful reconnect made the connection act for Home
\* and closed the one that did before; all else, a failed reconnect included,
\* leaves identities alone.
Execute(c) ==
  /\ phase[c] = "executing"
  /\ phase' = [phase EXCEPT ![c] = "executed"]
  /\ \/ UNCHANGED << identity, closed >>
     \/ /\ command[c].print = "reconnect" /\ identity[c] = c /\ c # Home
        /\ identity' = [identity EXCEPT ![c] = Home]
        /\ closed' = [d \in Conn |-> closed[d] \/ (d # c /\ identity[d] = Home)]
  /\ UNCHANGED << cacheVars, command, entry >>

\* Fault: the alias takes the key from whoever has it.
TakesAlias(alias, e) == TRUE

\* The key under the identity the command ended with is free, or ours already.
MayAlias(alias, e) == index[alias] \in {NoEntry, e}

\* finish, after the handler or in place of it when the rate limit refused the
\* command: the result is kept for TTL and also under the new identity.
Finish(c) ==
  LET e     == entry[c]
      alias == << identity[c], command[c].request >>
      keys  == IF MayAlias(alias, e) THEN {alias} ELSE {}
  IN  /\ phase[c] \in {"executing", "executed"}
      /\ entries' = [entries EXCEPT
           ![e].status = "finished", ![e].expiresAt = now + TTL,
           ![e].keys = @ \cup keys]
      /\ index' = [k \in Key |-> IF k \in keys THEN e ELSE index[k]]
      /\ newer' = ToFront(e, cached, newer) /\ UNCHANGED cached
      /\ Done(c)
      /\ UNCHANGED << now, identity, closed >>

\* Fault: abort forgets the entry but leaves its waiters waiting.
AbortSilently(c) ==
  LET e == entry[c]
  IN  /\ phase[c] \in {"executing", "executed"}
      /\ index' = Unindex({e}) /\ cached' = cached \ {e}
      /\ newer' = Without({e}, newer)
      /\ Leaves(c, "stopped")
      /\ closed' = [closed EXCEPT ![c] = TRUE]
      /\ UNCHANGED << now, entries, identity >>

\* abort: the handler panicked. The entry is gone without a result, and so is
\* the goroutine, after it closed the connection.
Abort(c) ==
  LET e == entry[c]
  IN  /\ phase[c] \in {"executing", "executed"}
      /\ entries' = [entries EXCEPT ![e].status = "aborted"]
      /\ index' = Unindex({e}) /\ cached' = cached \ {e}
      /\ newer' = Without({e}, newer)
      /\ Leaves(c, "stopped")
      /\ closed' = [closed EXCEPT ![c] = TRUE]
      /\ UNCHANGED << now, identity >>

\* The wait is over: responsesAfter, even if the entry has left the cache. A
\* command that panicked has no answer.
Wake(c) ==
  LET e == entry[c]
  IN  /\ phase[c] = "waiting" /\ entries[e].status # "running"
      /\ \/ /\ Finished(e)
            /\ newer' = IF e \in cached THEN ToFront(e, cached, newer) ELSE newer
            /\ Goes(c, "answered", e) /\ UNCHANGED command
         \/ ~Finished(e) /\ Done(c) /\ UNCHANGED newer
      /\ UNCHANGED << now, entries, index, cached, identity, closed >>

\* A waiter whose connection closed gives up.
GiveUp(c) ==
  /\ phase[c] = "waiting" /\ closed[c]
  /\ Done(c)
  /\ UNCHANGED << cacheVars, identity, closed >>

\* replayCommandResponses: the cached result is sent.
Reply(c) ==
  /\ phase[c] = "answered"
  /\ Done(c)
  /\ UNCHANGED << cacheVars, identity, closed >>

Close(c) ==
  /\ ~closed[c]
  /\ closed' = [closed EXCEPT ![c] = TRUE]
  /\ UNCHANGED << cacheVars, identity, phase, command, entry >>

Tick ==
  /\ now < MaxTime
  /\ now' = now + 1
  /\ UNCHANGED << entries, index, cached, newer, connVars >>

Next ==
  \/ Tick
  \/ \E c \in Conn :
       \/ \E request \in Request, print \in Fingerprint :
            Receive(c, request, print)
       \/ Execute(c) \/ Finish(c) \/ Abort(c)
       \/ Wake(c) \/ GiveUp(c) \/ Reply(c) \/ Close(c)

Spec == Init /\ [][Next]_vars

-----------------------------------------------------------------------------
(* Properties                                                              *)

\* Types of the state.
TypeOK ==
  /\ now \in Nat /\ \A e \in DOMAIN entries : entries[e] \in Entry
  /\ cached \subseteq DOMAIN entries /\ newer \subseteq cached \X cached
  /\ index \in [Key -> {NoEntry} \cup DOMAIN entries]
  /\ identity \in [Conn -> Conn] /\ closed \in [Conn -> BOOLEAN]
  /\ phase \in [Conn -> {"idle", "executing", "executed", "waiting",
                         "answered", "stopped"}]
  /\ entry \in [Conn -> {NoEntry} \cup DOMAIN entries]

\* The index, the keys of the entries and the LRU list agree, whatever is
\* evicted, aliased, expired or aborted and in whatever order: no entry is
\* left in the index for good, none is cached that no key finds, and the list
\* is an order of at most Capacity entries (command_cache.go:99-175).
IndexMatchesList ==
  /\ TypeOK
  /\ Cardinality(cached) <= Capacity
  /\ \A k \in Key : index[k] # NoEntry =>
       index[k] \in cached /\ k \in entries[index[k]].keys
  /\ \A e \in cached : \A k \in entries[e].keys : index[k] = e
  /\ \A e, x \in cached : e # x => (<< e, x >> \in newer <=> << x, e >> \notin newer)

\* A player's request is executed by one connection at a time, however many
\* connections send it again while the first is at work and however full the
\* cache gets (command_cache.go:68-97).
UnderWay(c) == phase[c] \in {"executing", "executed"}
NeverTwiceAtOnce ==
  \A c, d \in Conn : UnderWay(c) /\ UnderWay(d) /\ c # d => KeyOf(c) # KeyOf(d)

\* A command that is answered with a result gets the result of an execution of
\* that very command for that player and request, also after the connection
\* changed identity, and also if the entry left the cache before the waiter
\* woke up (client.go:291-321).
AnswersOwnCommand ==
  \A c \in Conn : phase[c] = "answered" =>
    /\ Finished(entry[c])
    /\ entries[entry[c]].print = command[c].print
    /\ KeyOf(c) \in entries[entry[c]].keys

\* A result is forgotten, and its command may be executed again, only when its
\* time is over or the cache is full of entries that were used since; a command
\* under way only when its handler panics (command_cache.go:133-175).
ForgottenForAReason ==
  [][ \A e \in cached \ cached' :
        \/ entries'[e].status = "aborted"
        \/ Finished(e) /\ entries[e].expiresAt <= now
        \/ /\ Finished(e) /\ Cardinality(cached') = Capacity
           /\ \A x \in cached' \cap cached : Finished(x) => << x, e >> \in newer
    ]_vars

\* Whoever waits for a command is released: somebody still executes it, or it
\* has a result or has panicked, and then the waiter can go on
\* (command_cache.go:99-143).
NobodyWaitsInVain ==
  \A c \in Conn : phase[c] = "waiting" =>
    \/ entries[entry[c]].status # "running"
    \/ \E d \in Conn : UnderWay(d) /\ entry[d] = entry[c]
=============================================================================
