----------------------------- MODULE CacheManager -----------------------------
(***************************************************************************)
(* The agent's cache (core/src/cache.ts): CacheManager over one of three   *)
(* stores, seen through one key.  A file store writes in place and in      *)
(* chunks; an entry found expired is deleted by a call nobody awaits, which *)
(* removes whatever the key holds by then.                                 *)
(*                                                                         *)
(* The modules of the clients keep their state in this cache: the list of  *)
(* tweets awaiting approval, the mark of the mention poller.               *)
(***************************************************************************)
EXTENDS Naturals, Sequences

CONSTANTS Calls,      \* bound: calls of get, set and delete at a time
          MaxSets,    \* bound: values set in a behaviour
          Stores,     \* stores to consider: "memory", "file", "database"
          Size        \* how many chunks the file of each value takes

Values == 1 .. MaxSets      \* in the order in which their sets are called

ASSUME CacheAssumption ==
    /\ MaxSets \in Nat
    /\ Stores \subseteq {"memory", "file", "database"}
    /\ Size \in [Values -> Nat \ {0}]

VARIABLES
    store,      \* the adapter, chosen at start
    slot,       \* what the store holds for the key, as a sequence of chunks;
                \* <<>> when there is no file, row or map entry
    call,       \* the calls in progress
    sets,       \* values set so far: 1 .. sets
    expired,    \* values whose expiry time has passed
    ended,      \* history: values whose set succeeded
    superseded, \* history: values ended before the start of a set or delete
                \* that has succeeded since
    alone,      \* history: the last value whose set met no other change of
                \* the entry, and none since; 0 when there is none
    damaged     \* history: the file was left torn by overlapping writes, a
                \* failed write or a restart

vars == <<store, slot, call, sets, expired, ended, superseded, alone, damaged>>

Whole(v) == [i \in 1 .. Size[v] |-> v]
IsWhole(chunks) == chunks # <<>> /\ chunks = Whole(chunks[1])
Torn(chunks) == chunks # <<>> /\ ~IsWhole(chunks)

(***************************************************************************)
(* A call: where it is, the value it sets, what it has read, how many      *)
(* chunks it has written, whether the file it writes still has its name,   *)
(* and over: values that were superseded when a get started, or had ended  *)
(* when a set or delete started.                                           *)
(***************************************************************************)
Places == {"idle", "read", "check", "sweep", "put", "open", "write", "remove"}
Idle == [at |-> "idle", value |-> 0, read |-> <<>>, pos |-> 0, linked |-> FALSE,
         over |-> {}]

TypeOK ==
    /\ store \in Stores
    /\ slot \in Seq(Values)
    /\ sets \in 0 .. MaxSets
    /\ \A c \in Calls :
        /\ call[c].at \in Places
        /\ call[c].value \in 0 .. sets
        /\ call[c].read \in Seq(Values)
        /\ call[c].over \subseteq 1 .. sets
        /\ call[c].at = "write" => call[c].pos < Size[call[c].value]
    /\ expired \subseteq 1 .. sets
    /\ ended \subseteq 1 .. sets
    /\ superseded \subseteq ended
    /\ alone \in 0 .. sets
    /\ damaged \in BOOLEAN

Init ==
    /\ store \in Stores
    /\ slot = <<>>
    /\ call = [c \in Calls |-> Idle]
    /\ sets = 0
    /\ expired = {}
    /\ ended = {}
    /\ superseded = {}
    /\ alone = 0
    /\ damaged = FALSE

At(c, place) == call[c].at = place
Move(c, place) == call' = [call EXCEPT ![c].at = place]
Return(c) == call' = [call EXCEPT ![c] = Idle]

Changing(c) == call[c].at \in {"put", "open", "write", "remove"}
Writing(c) == At(c, "write") /\ call[c].linked
\* A get between its read and the end of what follows from it.
Holding(c) == call[c].at \in {"check", "sweep"}

-----------------------------------------------------------------------------
(* get *)

StartGet(c) ==
    /\ At(c, "idle")
    /\ call' = [call EXCEPT ![c].at = "read", ![c].over = superseded]
    /\ UNCHANGED <<store, slot, sets, expired, ended, superseded, alone, damaged>>

\* adapter.get: an error of the file system or the database reads as no entry.
ReadEntry(c) ==
    /\ At(c, "read")
    /\ \E chunks \in {slot, <<>>} :
        /\ store = "memory" => chunks = slot
        /\ call' = [call EXCEPT ![c].at = "check", ![c].read = chunks]
    /\ UNCHANGED <<store, slot, sets, expired, ended, superseded, alone, damaged>>

Expired(chunks) == IsWhole(chunks) /\ chunks[1] \in expired

\* Faulty: the entry is swept whether it has expired or not.
SweepAny(c) ==
    /\ At(c, "check")
    /\ \/ IsWhole(call[c].read) /\ store # "memory" /\ Move(c, "sweep")
       \/ ~(IsWhole(call[c].read) /\ store # "memory") /\ Return(c)
    /\ UNCHANGED <<store, slot, sets, expired, ended, superseded, alone, damaged>>

\* What get makes of what was read: nothing, an error of JSON.parse (torn), the
\* value, or nothing and the deletion of the expired entry, which get does not
\* await. In memory it happens at once.
CheckEntry(c) ==
    /\ At(c, "check")
    /\ \/ /\ ~Expired(call[c].read)
          /\ Return(c)
          /\ UNCHANGED slot
       \/ /\ Expired(call[c].read) /\ store = "memory"
          /\ slot' = <<>>
          /\ Return(c)
       \/ /\ Expired(call[c].read) /\ store # "memory"
          /\ Move(c, "sweep")
          /\ UNCHANGED slot
    /\ UNCHANGED <<store, sets, expired, ended, superseded, alone, damaged>>

\* unlink (or DELETE): the key is gone, and with it the name of a file that is
\* being written.
Unlink == slot' = <<>>
CallsUnlinked == [c \in Calls |-> [call[c] EXCEPT !.linked = FALSE]]

Sweep(c) ==
    /\ At(c, "sweep")
    /\ \/ Unlink /\ call' = [CallsUnlinked EXCEPT ![c] = Idle]
       \/ Return(c) /\ UNCHANGED slot   \* its errors are swallowed
    /\ UNCHANGED <<store, sets, expired, ended, superseded, alone, damaged>>

-----------------------------------------------------------------------------
(* set *)

StartSet(c) ==
    /\ At(c, "idle")
    /\ sets < MaxSets
    /\ sets' = sets + 1
    /\ call' = [call EXCEPT ![c].at = IF store = "file" THEN "open" ELSE "put",
                            ![c].value = sets + 1, ![c].over = ended]
    /\ alone' = IF \E d \in Calls : Changing(d) THEN 0 ELSE sets + 1
    /\ UNCHANGED <<store, slot, expired, ended, superseded, damaged>>

\* The set of v has succeeded: it supersedes what had ended when it started.
Succeeds(c) ==
    /\ ended' = ended \union {call[c].value}
    /\ superseded' = superseded \union call[c].over

\* A set may fail, and resolves all the same: the errors are logged.
Fails(c) ==
    /\ store # "memory"
    /\ Return(c)
    /\ alone' = 0
    /\ UNCHANGED <<ended, superseded>>

\* A get that holds an older entry may sweep the new one.
Exposed(c) == IF \E d \in Calls : Holding(d) THEN 0 ELSE alone

\* Map.set, or the upsert of the database.
Put(c) ==
    /\ At(c, "put")
    /\ \/ /\ slot' = Whole(call[c].value)
          /\ Succeeds(c)
          /\ Return(c)
          /\ alone' = Exposed(c)
       \/ Fails(c) /\ UNCHANGED slot
    /\ UNCHANGED <<store, sets, expired, damaged>>

\* Faulty: the file is opened without truncating it.
OpenInPlace(c) ==
    /\ At(c, "open")
    /\ \/ /\ call' = [call EXCEPT ![c].at = "write", ![c].linked = TRUE]
          /\ alone' = Exposed(c)
          /\ damaged' = \E d \in Calls : Writing(d)
          /\ UNCHANGED <<slot, ended, superseded>>
       \/ Fails(c) /\ UNCHANGED <<slot, damaged>>
    /\ UNCHANGED <<store, sets, expired>>

\* mkdir, and the opening of the file by writeFile, which empties it.
OpenFile(c) ==
    /\ At(c, "open")
    /\ \/ /\ slot' = <<>>
          /\ call' = [call EXCEPT ![c].at = "write", ![c].linked = TRUE]
          /\ alone' = Exposed(c)
          /\ damaged' = \E d \in Calls : Writing(d)
          /\ UNCHANGED <<ended, superseded>>
       \/ Fails(c) /\ UNCHANGED <<slot, damaged>>
    /\ UNCHANGED <<store, sets, expired>>

\* A chunk of v written at a position of the file; a gap cannot be told from
\* the chunks of v itself, both make the file torn.
Overwrite(chunks, v, pos) ==
    [i \in 1 .. (IF Len(chunks) > pos THEN Len(chunks) ELSE pos + 1) |->
        IF i = pos + 1 \/ i > Len(chunks) THEN v ELSE chunks[i]]

\* Faulty: one chunk too many is written.
WriteOneMore(c) ==
    /\ At(c, "write")
    /\ slot' = IF call[c].linked
               THEN Overwrite(slot, call[c].value, call[c].pos) ELSE slot
    /\ IF call[c].pos < Size[call[c].value]
       THEN /\ call' = [call EXCEPT ![c].pos = @ + 1]
            /\ UNCHANGED <<ended, superseded>>
       ELSE Succeeds(c) /\ Return(c)
    /\ UNCHANGED <<store, sets, expired, alone, damaged>>

\* writeFile writes the next chunk; after the last one set resolves.
WriteChunk(c) ==
    /\ At(c, "write")
    /\ \/ /\ slot' = IF call[c].linked
                     THEN Overwrite(slot, call[c].value, call[c].pos) ELSE slot
          /\ \/ /\ call[c].pos + 1 < Size[call[c].value]
                /\ call' = [call EXCEPT ![c].pos = @ + 1]
                /\ UNCHANGED <<ended, superseded>>
             \/ /\ call[c].pos + 1 = Size[call[c].value]
                /\ Succeeds(c)
                /\ Return(c)
          /\ UNCHANGED <<alone, damaged>>
       \/ /\ Fails(c)
          /\ damaged' = TRUE
          /\ UNCHANGED slot
    /\ UNCHANGED <<store, sets, expired>>

-----------------------------------------------------------------------------
(* delete *)

StartDelete(c) ==
    /\ At(c, "idle")
    /\ call' = [call EXCEPT ![c].at = "remove", ![c].over = ended]
    /\ alone' = 0
    /\ UNCHANGED <<store, slot, sets, expired, ended, superseded, damaged>>

\* Faulty: the deletion is not awaited.
RemoveLater(c) ==
    /\ At(c, "remove")
    /\ superseded' = superseded \union call[c].over
    /\ Move(c, "sweep")
    /\ UNCHANGED <<store, slot, sets, expired, ended, alone, damaged>>

\* The errors of a delete are swallowed too.
RemoveEntry(c) ==
    /\ At(c, "remove")
    /\ \/ /\ Unlink
          /\ call' = [CallsUnlinked EXCEPT ![c] = Idle]
          /\ superseded' = superseded \union call[c].over
       \/ /\ store # "memory"
          /\ Return(c)
          /\ UNCHANGED <<slot, superseded>>
    /\ UNCHANGED <<store, sets, expired, ended, alone, damaged>>

-----------------------------------------------------------------------------
(* The clock and the process *)

Expire(v) ==
    /\ v \in (1 .. sets) \ expired
    /\ expired' = expired \union {v}
    /\ UNCHANGED <<store, slot, call, sets, ended, superseded, alone, damaged>>

\* A restart: the calls are gone, and so is what was kept in memory.
Crash ==
    /\ call' = [c \in Calls |-> Idle]
    /\ \/ /\ store = "memory"
          /\ slot' = <<>>
          /\ alone' = 0
          /\ UNCHANGED damaged
       \/ /\ store # "memory"
          /\ damaged' = (damaged \/ \E c \in Calls : Writing(c))
          /\ UNCHANGED <<slot, alone>>
    /\ UNCHANGED <<store, sets, expired, ended, superseded>>

Step(c) ==
    \/ StartGet(c) \/ ReadEntry(c) \/ CheckEntry(c) \/ Sweep(c)
    \/ StartSet(c) \/ Put(c) \/ OpenFile(c) \/ WriteChunk(c)
    \/ StartDelete(c) \/ RemoveEntry(c)

Next == (\E c \in Calls : Step(c)) \/ (\E v \in Values : Expire(v)) \/ Crash

Spec == Init /\ [][Next]_vars

-----------------------------------------------------------------------------
(* Properties *)

\* A get returns no value that a set or delete, which succeeded before the get
\* was called, had replaced (CacheManager.get over any adapter), whatever
\* chunks, overlapping writes, failures and restarts there are.
NeverStale ==
    \A c \in Calls :
        At(c, "check") /\ IsWhole(call[c].read) =>
            call[c].read[1] \notin call[c].over

\* A value whose set succeeded stays until it expires, unless another set or
\* delete overlapped it or came later, or a get had read an older entry before
\* and had not returned, or swept it, when the value was stored
\* (adapter.delete without await in get).
FreshKept == alone \in ended \ expired => slot = Whole(alone)

\* Only a file can make get throw, and only while it is being written, or after
\* two writes overlapped, one failed or the process died in one
\* (FsCacheAdapter.set writes in place). The next set alone with the file
\* repairs it.
TornHasCause ==
    Torn(slot) => store = "file" /\ (damaged \/ \E c \in Calls : Writing(c))

=============================================================================
