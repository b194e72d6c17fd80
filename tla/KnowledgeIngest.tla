---------------------------- MODULE KnowledgeIngest ----------------------------
(***************************************************************************)
(* What happens to a knowledge file when an agent starts (core/src/        *)
(* runtime.ts, ragknowledge.ts over adapter-sqlite or adapter-postgres):   *)
(* the document stored for the file is compared with the file, removed if  *)
(* it has changed, stored anew with its chunks, and removed if the file is *)
(* gone.  Agents share the database; a document's id depends on the path   *)
(* and on whether it is shared, not on the agent.  Agents start one after  *)
(* another with the process, and at any time over REST.                    *)
(***************************************************************************)
EXTENDS Naturals

CONSTANTS Agents,     \* agents configured with the file
          Versions,   \* bound: contents of the file, 1 .. Versions
          Batches     \* bound: batches of ten chunks of each content

ASSUME KnowledgeAssumption == Versions \in Nat /\ Batches \in Nat \ {0}

Ids == {"shared", "private"}    \* the ids the path may have

VARIABLES
    adapter,    \* "sqlite" or "postgres"
    scope,      \* how each agent is configured with the file
    disk,       \* content of the file, 0 when there is none
    main,       \* the document under each id, version 0 when there is none
    chunks,     \* rows of chunks, a batch at a time
    ingest,     \* what each agent's start is at, "down" without one
    listed,     \* rows of chunks its cleanup has left to check
    cut,        \* history: documents that an error or a restart cut short, or
                \* that a cleanup took chunks of
    disturbed   \* history: documents which, since they were removed, two agents
                \* were at at a time, or whose insertion failed unnoticed or
                \* was retried

vars == <<adapter, scope, disk, main, chunks, ingest, listed, cut, disturbed>>

Owners == Agents \union {"all"}
Missing == [version |-> 0, owner |-> "all"]
ChunkRows == [id : Ids, owner : Owners, batch : 1 .. Batches,
              version : 1 .. Versions, copy : 1 .. 2]     \* copy 2: one or more

(***************************************************************************)
(* seen and read are the contents of the document and of the file that a   *)
(* start has found, batch the one it stores next, todo the documents left  *)
(* to check for deletion, failed whether an error was caught.              *)
(***************************************************************************)
Down == [at |-> "down", seen |-> 0, read |-> 0, batch |-> 1, todo |-> {},
         failed |-> FALSE]
Places == {"down", "find", "read", "remove", "remove chunks", "main", "chunks",
           "list", "clean"}

TypeOK ==
    /\ adapter \in {"sqlite", "postgres"}
    /\ scope \in [Agents -> Ids]
    /\ disk \in 0 .. Versions
    /\ main \in [Ids -> [version : 0 .. Versions, owner : Owners]]
    /\ chunks \subseteq ChunkRows
    /\ ingest \in [Agents -> [at : Places, seen : 0 .. Versions,
            read : 0 .. Versions, batch : 1 .. Batches, todo : SUBSET Ids,
            failed : BOOLEAN]]
    /\ listed \in [Agents -> SUBSET ChunkRows]
    /\ cut \subseteq Ids
    /\ disturbed \subseteq Ids

Init ==
    /\ adapter \in {"sqlite", "postgres"}
    /\ scope \in [Agents -> Ids]
    /\ disk \in 0 .. Versions
    /\ main = [id \in Ids |-> Missing]
    /\ chunks = {}
    /\ ingest = [a \in Agents |-> Down]
    /\ listed = [a \in Agents |-> {}]
    /\ cut = {}
    /\ disturbed = {}

At(a, place) == ingest[a].at = place
Go(a, place) == ingest' = [ingest EXCEPT ![a].at = place]
Working(a) == ~At(a, "down")

\* generateScopedId, and the agent column of the rows of an agent's document.
Id(a) == scope[a]
Owner(a) == IF scope[a] = "shared" THEN "all" ELSE a
Stored(id) == main[id].version # 0
Visible(a, owner) == owner \in {a, "all"}

\* An error that is caught in processCharacterRAGKnowledge: the file is given up
\* and the start goes on.
Throws(a) ==
    ingest' = [ingest EXCEPT ![a] = [Down EXCEPT !.at = "list", !.failed = TRUE]]

-----------------------------------------------------------------------------
(* processCharacterRAGKnowledge *)

\* The process starts the agent, or a REST call starts it anew.
Boot(a) ==
    /\ ~Working(a)
    /\ ingest' = [ingest EXCEPT ![a] = [Down EXCEPT !.at = "find"]]
    /\ disturbed' = IF \E b \in Agents : Working(b) /\ Id(b) = Id(a)
                THEN disturbed \union {Id(a)} ELSE disturbed
    /\ UNCHANGED <<adapter, scope, disk, main, chunks, listed, cut>>

\* getKnowledge by id sees the agent's own rows and the shared ones.
Find(a) ==
    /\ At(a, "find")
    /\ \/ ingest' = [ingest EXCEPT ![a].at = "read",
              ![a].seen = IF Visible(a, main[Id(a)].owner) THEN main[Id(a)].version
                          ELSE 0]
       \/ Throws(a)
    /\ UNCHANGED <<adapter, scope, disk, main, chunks, listed, cut, disturbed>>

\* Faulty: the old document is kept when the content has changed.
KeepOld(a) ==
    /\ At(a, "read")
    /\ ingest' = [ingest EXCEPT ![a].read = disk,
           ![a].at = IF disk \in {0, ingest[a].seen} THEN "list" ELSE "main",
           ![a].seen = 0, ![a].failed = (disk = 0)]
    /\ UNCHANGED <<adapter, scope, disk, main, chunks, listed, cut, disturbed>>

\* readFile: without a file, or with the content the document has, there is
\* nothing to do; a changed document is removed first.
ReadFile(a) ==
    /\ At(a, "read")
    /\ ingest' = [ingest EXCEPT ![a].read = disk,
           ![a].at = IF disk \in {0, ingest[a].seen} THEN "list"
                     ELSE IF ingest[a].seen # 0 THEN "remove" ELSE "main",
           ![a].seen = 0, ![a].failed = (disk = 0)]
    /\ UNCHANGED <<adapter, scope, disk, main, chunks, listed, cut, disturbed>>

\* A row that was removed is not removed again.
Keep(rows) ==
    /\ chunks' = rows
    /\ listed' = [a \in Agents |-> listed[a] \intersect rows]

\* Faulty: removing a document leaves its chunks.
RemoveMainOnly(id) ==
    /\ main' = [main EXCEPT ![id] = Missing]
    /\ UNCHANGED <<chunks, listed>>

\* removeKnowledge of the adapters, in one transaction: the chunks that name the
\* document, whoever stored them, and the document.
RemoveRows(id) ==
    /\ main' = [main EXCEPT ![id] = Missing]
    /\ Keep({row \in chunks : row.id # id})

\* With it ends what was wrong with the document, unless another agent is at it.
Forget(a, id) ==
    /\ cut' = cut \ {id}
    /\ disturbed' = IF \E b \in Agents \ {a} : Working(b) /\ Id(b) = id
                    THEN disturbed \union {id} ELSE disturbed \ {id}

Remove(a) ==
    /\ At(a, "remove")
    /\ \/ RemoveRows(Id(a)) /\ Forget(a, Id(a)) /\ Go(a, "remove chunks")
       \/ Throws(a) /\ UNCHANGED <<main, chunks, listed, cut, disturbed>>
    /\ UNCHANGED <<adapter, scope, disk>>

\* removeKnowledge of "<id>-chunk-*".
RemoveChunks(a) ==
    /\ At(a, "remove chunks")
    /\ \/ /\ Keep({row \in chunks : row.id # Id(a)})
          /\ Go(a, "main")
          /\ UNCHANGED cut
       \/ /\ Throws(a)
          /\ cut' = cut \union {Id(a)}
          /\ UNCHANGED <<chunks, listed>>
    /\ UNCHANGED <<adapter, scope, disk, main, disturbed>>

-----------------------------------------------------------------------------
(* processFile *)

\* createKnowledge of the SQLite adapter logs any error for a shared item as
\* "already exists"; for a private one it throws.
Swallowed(a) == adapter = "sqlite" /\ scope[a] = "shared"

\* The document: an id that exists is an error in SQLite (swallowed when it is
\* shared), and left as it is in PostgreSQL.
InsertMain(a) ==
    /\ At(a, "main")
    /\ \/ /\ ~Stored(Id(a))
          /\ main' = [main EXCEPT ![Id(a)] =
                         [version |-> ingest[a].read, owner |-> Owner(a)]]
          /\ Go(a, "chunks")
          /\ UNCHANGED <<cut, disturbed>>
       \/ /\ Stored(Id(a)) /\ (adapter = "postgres" \/ Swallowed(a))
          /\ Go(a, "chunks")
          /\ UNCHANGED <<main, cut, disturbed>>
       \/ /\ Swallowed(a)       \* any other error of the database
          /\ Go(a, "chunks")
          /\ cut' = cut \union {Id(a)}
          /\ disturbed' = disturbed \union {Id(a)}
          /\ UNCHANGED main
       \/ /\ Throws(a)          \* of the embedding, or not swallowed
          /\ cut' = cut \union {Id(a)}
          /\ UNCHANGED <<main, disturbed>>
    /\ UNCHANGED <<adapter, scope, disk, chunks, listed>>

\* Faulty: the last batch is left out.
NextBatchShort(a) ==
    IF ingest[a].batch + 1 >= Batches THEN Go(a, "list")
    ELSE ingest' = [ingest EXCEPT ![a].batch = @ + 1]

\* Faulty: the loop runs once too often.
NextBatchMore(a) ==
    IF ingest[a].batch > Batches THEN Go(a, "list")
    ELSE ingest' = [ingest EXCEPT ![a].batch = @ + 1]

NextBatch(a) ==
    IF ingest[a].batch = Batches THEN Go(a, "list")
    ELSE ingest' = [ingest EXCEPT ![a].batch = @ + 1]

SameChunk(id, n) == {row \in chunks : row.id = id /\ row.batch = n}

Row(a, k) == [id |-> Id(a), owner |-> Owner(a), batch |-> ingest[a].batch,
              version |-> ingest[a].read, copy |-> k]

\* The row of a batch; once more if the same row is there already.
NewRow(a) == IF Row(a, 1) \in chunks THEN Row(a, 2) ELSE Row(a, 1)

\* A batch of chunks. In SQLite a chunk's id is made of the document's and its
\* number, and nothing checks that the document exists. In PostgreSQL each chunk
\* gets an id of its own in every attempt, and the document must exist. An error
\* may leave some of the batch stored.
InsertBatch(a) ==
    /\ At(a, "chunks")
    /\ \/ /\ adapter = "sqlite" /\ SameChunk(Id(a), ingest[a].batch) = {}
          /\ chunks' = chunks \union {NewRow(a)}
          /\ NextBatch(a)
          /\ UNCHANGED <<cut, disturbed>>
       \/ /\ adapter = "postgres" /\ Stored(Id(a))
          /\ \/ chunks' = chunks \union {NewRow(a)} /\ UNCHANGED disturbed
             \/ /\ chunks' = chunks \union {Row(a, 1), Row(a, 2)}
                /\ disturbed' = disturbed \union {Id(a)}
          /\ NextBatch(a)
          /\ UNCHANGED cut
       \/ /\ Swallowed(a)
          /\ NextBatch(a)
          /\ cut' = IF SameChunk(Id(a), ingest[a].batch) = {}
                    THEN cut \union {Id(a)} ELSE cut
          /\ UNCHANGED <<chunks, disturbed>>
       \/ /\ Throws(a)
          /\ cut' = cut \union {Id(a)}
          /\ \/ UNCHANGED chunks
             \/ /\ adapter = "postgres" => Stored(Id(a))
                /\ adapter = "sqlite" => SameChunk(Id(a), ingest[a].batch) = {}
                /\ chunks' = chunks \union {NewRow(a)}
          /\ UNCHANGED disturbed
    /\ UNCHANGED <<adapter, scope, disk, main, listed>>

-----------------------------------------------------------------------------
(* cleanupDeletedKnowledgeFiles *)

\* The documents that the agent sees. Chunks are told by "chunk" in their id,
\* which only SQLite's have: those of PostgreSQL are listed one by one.
List(a) ==
    /\ At(a, "list")
    /\ \/ /\ ingest' = [ingest EXCEPT ![a] =
                [Down EXCEPT !.at = "clean",
                    !.todo = {id \in Ids : Stored(id) /\ Visible(a, main[id].owner)}]]
          /\ listed' = [listed EXCEPT ![a] =
                {row \in chunks : adapter = "postgres" /\ Visible(a, row.owner)}]
       \/ /\ ingest' = [ingest EXCEPT ![a] = Down]
          /\ UNCHANGED listed
    /\ UNCHANGED <<adapter, scope, disk, main, chunks, cut, disturbed>>

\* A document whose file is gone is removed. A check that changes nothing (the
\* file is there, or an error, which is logged) is part of EndStart.
Clean(a, id) ==
    /\ At(a, "clean")
    /\ id \in ingest[a].todo
    /\ disk = 0
    /\ RemoveRows(id)
    /\ Forget(a, id)
    /\ ingest' = [ingest EXCEPT ![a].todo = @ \ {id}]
    /\ UNCHANGED <<adapter, scope, disk>>

\* The same of one chunk of a listed row, by its own id: existsSync is asked
\* anew, no document is removed with it, and the document may stay. It may be
\* the last chunk of the row or not.
CleanChunk(a, row) ==
    /\ At(a, "clean")
    /\ row \in listed[a]
    /\ disk = 0
    /\ Keep(chunks \ {row}) \/ UNCHANGED <<chunks, listed>>
    /\ cut' = cut \union {row.id}
    /\ UNCHANGED <<adapter, scope, disk, main, ingest, disturbed>>

EndStart(a) ==
    /\ At(a, "clean")
    /\ ingest' = [ingest EXCEPT ![a] = Down]
    /\ listed' = [listed EXCEPT ![a] = {}]
    /\ UNCHANGED <<adapter, scope, disk, main, chunks, cut, disturbed>>

-----------------------------------------------------------------------------
(* The file and the process *)

Edit ==
    /\ disk' \in 0 .. Versions
    /\ UNCHANGED <<adapter, scope, main, chunks, ingest, listed, cut, disturbed>>

\* A restart cuts short what has begun to store.
Crash ==
    /\ ingest' = [a \in Agents |-> Down]
    /\ listed' = [a \in Agents |-> {}]
    /\ cut' = cut \union {Id(a) : a \in {b \in Agents :
                  ingest[b].at \in {"remove chunks", "main", "chunks"}}}
    /\ UNCHANGED <<adapter, scope, disk, main, chunks, disturbed>>

Next ==
    \/ \E a \in Agents :
        \/ Boot(a) \/ Find(a) \/ ReadFile(a) \/ Remove(a) \/ RemoveChunks(a)
        \/ InsertMain(a) \/ InsertBatch(a) \/ List(a) \/ EndStart(a)
        \/ \E id \in Ids : Clean(a, id)
        \/ \E row \in listed[a] : CleanChunk(a, row)
    \/ Edit
    \/ Crash

Spec == Init /\ [][Next]_vars

-----------------------------------------------------------------------------
(* Properties *)

\* A private document whose path another agent uses too: one id for both.
Collides(id) ==
    id = "private" /\ \E a, b \in Agents : a # b /\ scope[a] = id /\ scope[b] = id

Storing(a, id) == Id(a) = id /\ ingest[a].at \in {"remove chunks", "main", "chunks"}

\* A document is there with all its chunks, or being stored, or an error or a
\* restart cut the storing short, or a cleanup that found no file took chunks
\* from it, and its content has not changed since (processFile stores the
\* document before its chunks; cleanupDeletedKnowledgeFiles).
WholeOrCut ==
    \A id \in Ids :
        Stored(id) =>
            \/ \A n \in 1 .. Batches : SameChunk(id, n) # {}
            \/ id \in cut
            \/ \E a \in Agents : Storing(a, id)

\* The chunks are those of the document there is, of the same content, each
\* stored once, unless agents were at the document at the same time or share the
\* path of a private one, or an insertion failed unnoticed or was retried; any
\* other error and a restart neither mix contents nor leave chunks behind (the
\* removal before processFile, and the ids of the adapters).
OneContent ==
    \A id \in Ids :
        \/ id \in disturbed \/ Collides(id)
        \/ \A row \in chunks :
              row.id = id => row.version = main[id].version /\ row.copy = 1

\* A start that has gone through its file without error knows the document with
\* the content it read, with the exceptions of OneContent (the decision of
\* processCharacterRAGKnowledge).
StartLoads ==
    [][\A a \in Agents :
        ~At(a, "list") /\ At(a, "list")' /\ ~ingest'[a].failed =>
            \/ main'[Id(a)] = [version |-> ingest'[a].read, owner |-> Owner(a)]
            \/ Id(a) \in disturbed'
            \/ Collides(Id(a))]_vars

\* What the comment of processCharacterRAGKnowledge says: a document for the item
\* if there is none, then its fragments; here for a document of the agent's own,
\* whose errors are not swallowed.
StartCompletes ==
    \A a \in Agents :
        At(a, "list") /\ ~ingest[a].failed /\ scope[a] = "private" /\ Stored(Id(a)) =>
            \A n \in 1 .. Batches : SameChunk(Id(a), n) # {}

=============================================================================
