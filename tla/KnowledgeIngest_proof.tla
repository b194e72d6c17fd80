------------------------- MODULE KnowledgeIngest_proof -------------------------
(***************************************************************************)
(* The documents and chunks of a knowledge file, for any number of agents, *)
(* contents and batches.                                                   *)
(***************************************************************************)
EXTENDS KnowledgeIngest, TLAPS

-----------------------------------------------------------------------------
(* What a step does to the starts of the agents *)

Starts == [at : Places, seen : 0 .. Versions, read : 0 .. Versions,
           batch : 1 .. Batches, todo : SUBSET Ids, failed : BOOLEAN]

Others(a) == \A b \in Agents : b # a => ingest'[b] = ingest[b]

LEMMA Change ==
    ASSUME ingest \in [Agents -> Starts], NEW a \in Agents, NEW start \in Starts,
           ingest' = [ingest EXCEPT ![a] = start]
    PROVE  ingest' \in [Agents -> Starts] /\ Others(a) /\ ingest'[a] = start
BY DEF Others

\* What Go, Throws and NextBatch change of the agent's record.
LEMMA GoStep ==
    ASSUME ingest \in [Agents -> Starts], NEW a \in Agents,
           NEW place \in Places, Go(a, place)
    PROVE  /\ ingest' \in [Agents -> Starts] /\ Others(a)
           /\ ingest'[a] = [ingest[a] EXCEPT !.at = place]
           /\ ingest'[a].at = place /\ ingest'[a].read = ingest[a].read
           /\ ingest'[a].seen = ingest[a].seen /\ ingest'[a].batch = ingest[a].batch
           /\ ingest'[a].failed = ingest[a].failed
BY DEF Go, Others, Starts

LEMMA DownType ==
    /\ Down \in Starts /\ [Down EXCEPT !.at = "find"] \in Starts
    /\ [Down EXCEPT !.at = "list", !.failed = TRUE] \in Starts
    /\ Down.at = "down" /\ Down.batch = 1
<1>1. 0 \in 0 .. Versions /\ 1 \in 1 .. Batches /\ {} \in SUBSET Ids
  BY KnowledgeAssumption
<1>2. "down" \in Places /\ "find" \in Places /\ "list" \in Places
  BY DEF Places
<1> HIDE DEF Ids, Places
<1>3. Down \in Starts
  BY <1>1, <1>2 DEF Down, Starts
<1>4. /\ [Down EXCEPT !.at = "find"] \in Starts
      /\ [Down EXCEPT !.at = "list", !.failed = TRUE] \in Starts
  BY <1>2, <1>3 DEF Starts
<1> QED
  BY <1>3, <1>4 DEF Down

LEMMA ThrowsStep ==
    ASSUME ingest \in [Agents -> Starts], NEW a \in Agents, Throws(a)
    PROVE  /\ ingest' \in [Agents -> Starts] /\ Others(a)
           /\ ingest'[a].at = "list" /\ ingest'[a].failed = TRUE
<1>1. /\ ingest' \in [Agents -> Starts] /\ Others(a)
      /\ ingest'[a] = [Down EXCEPT !.at = "list", !.failed = TRUE]
  BY DownType, Change DEF Throws
<1> QED
  BY <1>1 DEF Down

LEMMA BatchStep ==
    ASSUME ingest \in [Agents -> Starts], NEW a \in Agents, At(a, "chunks"),
           NextBatch(a)
    PROVE  /\ ingest' \in [Agents -> Starts] /\ Others(a)
           /\ ingest'[a].read = ingest[a].read
           /\ ingest'[a].failed = ingest[a].failed
           /\ IF ingest[a].batch = Batches THEN ingest'[a].at = "list"
              ELSE /\ ingest'[a].at = "chunks"
                   /\ ingest'[a].batch = ingest[a].batch + 1
<1> USE KnowledgeAssumption
<1>1. /\ ingest[a] \in Starts /\ ingest[a].at = "chunks"
      /\ ingest[a].batch \in 1 .. Batches
  BY DEF At, Starts
<1>2. CASE ingest[a].batch = Batches
  <2>1. Go(a, "list") /\ "list" \in Places
    BY <1>2 DEF NextBatch, Places
  <2> QED
    BY <1>2, <2>1, GoStep
<1>3. CASE ingest[a].batch # Batches
  <2>1. ingest' = [ingest EXCEPT ![a] =
                      [ingest[a] EXCEPT !.batch = ingest[a].batch + 1]]
    BY <1>1, <1>3 DEF NextBatch
  <2>2. ingest[a].batch + 1 \in 1 .. Batches
    BY <1>1, <1>3
  <2>3. [ingest[a] EXCEPT !.batch = ingest[a].batch + 1] \in Starts
    BY <1>1, <2>2 DEF Starts
  <2>4. /\ ingest' \in [Agents -> Starts] /\ Others(a)
        /\ ingest'[a] = [ingest[a] EXCEPT !.batch = ingest[a].batch + 1]
    BY <2>1, <2>3, Change
  <2> QED
    BY <1>1, <1>3, <2>4 DEF Starts
<1> QED
  BY <1>2, <1>3

LEMMA BootStep ==
    ASSUME ingest \in [Agents -> Starts], NEW a \in Agents, Boot(a)
    PROVE  /\ ingest' \in [Agents -> Starts] /\ Others(a)
           /\ ingest'[a].at = "find" /\ ingest'[a].batch = 1
<1>1. [Down EXCEPT !.at = "find"] \in Starts
  BY DownType
<1>2. ingest' = [ingest EXCEPT ![a] = [Down EXCEPT !.at = "find"]]
  BY DEF Boot
<1>3. /\ ingest' \in [Agents -> Starts] /\ Others(a)
      /\ ingest'[a] = [Down EXCEPT !.at = "find"]
  BY <1>1, <1>2, Change
<1> QED
  BY <1>3 DEF Down

LEMMA FindStep ==
    ASSUME TypeOK, NEW a \in Agents, Find(a), ~Throws(a)
    PROVE  /\ ingest' \in [Agents -> Starts] /\ Others(a)
           /\ ingest'[a].at = "read" /\ ingest'[a].batch = ingest[a].batch
           /\ ingest'[a].seen = IF Visible(a, main[Id(a)].owner)
                                THEN main[Id(a)].version ELSE 0
<1>1. main[Id(a)].version \in 0 .. Versions /\ 0 \in 0 .. Versions
  BY KnowledgeAssumption DEF TypeOK, Id
<1>2. ingest \in [Agents -> Starts]
  BY DEF TypeOK, Starts
<1> DEFINE found == IF Visible(a, main[Id(a)].owner) THEN main[Id(a)].version
                    ELSE 0
<1>3. found \in 0 .. Versions
  BY <1>1
<1>4. ingest' = [ingest EXCEPT ![a].at = "read", ![a].seen = found]
  BY DEF Find
<1> HIDE DEF found
<1>5. ingest' = [ingest EXCEPT ![a] =
                    [ingest[a] EXCEPT !.at = "read", !.seen = found]]
  BY <1>2, <1>4
<1>6. [ingest[a] EXCEPT !.at = "read", !.seen = found] \in Starts
  BY <1>2, <1>3 DEF Starts, Places
<1>7. /\ ingest' \in [Agents -> Starts] /\ Others(a)
      /\ ingest'[a] = [ingest[a] EXCEPT !.at = "read", !.seen = found]
  BY <1>2, <1>5, <1>6, Change
<1> QED
  BY <1>2, <1>7 DEF Starts, found

LEMMA ReadStep ==
    ASSUME ingest \in [Agents -> Starts], disk \in 0 .. Versions,
           NEW a \in Agents, ReadFile(a)
    PROVE  /\ ingest' \in [Agents -> Starts] /\ Others(a)
           /\ ingest'[a].at = IF disk \in {0, ingest[a].seen} THEN "list"
                              ELSE IF ingest[a].seen # 0 THEN "remove" ELSE "main"
           /\ ingest'[a].read = disk /\ ingest'[a].batch = ingest[a].batch
           /\ ingest'[a].failed = (disk = 0)
<1>1. 0 \in 0 .. Versions
  BY KnowledgeAssumption
<1>2. ingest' = [ingest EXCEPT ![a].read = disk,
           ![a].at = IF disk \in {0, ingest[a].seen} THEN "list"
                     ELSE IF ingest[a].seen # 0 THEN "remove" ELSE "main",
           ![a].seen = 0, ![a].failed = (disk = 0)]
  BY DEF ReadFile
<1> DEFINE place == IF disk \in {0, ingest[a].seen} THEN "list"
                    ELSE IF ingest[a].seen # 0 THEN "remove" ELSE "main"
           start == [ingest[a] EXCEPT !.read = disk, !.at = place, !.seen = 0,
                        !.failed = (disk = 0)]
<1>3. place \in Places /\ (disk = 0) \in BOOLEAN
  BY DEF Places
<1> HIDE DEF place
<1>4. start \in Starts
  BY <1>1, <1>3 DEF Starts
<1>5. ingest' = [ingest EXCEPT ![a].read = disk, ![a].at = place, ![a].seen = 0,
                    ![a].failed = (disk = 0)]
  BY <1>2 DEF place
<1>6. ingest' = [ingest EXCEPT ![a] = start]
  BY <1>5
<1>7. ingest' \in [Agents -> Starts] /\ Others(a) /\ ingest'[a] = start
  BY <1>4, <1>6, Change
<1>8. /\ ingest'[a].at = place /\ ingest'[a].read = disk
      /\ ingest'[a].batch = ingest[a].batch /\ ingest'[a].failed = (disk = 0)
  BY <1>7 DEF Starts
<1> QED
  BY <1>7, <1>8 DEF place

LEMMA ListStep ==
    ASSUME ingest \in [Agents -> Starts], NEW a \in Agents, List(a)
    PROVE  /\ ingest' \in [Agents -> Starts] /\ Others(a)
           /\ ingest'[a].at \in {"clean", "down"} /\ ingest'[a].batch = 1
<1>0. Down \in Starts
  BY DownType
<1>1. CASE ingest' = [ingest EXCEPT ![a] =
              [Down EXCEPT !.at = "clean",
                  !.todo = {id \in Ids : Stored(id) /\ Visible(a, main[id].owner)}]]
  <2> DEFINE todo == {id \in Ids : Stored(id) /\ Visible(a, main[id].owner)}
  <2>1. todo \in SUBSET Ids
    OBVIOUS
  <2> HIDE DEF todo
  <2>2. [Down EXCEPT !.at = "clean", !.todo = todo] \in Starts
    BY <1>0, <2>1 DEF Starts, Places
  <2>3. ingest' = [ingest EXCEPT ![a] =
            [Down EXCEPT !.at = "clean", !.todo = todo]]
    BY <1>1 DEF todo
  <2> QED
    BY <2>2, <2>3 DEF Others, Down
<1>2. CASE ingest' = [ingest EXCEPT ![a] = Down]
  BY <1>0, <1>2, DownType, Change
<1> QED
  BY <1>1, <1>2 DEF List

LEMMA EndStep ==
    ASSUME ingest \in [Agents -> Starts], NEW a \in Agents, EndStart(a)
    PROVE  /\ ingest' \in [Agents -> Starts] /\ Others(a)
           /\ ingest'[a].at = "down" /\ ingest'[a].batch = 1
BY DownType, Change DEF EndStart

LEMMA CleanStep ==
    ASSUME ingest \in [Agents -> Starts], NEW a \in Agents, NEW id \in Ids,
           Clean(a, id)
    PROVE  /\ ingest' \in [Agents -> Starts] /\ Others(a)
           /\ ingest'[a].at = "clean" /\ ingest'[a].batch = ingest[a].batch
<1>1. ingest' = [ingest EXCEPT ![a].todo = ingest[a].todo \ {id}] /\ At(a, "clean")
  BY DEF Clean
<1>2. ingest[a].todo \ {id} \in SUBSET Ids
  BY DEF Starts
<1> QED
  BY <1>1, <1>2 DEF Others, Starts, At

LEMMA CrashStep ==
    ASSUME Crash
    PROVE  /\ ingest' \in [Agents -> Starts]
           /\ \A a \in Agents : ingest'[a].at = "down" /\ ingest'[a].batch = 1
<1> QED
  BY DownType DEF Crash

-----------------------------------------------------------------------------
(* Types, and what of its record an agent has set at each place *)

Shape ==
    \A a \in Agents :
        /\ ingest[a].at \in {"remove", "remove chunks", "main", "chunks"} =>
               ingest[a].read # 0
        /\ ingest[a].at \notin {"chunks", "list"} => ingest[a].batch = 1

TypeInv == TypeOK /\ Shape

LEMMA TypeFacts ==
    ASSUME TypeOK, NEW a \in Agents
    PROVE  /\ ingest \in [Agents -> Starts] /\ Id(a) \in Ids
           /\ Owner(a) \in Owners /\ Missing \in [version : 0 .. Versions,
                                                  owner : Owners]
           /\ ingest[a].read \in 0 .. Versions /\ ingest[a].batch \in 1 .. Batches
           /\ ingest[a].seen \in 0 .. Versions
<1>1. 0 \in 0 .. Versions
  BY KnowledgeAssumption
<1>2. Missing \in [version : 0 .. Versions, owner : Owners]
  BY <1>1 DEF Missing, Owners
<1>3. Owner(a) \in Owners
  BY DEF Owner, Owners
<1>4. ingest \in [Agents -> Starts] /\ Id(a) \in Ids
  BY DEF TypeOK, Starts, Id
<1> QED
  BY <1>2, <1>3, <1>4 DEF Starts

LEMMA RowType ==
    ASSUME TypeOK, NEW a \in Agents, ingest[a].read # 0
    PROVE  Row(a, 1) \in ChunkRows /\ Row(a, 2) \in ChunkRows
           /\ NewRow(a) \in ChunkRows
<1>1. ingest[a].read \in 1 .. Versions
  BY TypeFacts
<1>2. Row(a, 1) \in ChunkRows /\ Row(a, 2) \in ChunkRows
  BY <1>1, TypeFacts DEF Row, ChunkRows
<1> QED
  BY <1>2 DEF NewRow

\* Rows are only ever taken from what there is to check.
LEMMA KeepType ==
    ASSUME TypeOK, NEW rows \in SUBSET chunks, Keep(rows)
    PROVE  /\ chunks' \subseteq ChunkRows
           /\ listed' \in [Agents -> SUBSET ChunkRows]
BY DEF TypeOK, Keep

\* What the rows of a removal, a forgotten history and an insertion are made of.
LEMMA RemoveRowsType ==
    ASSUME TypeOK, NEW a \in Agents, NEW id \in Ids, RemoveRows(id), Forget(a, id)
    PROVE  /\ main' \in [Ids -> [version : 0 .. Versions, owner : Owners]]
           /\ chunks' \subseteq ChunkRows
           /\ listed' \in [Agents -> SUBSET ChunkRows]
           /\ cut' \subseteq Ids /\ disturbed' \subseteq Ids
<1>1. main' \in [Ids -> [version : 0 .. Versions, owner : Owners]]
  BY TypeFacts DEF TypeOK, RemoveRows
<1>2. /\ chunks' \subseteq ChunkRows
      /\ listed' \in [Agents -> SUBSET ChunkRows]
  BY KeepType DEF RemoveRows
<1> QED
  BY <1>1, <1>2 DEF TypeOK, Forget

LEMMA InsertMainType ==
    ASSUME TypeOK, NEW a \in Agents, InsertMain(a)
    PROVE  /\ main' \in [Ids -> [version : 0 .. Versions, owner : Owners]]
           /\ chunks' = chunks /\ listed' = listed
           /\ cut' \subseteq Ids /\ disturbed' \subseteq Ids
           /\ Throws(a) \/ Go(a, "chunks")
<1>1. main \in [Ids -> [version : 0 .. Versions, owner : Owners]]
  BY DEF TypeOK
<1>2. [version |-> ingest[a].read, owner |-> Owner(a)] \in
          [version : 0 .. Versions, owner : Owners]
  BY TypeFacts
<1>3. main' = main \/ main' = [main EXCEPT ![Id(a)] =
          [version |-> ingest[a].read, owner |-> Owner(a)]]
  BY DEF InsertMain
<1>4. main' \in [Ids -> [version : 0 .. Versions, owner : Owners]]
  BY <1>1, <1>2, <1>3
<1>5. Id(a) \in Ids /\ cut \subseteq Ids /\ disturbed \subseteq Ids
  BY TypeFacts DEF TypeOK
<1> HIDE DEF Ids
<1>6. /\ cut' = cut \/ cut' = cut \union {Id(a)}
      /\ disturbed' = disturbed \/ disturbed' = disturbed \union {Id(a)}
  BY DEF InsertMain
<1> QED
  BY <1>4, <1>5, <1>6 DEF InsertMain

LEMMA InsertBatchEffect ==
    ASSUME NEW a \in Agents, InsertBatch(a)
    PROVE  /\ \/ chunks' = chunks \/ chunks' = chunks \union {NewRow(a)}
              \/ chunks' = chunks \union {Row(a, 1), Row(a, 2)}
           /\ cut' = cut \/ cut' = cut \union {Id(a)}
           /\ disturbed' = disturbed \/ disturbed' = disturbed \union {Id(a)}
           /\ NextBatch(a) \/ Throws(a)
           /\ main' = main /\ listed' = listed /\ At(a, "chunks")
BY DEF InsertBatch

LEMMA InitTypeInv == Init => TypeInv
<1> SUFFICES ASSUME Init PROVE TypeInv
  OBVIOUS
<1>1. main \in [Ids -> [version : 0 .. Versions, owner : Owners]]
  BY KnowledgeAssumption DEF Init, Missing, Owners
<1>2. ingest \in [Agents -> Starts]
  BY DownType DEF Init
<1>3. \A a \in Agents : ingest[a].at = "down" /\ ingest[a].batch = 1
  BY DownType DEF Init
<1> QED
  BY <1>1, <1>2, <1>3 DEF Init, TypeInv, TypeOK, Shape, Starts

\* Only the record of the agent that takes a step changes.
LEMMA OneShape ==
    ASSUME Shape, NEW a \in Agents, Others(a),
           ingest'[a].at \in {"remove", "remove chunks", "main", "chunks"} =>
               ingest'[a].read # 0,
           ingest'[a].at \notin {"chunks", "list"} => ingest'[a].batch = 1
    PROVE  Shape'
BY DEF Shape, Others

LEMMA NextStarts == TypeInv /\ [Next]_vars => ingest' \in [Agents -> Starts] /\ Shape'
<1> SUFFICES ASSUME TypeInv, [Next]_vars
             PROVE  ingest' \in [Agents -> Starts] /\ Shape'
  OBVIOUS
<1>0. /\ TypeOK /\ Shape /\ ingest \in [Agents -> Starts]
      /\ \A a \in Agents : ingest[a].read \in 0 .. Versions
      /\ disk \in 0 .. Versions
  BY DEF TypeInv, TypeOK, Starts
<1>1. ASSUME NEW a \in Agents, Boot(a)
      PROVE  ingest' \in [Agents -> Starts] /\ Shape'
  BY <1>0, <1>1, BootStep, OneShape
<1>2. ASSUME NEW a \in Agents, Find(a)
      PROVE  ingest' \in [Agents -> Starts] /\ Shape'
  <2>1. ingest[a].batch = 1
    BY <1>0, <1>2 DEF Find, At, Shape
  <2>2. CASE Throws(a)
    BY <1>0, <2>2, ThrowsStep, OneShape
  <2>3. CASE ~Throws(a)
    BY <1>0, <1>2, <2>1, <2>3, FindStep, OneShape
  <2> QED
    BY <2>2, <2>3
<1>3. ASSUME NEW a \in Agents, ReadFile(a)
      PROVE  ingest' \in [Agents -> Starts] /\ Shape'
  <2>1. ingest[a].batch = 1
    BY <1>0, <1>3 DEF ReadFile, At, Shape
  <2> QED
    BY <1>0, <1>3, <2>1, ReadStep, OneShape
<1>4. ASSUME NEW a \in Agents, Remove(a)
      PROVE  ingest' \in [Agents -> Starts] /\ Shape'
  <2>1. /\ ingest[a].batch = 1 /\ ingest[a].read # 0
        /\ "remove chunks" \in Places
    BY <1>0, <1>4 DEF Remove, At, Shape, Places
  <2>2. Go(a, "remove chunks") \/ Throws(a)
    BY <1>4 DEF Remove
  <2> QED
    BY <1>0, <2>1, <2>2, GoStep, ThrowsStep, OneShape
<1>5. ASSUME NEW a \in Agents, RemoveChunks(a)
      PROVE  ingest' \in [Agents -> Starts] /\ Shape'
  <2>1. ingest[a].batch = 1 /\ ingest[a].read # 0 /\ "main" \in Places
    BY <1>0, <1>5 DEF RemoveChunks, At, Shape, Places
  <2>2. Go(a, "main") \/ Throws(a)
    BY <1>5 DEF RemoveChunks
  <2> QED
    BY <1>0, <2>1, <2>2, GoStep, ThrowsStep, OneShape
<1>6. ASSUME NEW a \in Agents, InsertMain(a)
      PROVE  ingest' \in [Agents -> Starts] /\ Shape'
  <2>1. ingest[a].batch = 1 /\ ingest[a].read # 0 /\ "chunks" \in Places
    BY <1>0, <1>6 DEF InsertMain, At, Shape, Places
  <2>2. Go(a, "chunks") \/ Throws(a)
    BY <1>6 DEF InsertMain
  <2> QED
    BY <1>0, <2>1, <2>2, GoStep, ThrowsStep, OneShape
<1>7. ASSUME NEW a \in Agents, InsertBatch(a)
      PROVE  ingest' \in [Agents -> Starts] /\ Shape'
  <2>1. ingest[a].read # 0 /\ At(a, "chunks")
    BY <1>0, <1>7 DEF InsertBatch, At, Shape
  <2>2. CASE NextBatch(a)
    <3>1. /\ ingest' \in [Agents -> Starts] /\ Others(a)
          /\ ingest'[a].read # 0 /\ ingest'[a].at \in {"list", "chunks"}
      BY <1>0, <2>1, <2>2, BatchStep
    <3> QED
      BY <1>0, <3>1, OneShape
  <2>3. CASE Throws(a)
    BY <1>0, <2>1, <2>3, ThrowsStep, OneShape
  <2> QED
    BY <1>7, <2>2, <2>3, InsertBatchEffect
<1>8. ASSUME NEW a \in Agents, List(a)
      PROVE  ingest' \in [Agents -> Starts] /\ Shape'
  BY <1>0, <1>8, ListStep, OneShape
<1>9. ASSUME NEW a \in Agents, EndStart(a)
      PROVE  ingest' \in [Agents -> Starts] /\ Shape'
  BY <1>0, <1>9, EndStep, OneShape
<1>10. ASSUME NEW a \in Agents, NEW id \in Ids, Clean(a, id)
       PROVE  ingest' \in [Agents -> Starts] /\ Shape'
  <2>1. ingest[a].batch = 1
    BY <1>0, <1>10 DEF Clean, At, Shape
  <2> QED
    BY <1>0, <1>10, <2>1, CleanStep, OneShape
<1>11. CASE Edit
  BY <1>0, <1>11 DEF Edit, Shape
<1>12. CASE Crash
  BY <1>12, CrashStep DEF Shape
<1>13. CASE UNCHANGED vars
  BY <1>0, <1>13 DEF vars, Shape
<1>14. ASSUME NEW a \in Agents, NEW row \in listed[a], CleanChunk(a, row)
       PROVE  ingest' \in [Agents -> Starts] /\ Shape'
  BY <1>0, <1>14 DEF CleanChunk, Shape
<1> QED
  BY <1>1, <1>2, <1>3, <1>4, <1>5, <1>6, <1>7, <1>8, <1>9, <1>10, <1>11, <1>12,
     <1>13, <1>14 DEF Next

LEMMA NextTypeInv == TypeInv /\ [Next]_vars => TypeInv'
<1> SUFFICES ASSUME TypeInv, [Next]_vars PROVE TypeInv'
  OBVIOUS
<1> DEFINE Rest ==
        /\ main' \in [Ids -> [version : 0 .. Versions, owner : Owners]]
        /\ chunks' \subseteq ChunkRows
        /\ listed' \in [Agents -> SUBSET ChunkRows]
        /\ cut' \subseteq Ids /\ disturbed' \subseteq Ids
<1>0. /\ TypeOK /\ Shape /\ cut \subseteq Ids /\ disturbed \subseteq Ids
      /\ main \in [Ids -> [version : 0 .. Versions, owner : Owners]]
      /\ chunks \subseteq ChunkRows /\ listed \in [Agents -> SUBSET ChunkRows]
  BY DEF TypeInv, TypeOK
<1>1. ingest' \in [Agents -> Starts] /\ Shape'
  BY NextStarts
<1>2. /\ adapter' \in {"sqlite", "postgres"} /\ scope' \in [Agents -> Ids]
      /\ disk' \in 0 .. Versions
  BY DEF TypeInv, TypeOK, Next, vars, Boot, Find, ReadFile, Remove, RemoveChunks,
         InsertMain, InsertBatch, List, EndStart, Clean, CleanChunk, Edit, Crash
<1>3. ASSUME NEW a \in Agents,
             \/ Boot(a) \/ Find(a) \/ ReadFile(a) \/ List(a) \/ EndStart(a)
      PROVE  Rest
  <2>1. /\ UNCHANGED <<main, chunks, cut>>
        /\ disturbed' = disturbed \/ disturbed' = disturbed \union {Id(a)}
    BY <1>3 DEF Boot, Find, ReadFile, List, EndStart
  <2>2. listed' \in [Agents -> SUBSET ChunkRows]
    BY <1>0, <1>3 DEF Boot, Find, ReadFile, List, EndStart
  <2> QED
    BY <1>0, <2>1, <2>2, TypeFacts
<1>4. ASSUME NEW a \in Agents, Remove(a) PROVE Rest
  <2>1. CASE UNCHANGED <<main, chunks, listed, cut, disturbed>>
    BY <1>0, <2>1
  <2>2. CASE RemoveRows(Id(a)) /\ Forget(a, Id(a))
    BY <1>0, <2>2, TypeFacts, RemoveRowsType
  <2> QED
    BY <1>4, <2>1, <2>2 DEF Remove
<1>5. ASSUME NEW a \in Agents, RemoveChunks(a) PROVE Rest
  <2>1. /\ main' = main /\ disturbed' = disturbed
        /\ cut' = cut \/ cut' = cut \union {Id(a)}
    BY <1>5 DEF RemoveChunks
  <2>2. /\ chunks' \subseteq ChunkRows
        /\ listed' \in [Agents -> SUBSET ChunkRows]
    BY <1>0, <1>5, KeepType DEF RemoveChunks
  <2> QED
    BY <1>0, <2>1, <2>2, TypeFacts
<1>6. ASSUME NEW a \in Agents, InsertMain(a) PROVE Rest
  BY <1>0, <1>6, InsertMainType
<1>7. ASSUME NEW a \in Agents, InsertBatch(a) PROVE Rest
  <2>1. ingest[a].read # 0
    BY <1>0, <1>7 DEF InsertBatch, At, Shape
  <2>2. chunks' \subseteq ChunkRows
    BY <1>0, <1>7, <2>1, InsertBatchEffect, RowType
  <2> QED
    BY <1>0, <1>7, <2>2, InsertBatchEffect, TypeFacts
<1>8. ASSUME NEW a \in Agents, NEW id \in Ids, Clean(a, id) PROVE Rest
  BY <1>0, <1>8, RemoveRowsType DEF Clean
<1>9. ASSUME Edit \/ UNCHANGED vars PROVE Rest
  BY <1>0, <1>9 DEF Edit, vars
<1>10. ASSUME Crash PROVE Rest
  <2>1. {Id(a) : a \in {b \in Agents :
             ingest[b].at \in {"remove chunks", "main", "chunks"}}} \subseteq Ids
    BY <1>0, TypeFacts
  <2> QED
    BY <1>0, <1>10, <2>1 DEF Crash
<1>11. ASSUME NEW a \in Agents, NEW row \in listed[a], CleanChunk(a, row)
       PROVE  Rest
  <2>1. row \in ChunkRows /\ row.id \in Ids
    BY <1>0 DEF ChunkRows
  <2>2. /\ chunks' \subseteq ChunkRows
        /\ listed' \in [Agents -> SUBSET ChunkRows]
    BY <1>0, <1>11, KeepType DEF CleanChunk
  <2> QED
    BY <1>0, <1>11, <2>1, <2>2 DEF CleanChunk
<1>12. Rest
  BY <1>3, <1>4, <1>5, <1>6, <1>7, <1>8, <1>9, <1>10, <1>11 DEF Next
<1> QED
  BY <1>1, <1>2, <1>12 DEF TypeInv, TypeOK, Starts

\* The agents' starts, the documents and the chunks keep their types; in
\* particular the loop of processFile stays within the batches of the file.
THEOREM TypeCorrect == Spec => []TypeOK
<1>1. TypeInv => TypeOK
  BY DEF TypeInv
<1> QED
  BY InitTypeInv, NextTypeInv, <1>1, PTL DEF Spec

-----------------------------------------------------------------------------
(* The batches a document lacks are still to come *)

Behind(a, id, n) ==
    /\ Id(a) = id
    /\ \/ ingest[a].at \in {"remove chunks", "main"}
       \/ ingest[a].at = "chunks" /\ ingest[a].batch <= n

Coming(id, n) == SameChunk(id, n) # {} \/ \E a \in Agents : Behind(a, id, n)

Whole ==
    \A id \in Ids :
        Stored(id) /\ id \notin cut => \A n \in 1 .. Batches : Coming(id, n)

\* A step of an agent that keeps its place, or leaves it with the batch stored.
LEMMA StillComing ==
    ASSUME NEW a \in Agents, Others(a), scope' = scope, chunks \subseteq chunks',
           NEW id, NEW n, Coming(id, n),
           Behind(a, id, n) => Behind(a, id, n)' \/ SameChunk(id, n)' # {}
    PROVE  Coming(id, n)'
<1>1. SameChunk(id, n) \subseteq SameChunk(id, n)'
  BY DEF SameChunk
<1>2. \A b \in Agents : b # a /\ Behind(b, id, n) => Behind(b, id, n)'
  BY DEF Behind, Others, Id
<1> QED
  BY <1>1, <1>2 DEF Coming

LEMMA NewRowFacts ==
    ASSUME NEW a \in Agents
    PROVE  /\ Row(a, 1).id = Id(a) /\ Row(a, 1).batch = ingest[a].batch
           /\ NewRow(a).id = Id(a) /\ NewRow(a).batch = ingest[a].batch
BY DEF Row, NewRow

LEMMA InitWhole == Init => Whole
BY DEF Init, Whole, Stored, Missing

LEMMA NextWhole == TypeInv /\ Whole /\ [Next]_vars => Whole'
<1> SUFFICES ASSUME TypeInv, Whole, [Next]_vars PROVE Whole'
  OBVIOUS
<1> SUFFICES ASSUME NEW id \in Ids, Stored(id)', id \notin cut',
                    NEW n \in 1 .. Batches
             PROVE  Coming(id, n)'
  BY DEF Whole
<1>0. /\ TypeOK /\ Shape /\ ingest \in [Agents -> Starts]
      /\ main \in [Ids -> [version : 0 .. Versions, owner : Owners]]
  BY DEF TypeInv, TypeOK, Starts
<1>k. Stored(id) /\ id \notin cut => Coming(id, n)
  BY DEF Whole
\* An agent that is not storing is not behind.
<1>1. ASSUME NEW a \in Agents, Boot(a) PROVE Coming(id, n)'
  <2>1. /\ scope' = scope /\ chunks' = chunks /\ main' = main /\ cut' = cut
        /\ Others(a) /\ ~Behind(a, id, n)
    BY <1>0, <1>1, BootStep DEF Boot, Behind, Working, At
  <2> QED
    BY <1>k, <2>1, StillComing DEF Stored
<1>2. ASSUME NEW a \in Agents, Find(a) PROVE Coming(id, n)'
  <2>1. /\ scope' = scope /\ chunks' = chunks /\ main' = main /\ cut' = cut
        /\ ~Behind(a, id, n)
    BY <1>0, <1>2 DEF Find, Behind, At
  <2>2. Others(a)
    BY <1>0, <1>2, FindStep, ThrowsStep
  <2> QED
    BY <1>k, <2>1, <2>2, StillComing DEF Stored
<1>3. ASSUME NEW a \in Agents, ReadFile(a) PROVE Coming(id, n)'
  <2>1. /\ scope' = scope /\ chunks' = chunks /\ main' = main /\ cut' = cut
        /\ ~Behind(a, id, n) /\ disk \in 0 .. Versions
    BY <1>0, <1>3 DEF ReadFile, Behind, At, TypeOK
  <2>2. Others(a)
    BY <1>0, <1>3, <2>1, ReadStep
  <2> QED
    BY <1>k, <2>1, <2>2, StillComing DEF Stored
<1>r. ASSUME NEW a \in Agents, NEW old \in Ids, ~Behind(a, id, n), Others(a),
             scope' = scope, RemoveRows(old), Forget(a, old)
      PROVE  Coming(id, n)'
  <2>1. main'[old].version = 0
    BY <1>0, <1>r DEF RemoveRows, Missing
  <2>2. id # old
    BY <2>1 DEF Stored
  <2>3. main'[id] = main[id] /\ id \notin cut
    BY <1>0, <1>r, <2>2 DEF RemoveRows, Forget
  <2>4. SameChunk(id, n)' = SameChunk(id, n)
    BY <1>r, <2>2 DEF RemoveRows, Keep, SameChunk
  <2>5. \A b \in Agents : Behind(b, id, n) => Behind(b, id, n)'
    BY <1>r DEF Behind, Others, Id
  <2> QED
    BY <1>k, <2>3, <2>4, <2>5 DEF Coming, Stored
<1>4. ASSUME NEW a \in Agents, Remove(a) PROVE Coming(id, n)'
  <2>1. ~Behind(a, id, n) /\ scope' = scope /\ "remove chunks" \in Places
    BY <1>4 DEF Remove, Behind, At, Places
  <2>2. Others(a)
    BY <1>0, <1>4, <2>1, GoStep, ThrowsStep DEF Remove
  <2>3. CASE UNCHANGED <<main, chunks, cut>>
    BY <1>k, <2>1, <2>2, <2>3, StillComing DEF Stored
  <2>4. CASE RemoveRows(Id(a)) /\ Forget(a, Id(a))
    BY <1>0, <1>r, <2>1, <2>2, <2>4, TypeFacts
  <2> QED
    BY <1>4, <2>3, <2>4 DEF Remove
<1>5. ASSUME NEW a \in Agents, RemoveChunks(a) PROVE Coming(id, n)'
  <2>1. scope' = scope /\ main' = main /\ At(a, "remove chunks") /\ "main" \in Places
    BY <1>5 DEF RemoveChunks, Places
  <2>2. Others(a)
    BY <1>0, <1>5, <2>1, GoStep, ThrowsStep DEF RemoveChunks
  <2>3. CASE Id(a) = id
    <3>1. ingest'[a].at = "main"
      BY <1>0, <1>5, <2>1, <2>3, GoStep DEF RemoveChunks
    <3> QED
      BY <2>1, <2>3, <3>1 DEF Coming, Behind, Id
  <2>4. CASE Id(a) # id
    <3>1. id \notin cut
      BY <1>5 DEF RemoveChunks
    <3>2. SameChunk(id, n)' = SameChunk(id, n)
      BY <1>5, <2>4 DEF RemoveChunks, Keep, SameChunk
    <3>3. \A b \in Agents : Behind(b, id, n) => Behind(b, id, n)'
      BY <2>1, <2>2, <2>4 DEF Behind, Others, Id
    <3> QED
      BY <1>k, <2>1, <3>1, <3>2, <3>3 DEF Coming, Stored
  <2> QED
    BY <2>3, <2>4
<1>6. ASSUME NEW a \in Agents, InsertMain(a) PROVE Coming(id, n)'
  <2>1. /\ scope' = scope /\ chunks' = chunks /\ At(a, "main")
        /\ ingest[a].batch = 1 /\ "chunks" \in Places
    BY <1>0, <1>6 DEF InsertMain, Places, Shape, At
  <2>2. Others(a)
    BY <1>0, <1>6, <2>1, GoStep, ThrowsStep, InsertMainType
  <2>3. CASE Id(a) = id
    <3>1. Go(a, "chunks")
      BY <1>6, <2>3 DEF InsertMain
    <3>2. ingest'[a].at = "chunks" /\ ingest'[a].batch = 1
      BY <1>0, <2>1, <3>1, GoStep
    <3>3. ingest'[a].batch <= n
      BY <3>2
    <3> QED
      BY <2>1, <2>3, <3>2, <3>3 DEF Coming, Behind, Id
  <2>4. CASE Id(a) # id
    <3>1. main'[id] = main[id] /\ id \notin cut
      BY <1>0, <1>6, <2>4 DEF InsertMain
    <3> QED
      BY <1>k, <2>1, <2>2, <2>4, <3>1, StillComing DEF Stored, Behind
  <2> QED
    BY <2>3, <2>4
<1>7. ASSUME NEW a \in Agents, InsertBatch(a) PROVE Coming(id, n)'
  <2>1. scope' = scope /\ main' = main /\ At(a, "chunks") /\ chunks \subseteq chunks'
    BY <1>7 DEF InsertBatch
  <2>2. Others(a)
    BY <1>0, <1>7, <2>1, BatchStep, ThrowsStep, InsertBatchEffect
  <2>3. id \notin cut
    BY <1>7, InsertBatchEffect
  <2>4. ingest[a].batch \in 1 .. Batches /\ n \in 1 .. Batches
    BY <1>0, TypeFacts
  <2>5. ASSUME Behind(a, id, n), n # ingest[a].batch
        PROVE  Behind(a, id, n)'
    <3>1. Id(a) = id /\ ingest[a].batch <= n
      BY <2>1, <2>5 DEF Behind, At
    <3>2. ingest[a].batch # Batches /\ ingest[a].batch + 1 <= n
      BY <2>4, <2>5, <3>1, KnowledgeAssumption
    <3>3. NextBatch(a)
      BY <1>7, <3>1 DEF InsertBatch
    <3>4. ingest'[a].at = "chunks" /\ ingest'[a].batch = ingest[a].batch + 1
      BY <1>0, <2>1, <3>2, <3>3, BatchStep
    <3> QED
      BY <2>1, <3>1, <3>2, <3>4 DEF Behind, Id
  <2>6. ASSUME Behind(a, id, n), n = ingest[a].batch
        PROVE  SameChunk(id, n)' # {}
    <3>1. Id(a) = id
      BY <2>6 DEF Behind
    <3>2. NewRow(a) \in chunks' \/ Row(a, 1) \in chunks'
              \/ SameChunk(Id(a), ingest[a].batch) # {}
      BY <1>7, <3>1 DEF InsertBatch
    <3> QED
      BY <2>1, <2>6, <3>1, <3>2, NewRowFacts DEF SameChunk
  <2> QED
    BY <1>k, <2>1, <2>2, <2>3, <2>5, <2>6, StillComing DEF Stored
<1>8. ASSUME NEW a \in Agents, List(a) PROVE Coming(id, n)'
  <2>1. /\ scope' = scope /\ chunks' = chunks /\ main' = main /\ cut' = cut
        /\ ~Behind(a, id, n)
    BY <1>8 DEF List, Behind, At
  <2>2. Others(a)
    BY <1>0, <1>8, ListStep
  <2> QED
    BY <1>k, <2>1, <2>2, StillComing DEF Stored
<1>9. ASSUME NEW a \in Agents, EndStart(a) PROVE Coming(id, n)'
  <2>1. /\ scope' = scope /\ chunks' = chunks /\ main' = main /\ cut' = cut
        /\ ~Behind(a, id, n)
    BY <1>9 DEF EndStart, Behind, At
  <2>2. Others(a)
    BY <1>0, <1>9, EndStep
  <2> QED
    BY <1>k, <2>1, <2>2, StillComing DEF Stored
<1>10. ASSUME NEW a \in Agents, NEW old \in Ids, Clean(a, old) PROVE Coming(id, n)'
  <2>1. ~Behind(a, id, n) /\ scope' = scope
    BY <1>10 DEF Clean, Behind, At
  <2>2. Others(a)
    BY <1>0, <1>10, CleanStep
  <2> QED
    BY <1>10, <1>r, <2>1, <2>2 DEF Clean
\* A chunk is taken of a document that is cut by it.
<1>13. ASSUME NEW a \in Agents, NEW row \in listed[a], CleanChunk(a, row)
       PROVE  Coming(id, n)'
  <2>1. /\ main' = main /\ ingest' = ingest /\ scope' = scope
        /\ id # row.id /\ id \notin cut
    BY <1>13 DEF CleanChunk
  <2>2. SameChunk(id, n)' = SameChunk(id, n)
    BY <1>13, <2>1 DEF CleanChunk, Keep, SameChunk
  <2> QED
    BY <1>k, <2>1, <2>2 DEF Coming, Behind, Stored, Id
<1>11. CASE Edit \/ UNCHANGED vars
  <2>1. UNCHANGED <<scope, main, chunks, ingest, cut>>
    BY <1>11 DEF Edit, vars
  <2> QED
    BY <1>k, <2>1 DEF Coming, Behind, SameChunk, Stored, Id
<1>12. CASE Crash
  <2>1. /\ main' = main /\ chunks' = chunks /\ id \notin cut
        /\ id \notin {Id(a) : a \in {b \in Agents :
               ingest[b].at \in {"remove chunks", "main", "chunks"}}}
    BY <1>12 DEF Crash
  <2>2. \A a \in Agents : ~Behind(a, id, n)
    BY <2>1 DEF Behind
  <2> QED
    BY <1>k, <2>1, <2>2 DEF Coming, SameChunk, Stored
<1> QED
  BY <1>1, <1>2, <1>3, <1>4, <1>5, <1>6, <1>7, <1>8, <1>9, <1>10, <1>11, <1>12,
     <1>13 DEF Next

\* A document lacks chunks only while an agent is storing it, or since an error
\* or a restart cut the storing short or a cleanup took chunks from it:
\* processFile stores the document first, and in PostgreSQL
\* cleanupDeletedKnowledgeFiles removes chunks that are not their document's.
THEOREM DocumentsWhole == Spec => []WholeOrCut
<1>1. Whole => WholeOrCut
  BY DEF Whole, WholeOrCut, Coming, Behind, Storing
<1> QED
  BY InitTypeInv, NextTypeInv, InitWhole, NextWhole, <1>1, PTL DEF Spec

-----------------------------------------------------------------------------
(* An undisturbed document has one agent at work on it *)

Sole ==
    \A id \in Ids \ disturbed : \A a, b \in Agents :
        Id(a) = id /\ Id(b) = id /\ Working(a) /\ Working(b) => a = b

\* A step of an agent at work disturbs no more and forgets nothing.
LEMMA StillSole ==
    ASSUME Sole, NEW a \in Agents, Others(a), Working(a), scope' = scope,
           disturbed \subseteq disturbed'
    PROVE  Sole'
<1>1. \A b \in Agents : Working(b)' => Working(b)
  BY DEF Others, Working, At
<1>2. \A b \in Agents : Id(b)' = Id(b)
  BY DEF Id
<1> QED
  BY <1>1, <1>2 DEF Sole

\* A document that an agent has removed is at most that agent's.
LEMMA ForgetSole ==
    ASSUME Sole, NEW a \in Agents, Others(a), Working(a), scope' = scope,
           NEW old \in Ids, Forget(a, old)
    PROVE  Sole'
<1>1. \A b \in Agents : (Working(b)' => Working(b)) /\ Id(b)' = Id(b)
  BY DEF Others, Working, At, Id
<1>2. ASSUME NEW id \in Ids, id \notin disturbed', NEW b \in Agents,
             NEW c \in Agents, Id(b) = id, Id(c) = id, Working(b), Working(c)
      PROVE  b = c
  <2>1. CASE id = old
    <3>1. ~(\E d \in Agents \ {a} : Working(d) /\ Id(d) = old)
      BY <1>2, <2>1 DEF Forget
    <3> QED
      BY <1>2, <2>1, <3>1
  <2>2. CASE id # old
    <3>1. id \notin disturbed
      BY <1>2, <2>2 DEF Forget
    <3> QED
      BY <1>2, <3>1 DEF Sole
  <2> QED
    BY <2>1, <2>2
<1> QED
  BY <1>1, <1>2 DEF Sole

\* Which agent takes a step, and where that leaves it.
LEMMA AgentStep ==
    ASSUME TypeInv, NEW a \in Agents,
           \/ Find(a) \/ ReadFile(a) \/ Remove(a) \/ RemoveChunks(a)
           \/ InsertMain(a) \/ InsertBatch(a) \/ List(a) \/ EndStart(a)
           \/ \E id \in Ids : Clean(a, id)
           \/ \E row \in listed[a] : CleanChunk(a, row)
    PROVE  Others(a) /\ Working(a) /\ scope' = scope
<1>1. Working(a) /\ scope' = scope
  BY DEF Working, At, Find, ReadFile, Remove, RemoveChunks, InsertMain, InsertBatch,
         List, EndStart, Clean, CleanChunk
<1>2. /\ ingest \in [Agents -> Starts] /\ disk \in 0 .. Versions /\ TypeOK
      /\ "remove chunks" \in Places /\ "main" \in Places /\ "chunks" \in Places
  BY DEF TypeInv, TypeOK, Starts, Places
<1>3. CASE Find(a) \/ ReadFile(a) \/ List(a) \/ \E id \in Ids : Clean(a, id)
  BY <1>1, <1>2, <1>3, FindStep, ThrowsStep, ReadStep, ListStep, CleanStep
<1>4. CASE Remove(a) \/ RemoveChunks(a) \/ EndStart(a)
  BY <1>1, <1>2, <1>4, GoStep, ThrowsStep, EndStep DEF Remove, RemoveChunks
<1>5. CASE InsertMain(a)
  BY <1>1, <1>2, <1>5, GoStep, ThrowsStep, InsertMainType
<1>6. CASE InsertBatch(a)
  BY <1>1, <1>2, <1>6, BatchStep, ThrowsStep, InsertBatchEffect
<1>7. CASE \E row \in listed[a] : CleanChunk(a, row)
  BY <1>1, <1>7 DEF CleanChunk, Others
<1> QED
  BY <1>1, <1>3, <1>4, <1>5, <1>6, <1>7

LEMMA InitSole == Init => Sole
BY DownType DEF Init, Sole, Working, At

LEMMA NextSole == TypeInv /\ Sole /\ [Next]_vars => Sole'
<1> SUFFICES ASSUME TypeInv, Sole, [Next]_vars PROVE Sole'
  OBVIOUS
<1>0. ingest \in [Agents -> Starts]
  BY DEF TypeInv, TypeOK, Starts
<1>1. ASSUME NEW a \in Agents, Boot(a) PROVE Sole'
  <2>1. Others(a) /\ ~Working(a) /\ scope' = scope
    BY <1>0, <1>1, BootStep DEF Boot
  <2>2. \A b \in Agents : (b # a => (Working(b)' <=> Working(b))) /\ Id(b)' = Id(b)
    BY <2>1 DEF Others, Working, At, Id
  <2>3. ASSUME NEW id \in Ids, id \notin disturbed', NEW b \in Agents,
               NEW c \in Agents, Id(b) = id, Id(c) = id, Working(b)', Working(c)'
        PROVE  b = c
    <3>1. id \notin disturbed
      BY <1>1, <2>3 DEF Boot
    <3>2. CASE Id(a) = id
      <4>1. \A d \in Agents : ~(Working(d) /\ Id(d) = id)
        BY <1>1, <2>3, <3>2 DEF Boot
      <4> QED
        BY <2>2, <2>3, <4>1
    <3>3. CASE Id(a) # id
      BY <2>2, <2>3, <3>1, <3>3 DEF Sole
    <3> QED
      BY <3>2, <3>3
  <2> QED
    BY <2>2, <2>3 DEF Sole
<1>2. ASSUME NEW a \in Agents,
             \/ Find(a) \/ ReadFile(a) \/ RemoveChunks(a) \/ InsertMain(a)
             \/ InsertBatch(a) \/ List(a) \/ EndStart(a)
             \/ \E row \in listed[a] : CleanChunk(a, row)
      PROVE  Sole'
  <2>1. disturbed \subseteq disturbed'
    BY <1>2, InsertBatchEffect DEF Find, ReadFile, RemoveChunks, InsertMain, List,
       EndStart, CleanChunk
  <2> QED
    BY <1>2, <2>1, AgentStep, StillSole
<1>3. ASSUME NEW a \in Agents, Remove(a) PROVE Sole'
  <2>1. Others(a) /\ Working(a) /\ scope' = scope /\ Id(a) \in Ids
    BY <1>3, AgentStep, TypeFacts DEF TypeInv
  <2>2. Forget(a, Id(a)) \/ disturbed' = disturbed
    BY <1>3 DEF Remove
  <2> QED
    BY <2>1, <2>2, StillSole, ForgetSole
<1>4. ASSUME NEW a \in Agents, NEW id \in Ids, Clean(a, id) PROVE Sole'
  <2>1. Others(a) /\ Working(a) /\ scope' = scope
    BY <1>4, AgentStep
  <2>2. Forget(a, id) \/ disturbed' = disturbed
    BY <1>4 DEF Clean
  <2> QED
    BY <2>1, <2>2, StillSole, ForgetSole
<1>5. CASE Edit \/ UNCHANGED vars
  BY <1>5 DEF Edit, vars, Sole, Working, At, Id
<1>6. CASE Crash
  BY <1>6, CrashStep DEF Sole, Working, At
<1> QED
  BY <1>1, <1>2, <1>3, <1>4, <1>5, <1>6 DEF Next

-----------------------------------------------------------------------------
(* What the agent at work on an undisturbed document knows of it *)

Rows(id) == {row \in chunks : row.id = id}

Right(a, id) ==
    /\ At(a, "read") => ingest[a].seen = main[id].version
    /\ At(a, "remove chunks") \/ At(a, "main") => ~Stored(id)
    /\ At(a, "chunks") =>
          /\ main[id] = [version |-> ingest[a].read, owner |-> Owner(a)]
          /\ \A row \in Rows(id) : row.batch < ingest[a].batch

\* Its rows are copies of the document's content, and its agents can see it.
Pure(id) ==
    /\ \A row \in Rows(id) :
          Stored(id) /\ row.version = main[id].version /\ row.copy = 1
    /\ Stored(id) => \A a \in Agents : Id(a) = id => main[id].owner = Owner(a)

Apart(id) == id \notin disturbed /\ ~Collides(id)

Content ==
    \A id \in Ids :
        Apart(id) => Pure(id) /\ \A a \in Agents : Id(a) = id => Right(a, id)

Steady(id) == main'[id] = main[id] /\ Rows(id)' = Rows(id) /\ scope' = scope

LEMMA SteadyKeeps ==
    ASSUME NEW id \in Ids, Steady(id)
    PROVE  /\ Pure(id) => Pure(id)'
           /\ Collides(id)' <=> Collides(id)
           /\ \A a \in Agents : Id(a)' = Id(a) /\ Owner(a)' = Owner(a)
           /\ \A a \in Agents :
                  ingest'[a] = ingest[a] /\ Right(a, id) => Right(a, id)'
<1>1. \A a \in Agents : Id(a)' = Id(a) /\ Owner(a)' = Owner(a)
  BY DEF Steady, Id, Owner
<1>2. Stored(id)' = Stored(id) /\ (Collides(id)' <=> Collides(id))
  BY DEF Steady, Stored, Collides
<1>3. Pure(id) => Pure(id)'
  BY <1>1, <1>2 DEF Steady, Pure
<1>4. \A a \in Agents : ingest'[a] = ingest[a] /\ Right(a, id) => Right(a, id)'
  BY <1>1, <1>2 DEF Steady, Right, At
<1> QED
  BY <1>1, <1>2, <1>3, <1>4

\* A step of one agent that leaves the document as it is.
LEMMA SteadyStep ==
    ASSUME Content, NEW id \in Ids, Apart(id)', Steady(id), id \in disturbed =>
           id \in disturbed', NEW a \in Agents, Others(a),
           Id(a) = id /\ Right(a, id) => Right(a, id)'
    PROVE  Pure(id)' /\ \A b \in Agents : Id(b)' = id => Right(b, id)'
<1>1. Apart(id)
  BY SteadyKeeps DEF Apart
<1>2. Pure(id) /\ \A b \in Agents : Id(b) = id => Right(b, id)
  BY <1>1 DEF Content
<1>3. \A b \in Agents : Id(b)' = Id(b)
  BY SteadyKeeps
<1> QED
  BY <1>2, <1>3, SteadyKeeps DEF Others

\* A step of the agent at work: the others with the document are idle.
LEMMA WorkStep ==
    ASSUME Content, Sole, NEW id \in Ids, Apart(id), scope' = scope,
           NEW a \in Agents, Others(a), Working(a), Id(a) = id, Right(a, id)', Pure(id)'
    PROVE  Pure(id)' /\ \A b \in Agents : Id(b)' = id => Right(b, id)'
<1>1. ASSUME NEW b \in Agents, b # a, Id(b) = id PROVE Right(b, id)'
  <2>1. ~Working(b)
    BY <1>1 DEF Sole, Apart
  <2> QED
    BY <1>1, <2>1 DEF Right, At, Working, Others
<1>2. \A b \in Agents : Id(b)' = Id(b)
  BY DEF Id
<1> QED
  BY <1>1, <1>2

\* A document that has just been removed, with what was wrong with it.
LEMMA RemovedStep ==
    ASSUME TypeInv, NEW a \in Agents, Others(a), Working(a), scope' = scope,
           NEW id \in Ids, RemoveRows(id), Forget(a, id), Apart(id)',
           Id(a) = id => ~At(a, "read")' /\ ~At(a, "chunks")'
    PROVE  Pure(id)' /\ \A b \in Agents : Id(b)' = id => Right(b, id)'
<1>1. ~Stored(id)' /\ Rows(id)' = {}
  BY DEF RemoveRows, Keep, Stored, Missing, TypeInv, TypeOK, Rows
<1>2. ASSUME NEW b \in Agents, Id(b) = id PROVE Right(b, id)'
  <2>1. CASE b = a
    BY <1>1, <1>2, <2>1 DEF Right
  <2>2. CASE b # a
    <3>1. ~Working(b)
      BY <1>2, <2>2 DEF Apart, Forget
    <3> QED
      BY <2>2, <3>1 DEF Right, Working, At, Others
  <2> QED
    BY <2>1, <2>2
<1>3. \A b \in Agents : Id(b)' = Id(b)
  BY DEF Id
<1> QED
  BY <1>1, <1>2, <1>3 DEF Pure

LEMMA OwnersAgree ==
    ASSUME TypeOK, NEW a \in Agents, NEW b \in Agents, Id(a) = Id(b),
           ~Collides(Id(a))
    PROVE  Owner(a) = Owner(b)
BY DEF TypeOK, Ids, Id, Owner, Collides

LEMMA FindContent ==
    ASSUME TypeInv, NEW a \in Agents, Find(a), Pure(Id(a))
    PROVE  Right(a, Id(a))'
<1>0. TypeOK /\ ingest \in [Agents -> Starts]
  BY DEF TypeInv, TypeOK, Starts
<1>1. main' = main /\ scope' = scope /\ Id(a)' = Id(a)
  BY DEF Find, Id
<1>2. CASE Throws(a)
  <2>1. ingest'[a].at = "list"
    BY <1>0, <1>2, ThrowsStep
  <2> QED
    BY <2>1 DEF Right, At
<1>3. CASE ~Throws(a)
  <2>1. /\ ingest'[a].at = "read"
        /\ ingest'[a].seen = IF Visible(a, main[Id(a)].owner)
                             THEN main[Id(a)].version ELSE 0
    BY <1>0, <1>3, FindStep
  <2>2. Stored(Id(a)) => Visible(a, main[Id(a)].owner)
    BY DEF Pure, Visible, Owner
  <2>3. ingest'[a].seen = main[Id(a)].version
    BY <2>1, <2>2 DEF Stored
  <2>4. ingest'[a].seen = main'[Id(a)].version
    BY <1>1, <2>3
  <2> QED
    BY <1>1, <2>1, <2>4 DEF Right, At
<1> QED
  BY <1>2, <1>3

LEMMA ReadContent ==
    ASSUME TypeInv, NEW a \in Agents, ReadFile(a), Right(a, Id(a))
    PROVE  Right(a, Id(a))'
<1>0. ingest \in [Agents -> Starts] /\ disk \in 0 .. Versions
  BY DEF TypeInv, TypeOK, Starts
<1>1. main' = main /\ Id(a)' = Id(a) /\ ingest[a].seen = main[Id(a)].version
  BY DEF ReadFile, Id, Right
<1>2. ingest'[a].at \in {"list", "remove", "main"}
  BY <1>0, ReadStep
<1>3. ASSUME ingest'[a].at = "main" PROVE ~Stored(Id(a))'
  <2>1. ingest[a].seen = 0
    BY <1>0, <1>3, ReadStep
  <2> QED
    BY <1>1, <2>1 DEF Stored
<1> QED
  BY <1>1, <1>2, <1>3 DEF Right, At

LEMMA MainContent ==
    ASSUME TypeInv, NEW a \in Agents, InsertMain(a), Apart(Id(a)), Apart(Id(a))',
           Pure(Id(a)), Right(a, Id(a))
    PROVE  Pure(Id(a))' /\ Right(a, Id(a))'
<1> DEFINE id == Id(a)
<1>0. /\ TypeOK /\ ingest \in [Agents -> Starts] /\ id \in Ids
      /\ main \in [Ids -> [version : 0 .. Versions, owner : Owners]]
      /\ "chunks" \in Places
  BY TypeFacts DEF TypeInv, TypeOK, Starts, Places
<1>1. /\ ~Stored(id) /\ Rows(id) = {} /\ chunks' = chunks /\ scope' = scope
      /\ id' = id
  BY DEF InsertMain, Right, Pure, Id
<1>2. Rows(id)' = {}
  BY <1>1 DEF Rows
<1>3. CASE /\ main' = [main EXCEPT ![id] =
                         [version |-> ingest[a].read, owner |-> Owner(a)]]
           /\ Go(a, "chunks")
  <2>1. main'[id] = [version |-> ingest[a].read, owner |-> Owner(a)]
    BY <1>0, <1>3
  <2>2. ingest'[a].at = "chunks" /\ ingest'[a].read = ingest[a].read
    BY <1>0, <1>3, GoStep
  <2>3. \A b \in Agents : Id(b) = id => Owner(b) = Owner(a)
    BY <1>0, OwnersAgree DEF Apart
  <2>4. \A b \in Agents : Id(b)' = Id(b) /\ Owner(b)' = Owner(b)
    BY <1>1 DEF Id, Owner
  <2>5. Pure(id)'
    BY <1>1, <1>2, <2>1, <2>3, <2>4 DEF Pure
  <2>6. Right(a, id)'
    BY <1>1, <1>2, <2>1, <2>2, <2>4 DEF Right, At
  <2> QED
    BY <2>5, <2>6
<1>4. CASE Throws(a) /\ main' = main
  <2>1. ingest'[a].at = "list"
    BY <1>0, <1>4, ThrowsStep
  <2>2. Right(a, id)'
    BY <2>1 DEF Right, At
  <2>3. Pure(id)'
    BY <1>1, <1>2, <1>4 DEF Pure, Stored
  <2> QED
    BY <2>2, <2>3
<1>5. disturbed' # disturbed \union {id}
  BY <1>1 DEF Apart
<1> QED
  BY <1>1, <1>3, <1>4, <1>5 DEF InsertMain

LEMMA BatchContent ==
    ASSUME TypeInv, NEW a \in Agents, InsertBatch(a), Apart(Id(a)), Apart(Id(a))',
           Pure(Id(a)), Right(a, Id(a))
    PROVE  Pure(Id(a))' /\ Right(a, Id(a))'
<1> DEFINE id == Id(a)
           mine == [version |-> ingest[a].read, owner |-> Owner(a)]
<1>0. /\ TypeOK /\ ingest \in [Agents -> Starts] /\ ingest[a].batch \in 1 .. Batches
      /\ At(a, "chunks") /\ ingest[a].read # 0 /\ main' = main /\ scope' = scope
      /\ id' = id
  BY TypeFacts DEF TypeInv, TypeOK, Shape, Starts, InsertBatch, At, Id
<1>1. main[id] = mine /\ \A row \in Rows(id) : row.batch < ingest[a].batch
  BY <1>0 DEF Right
<1>2. Stored(id) /\ Stored(id)' /\ main'[id] = mine
  BY <1>0, <1>1 DEF Stored
<1>3. Row(a, 1) \notin chunks
  <2>1. ~(ingest[a].batch < ingest[a].batch)
    BY <1>0
  <2> QED
    BY <1>1, <2>1, NewRowFacts DEF Rows
<1>4. NewRow(a) = Row(a, 1)
  BY <1>3 DEF NewRow
<1>5. chunks' = chunks \/ chunks' = chunks \union {Row(a, 1)}
  <2>1. disturbed' # disturbed \union {id}
    BY <1>0 DEF Apart
  <2> QED
    BY <1>4, <2>1 DEF InsertBatch
<1>6. \A row \in Rows(id)' : row \in Rows(id) \/ row = Row(a, 1)
  BY <1>0, <1>5 DEF Rows
<1>7. Row(a, 1).version = ingest[a].read /\ Row(a, 1).copy = 1
      /\ Row(a, 1).batch = ingest[a].batch
  BY DEF Row
<1>8. \A b \in Agents : Id(b)' = Id(b) /\ Owner(b)' = Owner(b)
  BY <1>0 DEF Id, Owner
<1>9. Pure(id)'
  <2>1. \A row \in Rows(id)' : row.version = main'[id].version /\ row.copy = 1
    BY <1>0, <1>2, <1>6, <1>7 DEF Pure
  <2>2. \A b \in Agents : Id(b) = id => main'[id].owner = Owner(b)
    BY <1>0, <1>2 DEF Pure
  <2> QED
    BY <1>0, <1>2, <1>8, <2>1, <2>2 DEF Pure
<1>10. CASE Throws(a)
  <2>1. ingest'[a].at = "list"
    BY <1>0, <1>10, ThrowsStep
  <2> QED
    BY <1>9, <2>1 DEF Right, At
<1>11. CASE NextBatch(a)
  <2>1. /\ ingest'[a].read = ingest[a].read
        /\ IF ingest[a].batch = Batches THEN ingest'[a].at = "list"
           ELSE /\ ingest'[a].at = "chunks"
                /\ ingest'[a].batch = ingest[a].batch + 1
    BY <1>0, <1>11, BatchStep
  <2>2. CASE ingest'[a].at = "list"
    BY <1>9, <2>2 DEF Right, At
  <2>3. CASE ingest'[a].at = "chunks" /\ ingest'[a].batch = ingest[a].batch + 1
    <3>1. \A row \in Rows(id)' : row.batch < ingest[a].batch + 1
      <4>1. ASSUME NEW row \in Rows(id)' PROVE row.batch < ingest[a].batch + 1
        <5>1. CASE row = Row(a, 1)
          BY <1>0, <1>7, <5>1
        <5>2. CASE row \in Rows(id)
          <6>1. row.batch < ingest[a].batch /\ row.batch \in 1 .. Batches
            BY <1>0, <1>1, <5>2 DEF Rows, TypeOK, ChunkRows
          <6> QED
            BY <1>0, <6>1
        <5> QED
          BY <1>6, <4>1, <5>1, <5>2
      <4> QED
        BY <4>1
    <3>2. main'[id] = [version |-> ingest'[a].read, owner |-> Owner(a)]
      BY <1>2, <2>1
    <3> QED
      BY <1>0, <1>8, <1>9, <2>3, <3>1, <3>2 DEF Right, At
  <2> QED
    BY <2>1, <2>2, <2>3
<1> QED
  BY <1>10, <1>11, InsertBatchEffect

LEMMA InitContent == Init => Content
<1> SUFFICES ASSUME Init PROVE Content
  OBVIOUS
<1>1. \A id \in Ids : ~Stored(id) /\ Rows(id) = {}
  BY DEF Init, Stored, Missing, Rows
<1>2. \A a \in Agents : ingest[a].at = "down"
  BY DownType DEF Init
<1> QED
  BY <1>1, <1>2 DEF Content, Pure, Right, At

KnowInv == TypeInv /\ Sole /\ Content

LEMMA NextContent == KnowInv /\ [Next]_vars => Content'
<1> SUFFICES ASSUME KnowInv, [Next]_vars, NEW id \in Ids, Apart(id)'
             PROVE  Pure(id)' /\ \A b \in Agents : Id(b)' = id => Right(b, id)'
  BY DEF Content
<1> DEFINE Goal == Pure(id)' /\ \A b \in Agents : Id(b)' = id => Right(b, id)'
<1>0. /\ TypeInv /\ TypeOK /\ Sole /\ Content /\ ingest \in [Agents -> Starts]
      /\ main \in [Ids -> [version : 0 .. Versions, owner : Owners]]
  BY DEF KnowInv, TypeInv, TypeOK, Starts
<1>k. Apart(id) => Pure(id) /\ \A b \in Agents : Id(b) = id => Right(b, id)
  BY <1>0 DEF Content
<1>c. scope' = scope => (Collides(id)' <=> Collides(id))
  BY DEF Collides
<1>1. ASSUME NEW a \in Agents, Boot(a) PROVE Goal
  <2>1. Steady(id) /\ (id \in disturbed => id \in disturbed')
    BY <1>1 DEF Boot, Steady, Rows
  <2>2. Others(a) /\ ingest'[a].at = "find"
    BY <1>0, <1>1, BootStep
  <2> QED
    BY <1>0, <2>1, <2>2, SteadyStep DEF Right, At
<1>2. ASSUME NEW a \in Agents, Find(a) PROVE Goal
  <2>1. Steady(id) /\ disturbed' = disturbed /\ Others(a)
    BY <1>0, <1>2, AgentStep DEF Find, Steady, Rows
  <2>2. Apart(id)
    BY <1>c, <2>1 DEF Apart, Steady
  <2>3. Id(a) = id => Right(a, id)'
    <3>1. Id(a)' = Id(a)
      BY <2>1, SteadyKeeps
    <3> QED
      BY <1>0, <1>2, <1>k, <2>2, <3>1, FindContent
  <2> QED
    BY <1>0, <2>1, <2>3, SteadyStep
<1>3. ASSUME NEW a \in Agents, ReadFile(a) PROVE Goal
  <2>1. Steady(id) /\ disturbed' = disturbed /\ Others(a)
    BY <1>0, <1>3, AgentStep DEF ReadFile, Steady, Rows
  <2>2. Id(a) = id /\ Right(a, id) => Right(a, id)'
    <3>1. Id(a)' = Id(a)
      BY <2>1, SteadyKeeps
    <3> QED
      BY <1>0, <1>3, <3>1, ReadContent
  <2> QED
    BY <1>0, <2>1, <2>2, SteadyStep
<1>4. ASSUME NEW a \in Agents, Remove(a) PROVE Goal
  <2>1. /\ Others(a) /\ Working(a) /\ scope' = scope /\ Id(a) \in Ids
        /\ At(a, "remove") /\ "remove chunks" \in Places
    BY <1>0, <1>4, AgentStep, TypeFacts DEF Remove, Places
  <2>2. CASE Throws(a) /\ UNCHANGED <<main, chunks, listed, cut, disturbed>>
    <3>1. ingest'[a].at = "list"
      BY <1>0, <2>2, ThrowsStep
    <3>2. Steady(id) /\ Right(a, id)'
      BY <2>1, <2>2, <3>1 DEF Steady, Rows, Right, At
    <3> QED
      BY <1>0, <2>1, <2>2, <3>2, SteadyStep
  <2>3. CASE RemoveRows(Id(a)) /\ Forget(a, Id(a)) /\ Go(a, "remove chunks")
    <3>1. ingest'[a].at = "remove chunks"
      BY <1>0, <2>1, <2>3, GoStep
    <3>2. CASE Id(a) = id
      BY <1>0, <2>1, <2>3, <3>1, <3>2, RemovedStep DEF At
    <3>3. CASE Id(a) # id
      <4>1. Steady(id) /\ (id \in disturbed => id \in disturbed')
        BY <1>0, <2>1, <2>3, <3>3 DEF Steady, Rows, RemoveRows, Keep, Forget
      <4> QED
        BY <1>0, <2>1, <3>3, <4>1, SteadyStep
    <3> QED
      BY <3>2, <3>3
  <2> QED
    BY <1>4, <2>2, <2>3 DEF Remove
<1>5. ASSUME NEW a \in Agents, RemoveChunks(a) PROVE Goal
  <2>1. /\ Others(a) /\ Working(a) /\ scope' = scope /\ main' = main
        /\ At(a, "remove chunks") /\ "main" \in Places /\ disturbed' = disturbed
    BY <1>0, <1>5, AgentStep DEF RemoveChunks, Places
  <2>2. Apart(id)
    BY <1>c, <2>1 DEF Apart
  <2>3. CASE Id(a) # id
    <3>1. Steady(id)
      BY <1>5, <2>1, <2>3 DEF Steady, Rows, RemoveChunks, Keep
    <3> QED
      BY <1>0, <2>1, <2>3, <3>1, SteadyStep
  <2>4. CASE Id(a) = id
    <3>1. ~Stored(id) /\ Rows(id) = {}
      BY <1>k, <2>1, <2>2, <2>4 DEF Right, Pure
    <3>2. Rows(id)' = {} /\ ~Stored(id)'
      BY <1>5, <2>1, <2>4, <3>1 DEF Rows, RemoveChunks, Keep, Stored
    <3>3. ingest'[a].at \in {"main", "list"}
      BY <1>0, <1>5, <2>1, GoStep, ThrowsStep DEF RemoveChunks
    <3>4. Pure(id)' /\ Right(a, id)'
      BY <3>2, <3>3 DEF Pure, Right, At
    <3> QED
      BY <1>0, <2>1, <2>2, <2>4, <3>4, WorkStep
  <2> QED
    BY <2>3, <2>4
<1>6. ASSUME NEW a \in Agents, InsertMain(a) PROVE Goal
  <2>1. /\ Others(a) /\ Working(a) /\ scope' = scope /\ chunks' = chunks
        /\ disturbed \subseteq disturbed' /\ Id(a) \in Ids
    BY <1>0, <1>6, AgentStep, TypeFacts DEF InsertMain
  <2>2. Apart(id)
    BY <1>c, <2>1 DEF Apart
  <2>3. CASE Id(a) # id
    <3>1. main'[id] = main[id]
      BY <1>0, <1>6, <2>3 DEF InsertMain
    <3>2. Steady(id)
      BY <2>1, <3>1 DEF Steady, Rows
    <3> QED
      BY <1>0, <2>1, <2>3, <3>2, SteadyStep
  <2>4. CASE Id(a) = id
    <3>1. Pure(id)' /\ Right(a, id)'
      <4>1. Apart(Id(a)) /\ Pure(Id(a)) /\ Right(a, Id(a)) /\ Id(a)' = Id(a)
        BY <1>k, <2>1, <2>2, <2>4 DEF Id
      <4>2. Apart(Id(a))'
        BY <2>1, <2>4 DEF Apart, Collides, Id
      <4>3. Pure(Id(a))' /\ Right(a, Id(a))'
        BY <1>0, <1>6, <4>1, <4>2, MainContent
      <4> QED
        BY <2>1, <2>4, <4>1, <4>3
    <3> QED
      BY <1>0, <2>1, <2>2, <2>4, <3>1, WorkStep
  <2> QED
    BY <2>3, <2>4
<1>7. ASSUME NEW a \in Agents, InsertBatch(a) PROVE Goal
  <2>1. /\ Others(a) /\ Working(a) /\ scope' = scope /\ main' = main
        /\ disturbed \subseteq disturbed' /\ Id(a) \in Ids
    BY <1>0, <1>7, AgentStep, TypeFacts, InsertBatchEffect
  <2>2. Apart(id)
    BY <1>c, <2>1 DEF Apart
  <2>3. CASE Id(a) # id
    <3>1. /\ Row(a, 1).id # id /\ Row(a, 2).id # id /\ NewRow(a).id # id
      BY <2>3 DEF Row, NewRow
    <3>2. Steady(id)
      BY <1>7, <2>1, <3>1, InsertBatchEffect DEF Steady, Rows
    <3> QED
      BY <1>0, <2>1, <2>3, <3>2, SteadyStep
  <2>4. CASE Id(a) = id
    <3>1. Apart(Id(a)) /\ Pure(Id(a)) /\ Right(a, Id(a)) /\ Id(a)' = Id(a)
      BY <1>k, <2>1, <2>2, <2>4 DEF Id
    <3>2. Apart(Id(a))'
      BY <2>1, <2>4 DEF Apart, Collides, Id
    <3>3. Pure(Id(a))' /\ Right(a, Id(a))'
      BY <1>0, <1>7, <3>1, <3>2, BatchContent
    <3> QED
      BY <1>0, <2>1, <2>2, <2>4, <3>1, <3>3, WorkStep
  <2> QED
    BY <2>3, <2>4
<1>8. ASSUME NEW a \in Agents, List(a) PROVE Goal
  <2>1. Steady(id) /\ disturbed' = disturbed /\ Others(a)
    BY <1>0, <1>8, AgentStep DEF List, Steady, Rows
  <2>2. ingest'[a].at \in {"clean", "down"}
    BY <1>0, <1>8, ListStep
  <2> QED
    BY <1>0, <2>1, <2>2, SteadyStep DEF Right, At
<1>9. ASSUME NEW a \in Agents, EndStart(a) PROVE Goal
  <2>1. Steady(id) /\ disturbed' = disturbed /\ Others(a)
    BY <1>0, <1>9, AgentStep DEF EndStart, Steady, Rows
  <2>2. ingest'[a].at = "down"
    BY <1>0, <1>9, EndStep
  <2> QED
    BY <1>0, <2>1, <2>2, SteadyStep DEF Right, At
<1>10. ASSUME NEW a \in Agents, NEW old \in Ids, Clean(a, old) PROVE Goal
  <2>1. /\ Others(a) /\ Working(a) /\ scope' = scope
        /\ ingest'[a].at = "clean"
    BY <1>0, <1>10, AgentStep, CleanStep
  <2>2. Right(a, id)'
    BY <2>1 DEF Right, At
  <2>4. CASE RemoveRows(old) /\ Forget(a, old) /\ old = id
    BY <1>0, <2>1, <2>4, RemovedStep DEF At
  <2>5. CASE RemoveRows(old) /\ Forget(a, old) /\ old # id
    <3>1. Steady(id) /\ (id \in disturbed => id \in disturbed')
      BY <1>0, <2>1, <2>5 DEF Steady, Rows, RemoveRows, Keep, Forget
    <3> QED
      BY <1>0, <2>1, <2>2, <3>1, SteadyStep
  <2> QED
    BY <1>10, <2>4, <2>5 DEF Clean
<1>11. ASSUME Edit \/ UNCHANGED vars PROVE Goal
  <2>1. Steady(id) /\ disturbed' = disturbed /\ ingest' = ingest
    BY <1>11 DEF Edit, vars, Steady, Rows
  <2>2. Apart(id)
    BY <1>c, <2>1 DEF Apart, Steady
  <2> QED
    BY <1>k, <2>1, <2>2, SteadyKeeps
<1>12. ASSUME Crash PROVE Goal
  <2>1. Steady(id) /\ disturbed' = disturbed
    BY <1>12 DEF Crash, Steady, Rows
  <2>2. Apart(id)
    BY <1>c, <2>1 DEF Apart, Steady
  <2>3. \A b \in Agents : Right(b, id)'
    BY <1>12, CrashStep DEF Right, At
  <2> QED
    BY <1>k, <2>1, <2>2, <2>3, SteadyKeeps
\* What is left of the rows is of the same content as before.
<1>13. ASSUME NEW a \in Agents, NEW row \in listed[a], CleanChunk(a, row)
       PROVE  Goal
  <2>1. /\ main' = main /\ ingest' = ingest /\ scope' = scope
        /\ disturbed' = disturbed /\ Rows(id)' \subseteq Rows(id)
    BY <1>13 DEF CleanChunk, Keep, Rows
  <2>2. Apart(id)
    BY <1>c, <2>1 DEF Apart
  <2>3. Pure(id)'
    BY <1>k, <2>1, <2>2 DEF Pure, Stored, Id, Owner
  <2>4. \A b \in Agents : Id(b)' = id => Right(b, id)'
    BY <1>k, <2>1, <2>2 DEF Right, At, Stored, Id, Owner
  <2> QED
    BY <2>3, <2>4
<1> QED
  BY <1>1, <1>2, <1>3, <1>4, <1>5, <1>6, <1>7, <1>8, <1>9, <1>10, <1>11, <1>12,
     <1>13 DEF Next

LEMMA KnowledgeInvariant == Spec => []KnowInv
<1>1. Init => KnowInv
  BY InitTypeInv, InitSole, InitContent DEF KnowInv
<1>2. KnowInv /\ [Next]_vars => KnowInv'
  BY NextTypeInv, NextSole, NextContent DEF KnowInv
<1> QED
  BY <1>1, <1>2, PTL DEF Spec

\* The rows of a document no two agents were at, whose insertions neither failed
\* unnoticed nor were retried, are its content, each once.
THEOREM ChunksOfContent == Spec => []OneContent
<1>1. KnowInv => OneContent
  BY DEF KnowInv, Content, Apart, Pure, Rows, OneContent
<1> QED
  BY KnowledgeInvariant, <1>1, PTL

\* An agent's last batch, or a file it found unchanged, leaves the document with
\* the content that the start has read.
LEMMA ListLoads ==
    ASSUME KnowInv, Next, NEW a \in Agents, ~At(a, "list"), At(a, "list")',
           ~ingest'[a].failed, Apart(Id(a))'
    PROVE  main'[Id(a)] = [version |-> ingest'[a].read, owner |-> Owner(a)]
<1>0. /\ TypeInv /\ TypeOK /\ Content /\ ingest \in [Agents -> Starts]
      /\ disk \in 0 .. Versions /\ Id(a) \in Ids
      /\ main \in [Ids -> [version : 0 .. Versions, owner : Owners]]
  BY TypeFacts DEF KnowInv, TypeInv, TypeOK, Starts
<1>1. /\ "remove chunks" \in Places /\ "main" \in Places /\ "chunks" \in Places
  BY DEF Places
<1>k. scope' = scope /\ Apart(Id(a)) => Pure(Id(a)) /\ Right(a, Id(a))
  BY <1>0 DEF Content
\* Another agent's step does not move it.
<1>2. ASSUME NEW b \in Agents, Others(b) PROVE a = b
  BY <1>2 DEF Others, At
<1>3. ~Crash /\ ~Edit
  <2>1. ~Crash
    BY CrashStep DEF At
  <2> QED
    BY <2>1 DEF Edit, At
<1>4. ASSUME NEW b \in Agents, Boot(b) PROVE FALSE
  <2>1. Others(b) /\ ingest'[b].at = "find"
    BY <1>0, <1>4, BootStep
  <2> QED
    BY <1>2, <2>1 DEF At
<1>5. PICK b \in Agents :
          \/ Find(b) \/ ReadFile(b) \/ Remove(b) \/ RemoveChunks(b)
          \/ InsertMain(b) \/ InsertBatch(b) \/ List(b) \/ EndStart(b)
          \/ \E id \in Ids : Clean(b, id)
          \/ \E row \in listed[b] : CleanChunk(b, row)
  BY <1>3, <1>4 DEF Next
<1>6. a = b /\ scope' = scope
  BY <1>0, <1>2, <1>5, AgentStep
<1>7. ~Throws(a)
  BY <1>0, ThrowsStep
<1>8. ReadFile(a) \/ InsertBatch(a)
  <2>1. ~Find(a)
    BY <1>0, <1>7, FindStep DEF At
  <2>2. ~Remove(a) /\ ~RemoveChunks(a) /\ ~EndStart(a)
    BY <1>0, <1>1, <1>7, GoStep, EndStep DEF At, Remove, RemoveChunks
  <2>3. ~InsertMain(a)
    BY <1>0, <1>1, <1>7, GoStep, InsertMainType DEF At
  <2>4. ~List(a) /\ ~\E id \in Ids : Clean(a, id)
    BY <1>0, ListStep, CleanStep DEF At
  <2>5. ~\E row \in listed[a] : CleanChunk(a, row)
    BY DEF CleanChunk, At
  <2> QED
    BY <1>5, <1>6, <2>1, <2>2, <2>3, <2>4, <2>5
<1>9. main' = main /\ disturbed \subseteq disturbed'
  BY <1>8, InsertBatchEffect DEF ReadFile
<1>10. Apart(Id(a)) /\ Pure(Id(a)) /\ Right(a, Id(a))
  BY <1>6, <1>9, <1>k DEF Apart, Collides, Id
<1>11. CASE ReadFile(a)
  <2>1. ingest'[a].read = disk /\ disk # 0 /\ disk = ingest[a].seen
    BY <1>0, <1>11, ReadStep DEF At
  <2>2. ingest[a].seen = main[Id(a)].version
    BY <1>10, <1>11 DEF ReadFile, Right
  <2>3. Stored(Id(a))
    BY <2>1, <2>2 DEF Stored
  <2>4. main[Id(a)].owner = Owner(a)
    BY <1>10, <2>3 DEF Pure
  <2>5. main[Id(a)] \in [version : 0 .. Versions, owner : Owners]
    BY <1>0
  <2> QED
    BY <1>9, <2>1, <2>2, <2>4, <2>5
<1>12. CASE InsertBatch(a)
  <2>1. NextBatch(a) /\ At(a, "chunks")
    BY <1>7, <1>12, InsertBatchEffect
  <2>2. ingest'[a].read = ingest[a].read
    BY <1>0, <2>1, BatchStep
  <2> QED
    BY <1>9, <1>10, <2>1, <2>2 DEF Right
<1> QED
  BY <1>8, <1>11, <1>12

\* A start without error has the document with the content it read, unless two
\* agents were at it, it collides, or an insertion failed unnoticed.
THEOREM StartsLoad == Spec => StartLoads
<1> DEFINE A == \A a \in Agents :
        ~At(a, "list") /\ At(a, "list")' /\ ~ingest'[a].failed =>
            \/ main'[Id(a)] = [version |-> ingest'[a].read, owner |-> Owner(a)]
            \/ Id(a) \in disturbed'
            \/ Collides(Id(a))
<1>1. ASSUME KnowInv, Next PROVE A
  <2>1. ASSUME NEW a \in Agents, ~At(a, "list"), At(a, "list")', ~ingest'[a].failed,
               Id(a) \notin disturbed', ~Collides(Id(a))
        PROVE  main'[Id(a)] = [version |-> ingest'[a].read, owner |-> Owner(a)]
    <3>1. scope' = scope
      BY <1>1 DEF Next, Boot, Find, ReadFile, Remove, RemoveChunks, InsertMain,
         InsertBatch, List, EndStart, Clean, CleanChunk, Edit, Crash
    <3>2. Apart(Id(a))'
      BY <2>1, <3>1 DEF Apart, Collides, Id
    <3> QED
      BY <1>1, <2>1, <3>2, ListLoads
  <2> QED
    BY <2>1
<1>2. KnowInv /\ [Next]_vars => [A]_vars
  BY <1>1
<1> HIDE DEF A
<1>3. Spec => [][A]_vars
  BY KnowledgeInvariant, <1>2, PTL DEF Spec
<1> QED
  BY <1>3 DEF A, StartLoads
=============================================================================
