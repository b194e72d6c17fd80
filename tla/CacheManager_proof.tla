-------------------------- MODULE CacheManager_proof --------------------------
(* Theorems about the agent's cache, for any number of calls, values, stores  *)
(* and sizes of files.                                                        *)
EXTENDS CacheManager, TLAPS

-----------------------------------------------------------------------------
(* The invariant *)

CallRecord == [at : Places, value : 0 .. MaxSets, read : Seq(Values), pos : Nat,
               linked : BOOLEAN, over : SUBSET Values]

Shape ==
    /\ store \in Stores
    /\ slot \in Seq(Values)
    /\ call \in [Calls -> CallRecord]
    /\ sets \in 0 .. MaxSets
    /\ expired \subseteq 1 .. sets
    /\ ended \subseteq 1 .. sets
    /\ superseded \subseteq ended
    /\ alone \in 0 .. sets
    /\ damaged \in BOOLEAN

Setting(c) == call[c].at \in {"put", "open", "write"}

(* A call of set has a value of its own, which has not ended; what a call      *)
(* supersedes, or must not return, has.                                        *)
CallFits(c) ==
    /\ call[c].value \in 0 .. sets
    /\ call[c].over \subseteq ended
    /\ Setting(c) => call[c].value \in (1 .. sets) \ ended
    /\ call[c].at \in {"idle", "put", "open"} => call[c].pos = 0
    /\ call[c].at = "write" => call[c].pos < Size[call[c].value]
    /\ call[c].at = "put" => store # "file"
    /\ call[c].at \in {"open", "write"} => store = "file"

ValuesDiffer ==
    \A c, d \in Calls :
        Setting(c) /\ Setting(d) /\ c # d => call[c].value # call[d].value

CallsFit == (\A c \in Calls : CallFits(c)) /\ ValuesDiffer

Types == Shape /\ CallsFit

\* None of the chunks is one of the values.
Free(chunks, values) == \A i \in 1 .. Len(chunks) : chunks[i] \notin values
\* All of them are of the value.
All(chunks, v) == \A i \in 1 .. Len(chunks) : chunks[i] = v

(* NeverStale says what a get has read; what it may read is in the store. The  *)
(* store never holds a chunk of a superseded value: a set that succeeds has    *)
(* emptied the file since it started, and from then on only values that had    *)
(* not ended were written to it.                                               *)
CallFresh(c) ==
    /\ call[c].at = "read" => call[c].over \subseteq superseded
    /\ call[c].at = "check" => Free(call[c].read, call[c].over)
    /\ call[c].at = "write" => Free(slot, call[c].over)

FreshInv == Free(slot, superseded) /\ \A c \in Calls : CallFresh(c)

\* The first n chunks of the file of v.
Run(v, n) == [i \in 1 .. n |-> v]
Complete(chunks) == chunks = <<>> \/ IsWhole(chunks)

(* Unless it is damaged, a file has one writer, and holds what that writer has *)
(* written.                                                                    *)
FileInv ==
    /\ store # "file" => Complete(slot)
    /\ ~damaged =>
        /\ \A c, d \in Calls : Writing(c) /\ Writing(d) => c = d
        /\ \A c \in Calls : Writing(c) => slot = Run(call[c].value, call[c].pos)
        /\ (\A c \in Calls : ~Writing(c)) => Complete(slot)

(* The value set alone: its call is the only change in progress, and once the  *)
(* store was opened for it there is nothing else to read, so that only its own *)
(* expiry can make a get sweep it.                                             *)
Past == alone \in ended \/ \E c \in Calls : At(c, "write")

AloneChanges ==
    \A c \in Calls : Changing(c) => Setting(c) /\ call[c].value = alone
AloneRead ==
    /\ All(slot, alone)
    /\ \A c \in Calls : At(c, "check") => All(call[c].read, alone)
    /\ \A c \in Calls : At(c, "sweep") => alone \in expired
AloneStored ==
    /\ \A c \in Calls : At(c, "write") =>
            call[c].linked /\ slot = Run(alone, call[c].pos)
    /\ alone \in ended => slot = Whole(alone)

AloneInv ==
    alone # 0 =>
        /\ AloneChanges
        /\ Past => AloneRead /\ (alone \notin expired => AloneStored)

-----------------------------------------------------------------------------
(* What each step does to the calls *)

\* Only call c moves.
Others(c) == \A d \in Calls \ {c} : call'[d] = call[d]

\* What call c has become.
Becomes(c, at, value, read, pos, linked, over) ==
    /\ call'[c].at = at
    /\ call'[c].value = value
    /\ call'[c].read = read
    /\ call'[c].pos = pos
    /\ call'[c].linked = linked
    /\ call'[c].over = over

\* A call keeps all it had, but perhaps for the name of its file.
SameButName(d) ==
    /\ call'[d].at = call[d].at
    /\ call'[d].value = call[d].value
    /\ call'[d].read = call[d].read
    /\ call'[d].pos = call[d].pos
    /\ call'[d].over = call[d].over

\* Every other call only loses the name of its file.
OthersUnlinked(c) ==
    \A d \in Calls \ {c} : SameButName(d) /\ call'[d].linked = FALSE

LEMMA IdleRecord == Idle \in CallRecord
<1>1. <<>> \in Seq(Values)
  OBVIOUS
<1> QED
  BY <1>1, CacheAssumption DEF Idle, CallRecord, Places

LEMMA MoveEffect ==
    ASSUME Shape, NEW c \in Calls, NEW place \in Places, Move(c, place)
    PROVE  /\ call' \in [Calls -> CallRecord]
           /\ Others(c)
           /\ Becomes(c, place, call[c].value, call[c].read,
                     call[c].pos, call[c].linked, call[c].over)
BY DEF Shape, Move, Others, Becomes, CallRecord

LEMMA ReturnEffect ==
    ASSUME Shape, NEW c \in Calls, Return(c)
    PROVE  call' \in [Calls -> CallRecord] /\ Others(c) /\ call'[c] = Idle
BY IdleRecord DEF Shape, Return, Others

LEMMA UnlinkedEffect ==
    ASSUME Shape, NEW c \in Calls, call' = [CallsUnlinked EXCEPT ![c] = Idle]
    PROVE  call' \in [Calls -> CallRecord] /\ OthersUnlinked(c) /\ call'[c] = Idle
<1>1. \A d \in Calls : CallsUnlinked[d] =
          [at |-> call[d].at, value |-> call[d].value, read |-> call[d].read,
           pos |-> call[d].pos, linked |-> FALSE, over |-> call[d].over]
  BY DEF CallsUnlinked, Shape, CallRecord
<1>2. DOMAIN CallsUnlinked = Calls
  BY DEF CallsUnlinked
<1>3. call' = [d \in Calls |-> IF d = c THEN Idle ELSE CallsUnlinked[d]]
  BY <1>2 DEF CallsUnlinked
<1>4. \A d \in Calls : CallsUnlinked[d] \in CallRecord
  <2> TAKE d \in Calls
  <2>1. /\ call[d].at \in Places /\ call[d].value \in 0 .. MaxSets
        /\ call[d].read \in Seq(Values) /\ call[d].pos \in Nat
        /\ call[d].over \in SUBSET Values
    BY DEF Shape, CallRecord
  <2>2. CallsUnlinked[d] =
          [at |-> call[d].at, value |-> call[d].value, read |-> call[d].read,
           pos |-> call[d].pos, linked |-> FALSE, over |-> call[d].over]
    BY <1>1
  <2> HIDE DEF CallsUnlinked
  <2> QED
    BY <2>1, <2>2 DEF CallRecord
<1>5. call' \in [Calls -> CallRecord]
  BY <1>3, <1>4, IdleRecord
<1>6. \A d \in Calls \ {c} : call'[d] = CallsUnlinked[d]
  BY <1>3
<1>7. \A d \in Calls \ {c} : SameButName(d) /\ call'[d].linked = FALSE
  <2> TAKE d \in Calls \ {c}
  <2>1. call'[d] =
          [at |-> call[d].at, value |-> call[d].value, read |-> call[d].read,
           pos |-> call[d].pos, linked |-> FALSE, over |-> call[d].over]
    BY <1>1, <1>6
  <2>2. call'[d].at = call[d].at /\ call'[d].value = call[d].value
    BY <2>1
  <2>3. call'[d].read = call[d].read /\ call'[d].pos = call[d].pos
    BY <2>1
  <2>4. call'[d].over = call[d].over /\ call'[d].linked = FALSE
    BY <2>1
  <2> QED
    BY <2>2, <2>3, <2>4 DEF SameButName
<1>8. call'[c] = Idle
  BY <1>3
<1> QED
  BY <1>5, <1>7, <1>8 DEF OthersUnlinked

LEMMA StartGetEffect ==
    ASSUME Shape, NEW c \in Calls, StartGet(c)
    PROVE  /\ call' \in [Calls -> CallRecord]
           /\ Others(c)
           /\ Becomes(c, "read", call[c].value, call[c].read,
                     call[c].pos, call[c].linked, superseded)
<1>1. superseded \in SUBSET Values
  BY CacheAssumption DEF Shape, Values
<1> QED
  BY <1>1 DEF Shape, StartGet, Others, Becomes, CallRecord, Places

LEMMA ReadEntryEffect ==
    ASSUME Shape, NEW c \in Calls, ReadEntry(c)
    PROVE  \E chunks \in {slot, <<>>} :
           /\ call' \in [Calls -> CallRecord]
           /\ Others(c)
           /\ Becomes(c, "check", call[c].value, chunks,
                     call[c].pos, call[c].linked, call[c].over)
<1>1. PICK chunks \in {slot, <<>>} :
         call' = [call EXCEPT ![c].at = "check", ![c].read = chunks]
  BY DEF ReadEntry
<1>2. chunks \in Seq(Values)
  <2>1. <<>> \in Seq(Values)
    OBVIOUS
  <2> QED
    BY <1>1, <2>1, Zenon DEF Shape
<1> QED
  BY <1>1, <1>2 DEF Shape, Others, Becomes, CallRecord, Places

LEMMA StartSetEffect ==
    ASSUME Shape, NEW c \in Calls, StartSet(c)
    PROVE  /\ call' \in [Calls -> CallRecord]
           /\ Others(c)
           /\ Becomes(c, IF store = "file" THEN "open" ELSE "put", sets + 1,
                     call[c].read, call[c].pos, call[c].linked, ended)
<1>1. sets + 1 \in 0 .. MaxSets /\ ended \in SUBSET Values
  BY CacheAssumption DEF Shape, StartSet, Values
<1> DEFINE place == IF store = "file" THEN "open" ELSE "put"
<1>2. place \in Places
  BY DEF Places
<1>3. call' = [call EXCEPT ![c].at = place, ![c].value = sets + 1,
                           ![c].over = ended]
  BY DEF StartSet
<1> HIDE DEF place
<1> DEFINE new == [at |-> place, value |-> sets + 1, read |-> call[c].read,
                   pos |-> call[c].pos, linked |-> call[c].linked, over |-> ended]
<1>4. call[c] \in CallRecord
  BY DEF Shape
<1>5. call'[c] = [call[c] EXCEPT !.at = place, !.value = sets + 1, !.over = ended]
  BY <1>3 DEF Shape
<1>6. call'[c] = new
  BY <1>4, <1>5 DEF CallRecord
<1>7. new \in CallRecord
  BY <1>1, <1>2, <1>4 DEF CallRecord
<1>8. Becomes(c, place, sets + 1,
              call[c].read, call[c].pos, call[c].linked, ended)
  BY <1>6 DEF Becomes
<1> HIDE DEF new
<1>9. Others(c)
  BY <1>3 DEF Shape, Others
<1>10. call' \in [Calls -> CallRecord]
  <2>1. \A d \in Calls : call'[d] \in CallRecord
    BY <1>6, <1>7, <1>9 DEF Shape, Others
  <2>2. call' = [d \in Calls |-> call'[d]]
    BY <1>3 DEF Shape
  <2> QED
    BY <2>1, <2>2
<1> QED
  BY <1>8, <1>9, <1>10 DEF place

LEMMA OpenEffect ==
    ASSUME Shape, NEW c \in Calls,
           call' = [call EXCEPT ![c].at = "write", ![c].linked = TRUE]
    PROVE  /\ call' \in [Calls -> CallRecord]
           /\ Others(c)
           /\ Becomes(c, "write", call[c].value, call[c].read,
                     call[c].pos, TRUE, call[c].over)
<1>1. call[c] \in CallRecord
  BY DEF Shape
<1>2. call'[c] = [call[c] EXCEPT !.at = "write", !.linked = TRUE]
  BY DEF Shape
<1> DEFINE new == [at |-> "write", value |-> call[c].value, read |-> call[c].read,
                   pos |-> call[c].pos, linked |-> TRUE, over |-> call[c].over]
<1>3. call'[c] = new
  <2>1. call[c] = [at |-> call[c].at, value |-> call[c].value,
                   read |-> call[c].read, pos |-> call[c].pos,
                   linked |-> call[c].linked, over |-> call[c].over]
    BY <1>1 DEF CallRecord
  <2>2. DOMAIN call'[c] = DOMAIN new
    BY <1>2, <2>1
  <2>3. call'[c].at = "write"
    BY <1>2, <2>1
  <2>4. call'[c].linked = TRUE
    BY <1>2, <2>1
  <2>5. call'[c].value = call[c].value /\ call'[c].read = call[c].read
    BY <1>2, <2>1
  <2>6. call'[c].pos = call[c].pos /\ call'[c].over = call[c].over
    BY <1>2, <2>1
  <2> QED
    BY <1>2, <2>2, <2>3, <2>4, <2>5, <2>6
<1>4. new \in CallRecord
  BY <1>1 DEF CallRecord, Places
<1>5. Becomes(c, "write", call[c].value, call[c].read,
              call[c].pos, TRUE, call[c].over)
  BY <1>3 DEF Becomes
<1> HIDE DEF new
<1>6. Others(c)
  BY DEF Shape, Others
<1>7. call' \in [Calls -> CallRecord]
  <2>1. \A d \in Calls : call'[d] \in CallRecord
    BY <1>3, <1>4, <1>6 DEF Shape, Others
  <2>2. call' = [d \in Calls |-> call'[d]]
    BY DEF Shape
  <2> QED
    BY <2>1, <2>2
<1> QED
  BY <1>5, <1>6, <1>7

LEMMA ChunkEffect ==
    ASSUME Shape, NEW c \in Calls, call' = [call EXCEPT ![c].pos = @ + 1]
    PROVE  /\ call' \in [Calls -> CallRecord]
           /\ Others(c)
           /\ Becomes(c, call[c].at, call[c].value, call[c].read,
                     call[c].pos + 1, call[c].linked, call[c].over)
<1>1. call' = [call EXCEPT ![c] = [call[c] EXCEPT !.pos = call[c].pos + 1]]
  BY DEF Shape
<1>2. call[c].pos + 1 \in Nat
  BY DEF Shape, CallRecord
<1>3. Others(c)
  BY <1>1 DEF Shape, Others
<1>4. call' \in [Calls -> CallRecord]
  BY <1>1, <1>2 DEF Shape, CallRecord
<1>5. Becomes(c, call[c].at, call[c].value, call[c].read,
              call[c].pos + 1, call[c].linked, call[c].over)
  BY <1>1, <1>2 DEF Shape, Becomes, CallRecord
<1> QED
  BY <1>3, <1>4, <1>5

LEMMA StartDeleteEffect ==
    ASSUME Shape, NEW c \in Calls, StartDelete(c)
    PROVE  /\ call' \in [Calls -> CallRecord]
           /\ Others(c)
           /\ Becomes(c, "remove", call[c].value, call[c].read,
                     call[c].pos, call[c].linked, ended)
<1>1. ended \in SUBSET Values
  BY CacheAssumption DEF Shape, Values
<1> QED
  BY <1>1 DEF Shape, StartDelete, Others, Becomes, CallRecord, Places

-----------------------------------------------------------------------------
(* What the store holds *)

LEMMA EmptySlot == <<>> \in Seq(Values) /\ Len(<<>>) = 0
OBVIOUS

LEMMA RunFacts ==
    ASSUME NEW v \in Values, NEW n \in Nat
    PROVE  /\ Run(v, n) \in Seq(Values)
           /\ Len(Run(v, n)) = n
           /\ \A i \in 1 .. n : Run(v, n)[i] = v
BY DEF Run

LEMMA RunEmpty ==
    ASSUME NEW v \in Values
    PROVE  Run(v, 0) = <<>>
<1>1. Run(v, 0) \in Seq(Values) /\ Len(Run(v, 0)) = 0
  BY RunFacts
<1> QED
  BY <1>1

LEMMA WholeFacts ==
    ASSUME NEW v \in Values
    PROVE  /\ Size[v] \in Nat \ {0}
           /\ Whole(v) = Run(v, Size[v])
           /\ Whole(v) \in Seq(Values)
           /\ Len(Whole(v)) = Size[v]
           /\ All(Whole(v), v)
           /\ IsWhole(Whole(v))
<1>1. Size[v] \in Nat \ {0}
  BY CacheAssumption
<1>2. Whole(v) = Run(v, Size[v])
  BY DEF Whole, Run
<1>3. /\ Whole(v) \in Seq(Values) /\ Len(Whole(v)) = Size[v]
      /\ \A i \in 1 .. Size[v] : Whole(v)[i] = v
  <2>1. Size[v] \in Nat
    BY <1>1
  <2> QED
    BY <1>2, <2>1, RunFacts
<1>4. Whole(v) # <<>> /\ Whole(v)[1] = v
  BY <1>1, <1>3
<1>5. All(Whole(v), v)
  BY <1>3 DEF All
<1>6. IsWhole(Whole(v))
  BY <1>4 DEF IsWhole
<1> QED
  BY <1>1, <1>2, <1>3, <1>5, <1>6

\* Writing a chunk of v leaves chunks that were there, or chunks of v.
LEMMA OverwriteFacts ==
    ASSUME NEW s \in Seq(Values), NEW v \in Values, NEW n \in Nat
    PROVE  /\ Overwrite(s, v, n) \in Seq(Values)
           /\ \A i \in 1 .. Len(Overwrite(s, v, n)) :
                \/ Overwrite(s, v, n)[i] = v
                \/ i \in 1 .. Len(s) /\ Overwrite(s, v, n)[i] = s[i]
<1> DEFINE m == IF Len(s) > n THEN Len(s) ELSE n + 1
           chunk(i) == IF i = n + 1 \/ i > Len(s) THEN v ELSE s[i]
<1>1. Len(s) \in Nat /\ m \in Nat
  OBVIOUS
<1>2. Overwrite(s, v, n) = [i \in 1 .. m |-> chunk(i)]
  BY DEF Overwrite
<1>3. \A i \in 1 .. m :
        chunk(i) \in Values
        /\ (chunk(i) = v \/ (i \in 1 .. Len(s) /\ chunk(i) = s[i]))
  BY <1>1
<1> HIDE DEF m, chunk
<1>4. /\ Overwrite(s, v, n) \in Seq(Values) /\ Len(Overwrite(s, v, n)) = m
      /\ \A i \in 1 .. m : Overwrite(s, v, n)[i] = chunk(i)
  BY <1>1, <1>2, <1>3
<1> QED
  BY <1>3, <1>4

\* The chunk after those written makes the run one longer.
LEMMA OverwriteRun ==
    ASSUME NEW v \in Values, NEW n \in Nat
    PROVE  Overwrite(Run(v, n), v, n) = Run(v, n + 1)
<1>1. Len(Run(v, n)) = n /\ \A i \in 1 .. n : Run(v, n)[i] = v
  BY RunFacts
<1>2. \A i \in 1 .. n + 1 :
        (IF i = n + 1 \/ i > Len(Run(v, n)) THEN v ELSE Run(v, n)[i]) = v
  BY <1>1
<1>3. (IF Len(Run(v, n)) > n THEN Len(Run(v, n)) ELSE n + 1) = n + 1
  BY <1>1
<1>4. Overwrite(Run(v, n), v, n) = [i \in 1 .. n + 1 |-> v]
  BY <1>2, <1>3 DEF Overwrite
<1> QED
  BY <1>4 DEF Run

-----------------------------------------------------------------------------
(* Types *)

LEMMA OthersSame ==
    ASSUME NEW c \in Calls, Others(c) \/ OthersUnlinked(c)
    PROVE  \A d \in Calls \ {c} : SameButName(d)
<1>1. CASE Others(c)
  BY <1>1 DEF Others, SameButName
<1>2. CASE OthersUnlinked(c)
  BY <1>2 DEF OthersUnlinked, SameButName
<1> QED
  BY <1>1, <1>2

\* A value that ends is that of the call that returns, and no other has it.
LEMMA OthersFit ==
    ASSUME Types, NEW c \in Calls, \A d \in Calls \ {c} : SameButName(d),
           store' = store, sets' \in {sets, sets + 1},
           \/ ended' = ended
           \/ Setting(c) /\ ended' = ended \union {call[c].value}
    PROVE  \A d \in Calls \ {c} : CallFits(d)'
<1> SUFFICES ASSUME NEW d \in Calls \ {c}
             PROVE  CallFits(d)'
  OBVIOUS
<1>1. CallFits(d) /\ SameButName(d) /\ sets \in Nat
  BY CacheAssumption DEF Types, Shape, CallsFit
<1>2. Setting(d) /\ Setting(c) => call[c].value # call[d].value
  BY DEF Types, CallsFit, ValuesDiffer
<1>3. Setting(d)' <=> Setting(d)
  BY <1>1 DEF Setting, SameButName
<1>4. 0 .. sets \subseteq 0 .. sets' /\ 1 .. sets \subseteq 1 .. sets'
  BY <1>1
<1>5. Setting(d) => call[d].value \in (1 .. sets') \ ended'
  BY <1>1, <1>2, <1>4 DEF CallFits
<1>6. /\ call[d].value \in 0 .. sets' /\ call[d].over \subseteq ended'
  BY <1>1, <1>4 DEF CallFits
<1> QED
  BY <1>1, <1>3, <1>5, <1>6 DEF CallFits, SameButName

\* A set either keeps its value or takes one that was never used.
LEMMA StillDiffer ==
    ASSUME Types, NEW c \in Calls, \A d \in Calls \ {c} : SameButName(d),
           Setting(c)' => \/ call'[c].value = sets + 1
                          \/ Setting(c) /\ call'[c].value = call[c].value
    PROVE  ValuesDiffer'
<1>1. \A d \in Calls : call[d].value \in 0 .. sets /\ sets \in Nat
  BY CacheAssumption DEF Types, Shape, CallsFit, CallFits
<1>2. \A d \in Calls \ {c} : (Setting(d)' <=> Setting(d))
                             /\ call'[d].value = call[d].value
  BY DEF Setting, SameButName
<1>3. \A d \in Calls \ {c} : call[d].value # sets + 1
  BY <1>1
<1>4. \A d, e \in Calls : Setting(d) /\ Setting(e) /\ d # e
                            => call[d].value # call[e].value
  BY DEF Types, CallsFit, ValuesDiffer
<1>5. \A d, e \in Calls : Setting(d)' /\ Setting(e)' /\ d # e
                            => call'[d].value # call'[e].value
  BY <1>2, <1>3, <1>4
<1> QED
  BY <1>5 DEF ValuesDiffer
\* What is left to show of a step of call c.
LEMMA TypesAfter ==
    ASSUME Types, NEW c \in Calls, Others(c) \/ OthersUnlinked(c),
           store' = store, sets' \in {sets, sets + 1},
           \/ ended' = ended
           \/ Setting(c) /\ ended' = ended \union {call[c].value},
           Setting(c)' => \/ call'[c].value = sets + 1
                          \/ Setting(c) /\ call'[c].value = call[c].value,
           Shape', CallFits(c)'
    PROVE  Types'
<1>1. \A d \in Calls \ {c} : SameButName(d)
  BY OthersSame
<1>2. \A d \in Calls \ {c} : CallFits(d)'
  BY <1>1, OthersFit
<1>3. ValuesDiffer'
  BY <1>1, StillDiffer
<1> QED
  BY <1>2, <1>3 DEF Types, CallsFit

\* A call that is over fits anywhere.
LEMMA IdleFits ==
    ASSUME Types, NEW c \in Calls, call'[c] = Idle, sets' \in {sets, sets + 1}
    PROVE  CallFits(c)' /\ ~Setting(c)'
<1>1. sets' \in Nat
  BY CacheAssumption DEF Types, Shape
<1> QED
  BY <1>1 DEF CallFits, Setting, Idle

LEMMA InitTypes == Init => Types
<1> SUFFICES ASSUME Init
             PROVE  Types
  OBVIOUS
<1>1. call \in [Calls -> CallRecord] /\ \A c \in Calls : call[c] = Idle
  BY IdleRecord DEF Init
<1>2. slot \in Seq(Values)
  BY EmptySlot, Zenon DEF Init
<1>3. sets \in 0 .. MaxSets /\ alone \in 0 .. sets
  BY CacheAssumption DEF Init
<1>4. Shape
  BY <1>1, <1>2, <1>3 DEF Init, Shape
<1>5. \A c \in Calls : CallFits(c) /\ ~Setting(c)
  BY <1>1, <1>3 DEF Init, CallFits, Setting, Idle
<1> QED
  BY <1>4, <1>5 DEF Types, CallsFit, ValuesDiffer

LEMMA NextTypes == Types /\ [Next]_vars => Types'
<1> SUFFICES ASSUME Types, [Next]_vars
             PROVE  Types'
  OBVIOUS
<1>0. Shape /\ (\A d \in Calls : CallFits(d)) /\ MaxSets \in Nat
  BY CacheAssumption DEF Types, CallsFit
<1>1. ASSUME NEW c \in Calls, StartGet(c)
      PROVE  Types'
  <2>1. /\ At(c, "idle")
        /\ UNCHANGED <<store, slot, sets, expired, ended, superseded, alone,
                       damaged>>
    BY <1>1 DEF StartGet
  <2>2. /\ call' \in [Calls -> CallRecord] /\ Others(c)
        /\ Becomes(c, "read", call[c].value, call[c].read, call[c].pos,
                   call[c].linked, superseded)
    BY <1>0, <1>1, StartGetEffect
  <2>3. Shape'
    BY <1>0, <2>1, <2>2 DEF Shape
  <2>4. CallFits(c)' /\ ~Setting(c)'
    BY <1>0, <2>1, <2>2 DEF CallFits, Setting, Becomes, Shape
  <2> QED
    BY <2>1, <2>2, <2>3, <2>4, TypesAfter
<1>2. ASSUME NEW c \in Calls, ReadEntry(c)
      PROVE  Types'
  <2>1. /\ At(c, "read")
        /\ UNCHANGED <<store, slot, sets, expired, ended, superseded, alone,
                       damaged>>
    BY <1>2 DEF ReadEntry
  <2>2. PICK chunks \in {slot, <<>>} :
            /\ call' \in [Calls -> CallRecord] /\ Others(c)
            /\ Becomes(c, "check", call[c].value, chunks, call[c].pos,
                       call[c].linked, call[c].over)
    BY <1>0, <1>2, ReadEntryEffect
  <2>3. Shape'
    BY <1>0, <2>1, <2>2 DEF Shape
  <2>4. CallFits(c)' /\ ~Setting(c)'
    BY <1>0, <2>1, <2>2 DEF CallFits, Setting, Becomes
  <2> QED
    BY <2>1, <2>2, <2>3, <2>4, TypesAfter
<1>3. ASSUME NEW c \in Calls, CheckEntry(c)
      PROVE  Types'
  <2>1. /\ At(c, "check") /\ slot' \in {slot, <<>>}
        /\ UNCHANGED <<store, sets, expired, ended, superseded, alone, damaged>>
        /\ Return(c) \/ Move(c, "sweep")
    BY <1>3 DEF CheckEntry
  <2>2. slot' \in Seq(Values)
    BY <1>0, <2>1, EmptySlot, Zenon DEF Shape
  <2>3. CASE Return(c)
    <3>1. Shape'
      BY <1>0, <2>1, <2>2, <2>3, ReturnEffect DEF Shape
    <3> QED
      BY <1>0, <2>1, <2>3, <3>1, ReturnEffect, IdleFits, TypesAfter
  <2>4. CASE Move(c, "sweep")
    <3>1. "sweep" \in Places
      BY DEF Places
    <3>2. /\ call' \in [Calls -> CallRecord] /\ Others(c)
          /\ Becomes(c, "sweep", call[c].value, call[c].read, call[c].pos,
                     call[c].linked, call[c].over)
      BY <1>0, <2>4, <3>1, MoveEffect
    <3>3. Shape'
      BY <1>0, <2>1, <2>2, <3>2 DEF Shape
    <3>4. CallFits(c)' /\ ~Setting(c)'
      BY <1>0, <2>1, <3>2 DEF CallFits, Setting, Becomes
    <3> QED
      BY <2>1, <3>2, <3>3, <3>4, TypesAfter
  <2> QED
    BY <2>1, <2>3, <2>4
<1>4. ASSUME NEW c \in Calls, Sweep(c)
      PROVE  Types'
  <2>1. /\ slot' \in {slot, <<>>}
        /\ UNCHANGED <<store, sets, expired, ended, superseded, alone, damaged>>
        /\ Return(c) \/ call' = [CallsUnlinked EXCEPT ![c] = Idle]
    BY <1>4 DEF Sweep, Unlink
  <2>2. slot' \in Seq(Values)
    BY <1>0, <2>1, EmptySlot, Zenon DEF Shape
  <2>3. /\ call' \in [Calls -> CallRecord] /\ call'[c] = Idle
        /\ Others(c) \/ OthersUnlinked(c)
    BY <1>0, <2>1, ReturnEffect, UnlinkedEffect
  <2>4. Shape'
    BY <1>0, <2>1, <2>2, <2>3 DEF Shape
  <2> QED
    BY <2>1, <2>3, <2>4, IdleFits, TypesAfter
<1>5. ASSUME NEW c \in Calls, StartSet(c)
      PROVE  Types'
  <2>1. /\ At(c, "idle") /\ sets < MaxSets /\ sets' = sets + 1
        /\ alone' \in {0, sets + 1}
        /\ UNCHANGED <<store, slot, expired, ended, superseded, damaged>>
    BY <1>5 DEF StartSet
  <2>2. /\ sets \in Nat /\ sets' \in 0 .. MaxSets /\ alone' \in 0 .. sets'
        /\ 1 .. sets \subseteq 1 .. sets'
    BY <1>0, <2>1 DEF Shape
  <2>3. /\ call' \in [Calls -> CallRecord] /\ Others(c)
        /\ Becomes(c, IF store = "file" THEN "open" ELSE "put", sets + 1,
                   call[c].read, call[c].pos, call[c].linked, ended)
    BY <1>0, <1>5, StartSetEffect
  <2>4. Shape'
    BY <1>0, <2>1, <2>2, <2>3 DEF Shape
  <2>5. sets + 1 \in (1 .. sets') \ ended
    BY <1>0, <2>1, <2>2 DEF Shape
  <2>6. CallFits(c)' /\ call'[c].value = sets + 1
    BY <1>0, <2>1, <2>2, <2>3, <2>5 DEF CallFits, Setting, Becomes, At
  <2> QED
    BY <2>1, <2>3, <2>4, <2>6, TypesAfter
<1>6. ASSUME NEW c \in Calls, Put(c)
      PROVE  Types'
  <2>1. /\ At(c, "put") /\ Setting(c) /\ Return(c)
        /\ alone' \in {0, alone} /\ UNCHANGED <<store, sets, expired, damaged>>
        /\ call[c].value \in 1 .. sets /\ call[c].value \in Values
        /\ call[c].over \subseteq ended
    BY <1>0, <1>6 DEF Put, Fails, Exposed, At, Setting, CallFits, Shape, Values
  <2>2. CASE slot' = Whole(call[c].value) /\ Succeeds(c)
    <3>1. slot' \in Seq(Values)
      BY <2>1, <2>2, WholeFacts
    <3> call' \in [Calls -> CallRecord] /\ Others(c) /\ call'[c] = Idle
      BY <1>0, <2>1, ReturnEffect
    <3> ended' \subseteq 1 .. sets /\ superseded' \subseteq ended'
      BY <1>0, <2>1, <2>2 DEF Shape, Succeeds
    <3>2. Shape'
      BY <1>0, <2>1, <3>1 DEF Shape
    <3> QED
      BY <1>0, <2>1, <2>2, <3>2, ReturnEffect, IdleFits, TypesAfter DEF Succeeds
  <2>3. CASE UNCHANGED <<slot, ended, superseded>>
    <3>1. Shape'
      BY <1>0, <2>1, <2>3, ReturnEffect DEF Shape
    <3> QED
      BY <1>0, <2>1, <2>3, <3>1, ReturnEffect, IdleFits, TypesAfter
  <2> QED
    BY <1>6, <2>2, <2>3 DEF Put, Fails
<1>7. ASSUME NEW c \in Calls, OpenFile(c)
      PROVE  Types'
  <2>1. /\ At(c, "open") /\ slot' \in {slot, <<>>} /\ alone' \in {0, alone}
        /\ damaged' \in BOOLEAN
        /\ UNCHANGED <<store, sets, expired, ended, superseded>>
    BY <1>0, <1>7 DEF OpenFile, Fails, Exposed, Shape
  <2>2. slot' \in Seq(Values)
    BY <1>0, <2>1, EmptySlot, Zenon DEF Shape
  <2>3. CASE Return(c)
    <3>1. Shape'
      BY <1>0, <2>1, <2>2, <2>3, ReturnEffect DEF Shape
    <3> QED
      BY <1>0, <2>1, <2>3, <3>1, ReturnEffect, IdleFits, TypesAfter
  <2>4. CASE call' = [call EXCEPT ![c].at = "write", ![c].linked = TRUE]
    <3> /\ call' \in [Calls -> CallRecord] /\ Others(c)
        /\ Becomes(c, "write", call[c].value, call[c].read, call[c].pos, TRUE,
                   call[c].over)
      BY <1>0, <2>4, OpenEffect
    <3>1. Shape'
      BY <1>0, <2>1, <2>2 DEF Shape
    <3>2. call[c].value \in Values
      BY <1>0, <2>1 DEF At, Setting, CallFits, Shape, Values
    <3>3. 0 < Size[call[c].value]
      BY <3>2, WholeFacts
    <3>4. CallFits(c)' /\ Setting(c) /\ call'[c].value = call[c].value
      BY <1>0, <2>1, <3>3 DEF CallFits, At, Setting, Becomes
    <3> QED
      BY <2>1, <3>1, <3>4, TypesAfter
  <2> QED
    BY <1>7, <2>3, <2>4 DEF OpenFile, Fails
<1>8. ASSUME NEW c \in Calls, WriteChunk(c)
      PROVE  Types'
  <2>1. /\ At(c, "write") /\ Setting(c) /\ alone' \in {0, alone}
        /\ damaged' \in BOOLEAN /\ UNCHANGED <<store, sets, expired>>
        /\ slot' \in {slot, Overwrite(slot, call[c].value, call[c].pos)}
        /\ call[c].value \in 1 .. sets /\ call[c].value \in Values
        /\ call[c].over \subseteq ended /\ call[c].pos \in Nat
    <3>1. At(c, "write") /\ Setting(c) /\ UNCHANGED <<store, sets, expired>>
      BY <1>8 DEF WriteChunk, At, Setting
    <3>2. alone' \in {0, alone} /\ damaged' \in BOOLEAN
      BY <1>0, <1>8 DEF WriteChunk, Fails, Shape
    <3>3. slot' \in {slot, Overwrite(slot, call[c].value, call[c].pos)}
      BY <1>8 DEF WriteChunk
    <3>4. /\ call[c].value \in 1 .. sets /\ call[c].value \in Values
          /\ call[c].over \subseteq ended
      BY <1>0, <3>1 DEF CallFits, Shape, Values
    <3>5. call[c].pos \in Nat
      BY <1>0 DEF Shape, CallRecord
    <3> QED
      BY <3>1, <3>2, <3>3, <3>4, <3>5
  <2>2. slot' \in Seq(Values)
    BY <1>0, <2>1, OverwriteFacts DEF Shape
  <2>3. CASE Succeeds(c) /\ Return(c)
    <3> call' \in [Calls -> CallRecord] /\ Others(c) /\ call'[c] = Idle
      BY <1>0, <2>3, ReturnEffect
    <3> ended' \subseteq 1 .. sets /\ superseded' \subseteq ended'
      BY <1>0, <2>1, <2>3 DEF Shape, Succeeds
    <3>1. Shape'
      BY <1>0, <2>1, <2>2 DEF Shape
    <3> QED
      BY <1>0, <2>1, <2>3, <3>1, ReturnEffect, IdleFits, TypesAfter DEF Succeeds
  <2>4. CASE Return(c) /\ UNCHANGED <<ended, superseded>>
    <3>1. Shape'
      BY <1>0, <2>1, <2>2, <2>4, ReturnEffect DEF Shape
    <3> QED
      BY <1>0, <2>1, <2>4, <3>1, ReturnEffect, IdleFits, TypesAfter
  <2>5. CASE /\ call[c].pos + 1 < Size[call[c].value]
             /\ call' = [call EXCEPT ![c].pos = @ + 1]
             /\ UNCHANGED <<ended, superseded>>
    <3> /\ call' \in [Calls -> CallRecord] /\ Others(c)
        /\ Becomes(c, call[c].at, call[c].value, call[c].read,
                   call[c].pos + 1, call[c].linked, call[c].over)
      BY <1>0, <2>5, ChunkEffect
    <3>1. Shape'
      BY <1>0, <2>1, <2>2, <2>5 DEF Shape
    <3>2. CallFits(c)' /\ call'[c].value = call[c].value
      BY <1>0, <2>1, <2>5 DEF CallFits, At, Setting, Becomes
    <3> QED
      BY <2>1, <2>5, <3>1, <3>2, TypesAfter
  <2> QED
    BY <1>8, <2>3, <2>4, <2>5 DEF WriteChunk, Fails
<1>9. ASSUME NEW c \in Calls, StartDelete(c)
      PROVE  Types'
  <2>1. /\ alone' = 0
        /\ UNCHANGED <<store, slot, sets, expired, ended, superseded, damaged>>
    BY <1>9 DEF StartDelete
  <2>2. /\ call' \in [Calls -> CallRecord] /\ Others(c)
        /\ Becomes(c, "remove", call[c].value, call[c].read, call[c].pos,
                   call[c].linked, ended)
    BY <1>0, <1>9, StartDeleteEffect
  <2>3. Shape'
    BY <1>0, <2>1, <2>2 DEF Shape
  <2>4. CallFits(c)' /\ ~Setting(c)'
    BY <1>0, <2>1, <2>2 DEF CallFits, Setting, Becomes, Shape
  <2> QED
    BY <2>1, <2>2, <2>3, <2>4, TypesAfter
<1>10. ASSUME NEW c \in Calls, RemoveEntry(c)
      PROVE  Types'
  <2>1. /\ slot' \in {slot, <<>>}
        /\ superseded' \in {superseded, superseded \union call[c].over}
        /\ UNCHANGED <<store, sets, expired, ended, alone, damaged>>
        /\ Return(c) \/ call' = [CallsUnlinked EXCEPT ![c] = Idle]
    BY <1>10 DEF RemoveEntry, Unlink
  <2>2. slot' \in Seq(Values)
    BY <1>0, <2>1, EmptySlot, Zenon DEF Shape
  <2>3. /\ call' \in [Calls -> CallRecord] /\ call'[c] = Idle
        /\ Others(c) \/ OthersUnlinked(c)
    BY <1>0, <2>1, ReturnEffect, UnlinkedEffect
  <2>4. superseded' \subseteq ended
    BY <1>0, <2>1 DEF Shape, CallFits
  <2>5. Shape'
    BY <1>0, <2>1, <2>2, <2>3, <2>4 DEF Shape
  <2> QED
    BY <2>1, <2>3, <2>5, IdleFits, TypesAfter
<1>11. ASSUME NEW v \in Values, Expire(v)
       PROVE  Types'
  <2>1. /\ expired' \subseteq 1 .. sets
        /\ UNCHANGED <<store, slot, call, sets, ended, superseded, alone,
                       damaged>>
    BY <1>0, <1>11 DEF Expire, Shape
  <2> QED
    BY <1>0, <2>1
       DEF Types, Shape, CallsFit, CallFits, ValuesDiffer, Setting
<1>12. CASE Crash
  <2>1. /\ call' = [c \in Calls |-> Idle] /\ slot' \in {slot, <<>>}
        /\ alone' \in {0, alone} /\ damaged' \in BOOLEAN
        /\ UNCHANGED <<store, sets, expired, ended, superseded>>
    BY <1>0, <1>12 DEF Crash, Shape
  <2>2. slot' \in Seq(Values)
    BY <1>0, <2>1, EmptySlot, Zenon DEF Shape
  <2>3. call' \in [Calls -> CallRecord] /\ \A c \in Calls : call'[c] = Idle
    BY <2>1, IdleRecord
  <2>4. Shape'
    BY <1>0, <2>1, <2>2, <2>3 DEF Shape
  <2>5. \A c \in Calls : CallFits(c)' /\ ~Setting(c)'
    BY <2>1, <2>3, IdleFits
  <2> QED
    BY <2>4, <2>5 DEF Types, CallsFit, ValuesDiffer
<1>13. CASE UNCHANGED vars
  BY <1>0, <1>13
     DEF vars, Types, Shape, CallsFit, CallFits, ValuesDiffer, Setting
<1> QED
  BY <1>1, <1>2, <1>3, <1>4, <1>5, <1>6, <1>7, <1>8, <1>9, <1>10, <1>11,
     <1>12, <1>13 DEF Next, Step
-----------------------------------------------------------------------------
(* What may be read *)

LEMMA SettingValue ==
    ASSUME Types, NEW c \in Calls, Setting(c)
    PROVE  /\ call[c].value \in Values /\ call[c].value \in 1 .. sets
           /\ call[c].value \notin ended /\ call[c].over \subseteq ended
<1>1. CallFits(c) /\ sets \in 0 .. MaxSets /\ MaxSets \in Nat
  BY CacheAssumption DEF Types, Shape, CallsFit
<1> QED
  BY <1>1 DEF CallFits, Values

\* A step of call c may only add values to the store that had not ended.
LEMMA FreshAfter ==
    ASSUME Types, FreshInv, NEW c \in Calls, Others(c) \/ OthersUnlinked(c),
           \A i \in 1 .. Len(slot') :
               \/ slot'[i] \notin ended
               \/ i \in 1 .. Len(slot) /\ slot'[i] = slot[i],
           \/ superseded' = superseded
           \/ /\ superseded' = superseded \union call[c].over
              /\ Free(slot', call[c].over),
           CallFresh(c)'
    PROVE  FreshInv'
<1>1. superseded \subseteq ended /\ Free(slot, superseded)
  BY DEF Types, Shape, FreshInv
<1>2. Free(slot', superseded')
  <2>1. Free(slot', superseded)
    BY <1>1 DEF Free
  <2> QED
    BY <2>1 DEF Free
<1>3. ASSUME NEW d \in Calls \ {c}
      PROVE  CallFresh(d)'
  <2>1. SameButName(d)
    BY OthersSame
  <2>2. CallFresh(d) /\ call[d].over \subseteq ended
    BY DEF FreshInv, Types, CallsFit, CallFits
  <2>3. call[d].at = "read" => call[d].over \subseteq superseded'
    BY <2>2 DEF CallFresh
  <2>4. call[d].at = "write" => Free(slot', call[d].over)
    BY <2>2 DEF CallFresh, Free
  <2> QED
    BY <2>1, <2>2, <2>3, <2>4 DEF SameButName, CallFresh
<1> QED
  BY <1>2, <1>3 DEF FreshInv

\* So it is when the store is emptied or left alone.
LEMMA LessIsFresh ==
    ASSUME slot' \in {slot, <<>>}
    PROVE  \A i \in 1 .. Len(slot') : i \in 1 .. Len(slot) /\ slot'[i] = slot[i]
<1>1. CASE slot' = slot
  BY <1>1
<1>2. CASE slot' = <<>>
  BY <1>2
<1> QED
  BY <1>1, <1>2

LEMMA InitFresh == Init => FreshInv
BY DEF Init, FreshInv, Free, CallFresh, Idle

LEMMA NextFresh == Types /\ FreshInv /\ [Next]_vars => FreshInv'
<1> SUFFICES ASSUME Types, FreshInv, [Next]_vars
             PROVE  FreshInv'
  OBVIOUS
<1>0. /\ Shape /\ (\A d \in Calls : CallFits(d)) /\ Free(slot, superseded)
      /\ \A d \in Calls : CallFresh(d)
  BY DEF Types, CallsFit, FreshInv
<1>a. ASSUME NEW c \in Calls, call'[c] = Idle
      PROVE  CallFresh(c)'
  BY <1>a DEF CallFresh, Idle
<1>1. ASSUME NEW c \in Calls, StartGet(c)
      PROVE  FreshInv'
  <2>1. slot' = slot /\ superseded' = superseded
    BY <1>1 DEF StartGet
  <2>2. /\ Others(c)
        /\ Becomes(c, "read", call[c].value, call[c].read, call[c].pos,
                   call[c].linked, superseded)
    BY <1>0, <1>1, StartGetEffect
  <2>3. CallFresh(c)'
    BY <2>1, <2>2 DEF CallFresh, Becomes
  <2> QED
    BY <2>1, <2>2, <2>3, FreshAfter
<1>2. ASSUME NEW c \in Calls, ReadEntry(c)
      PROVE  FreshInv'
  <2>1. At(c, "read") /\ slot' = slot /\ superseded' = superseded
    BY <1>2 DEF ReadEntry
  <2>2. PICK chunks \in {slot, <<>>} :
            /\ Others(c)
            /\ Becomes(c, "check", call[c].value, chunks, call[c].pos,
                       call[c].linked, call[c].over)
    BY <1>0, <1>2, ReadEntryEffect
  <2>3. Free(slot, call[c].over)
    BY <1>0, <2>1 DEF CallFresh, Free, At
  <2>4. Free(chunks, call[c].over)
    BY <2>2, <2>3, EmptySlot DEF Free
  <2>5. CallFresh(c)'
    BY <2>2, <2>4 DEF CallFresh, Becomes
  <2> QED
    BY <2>1, <2>2, <2>5, FreshAfter
<1>3. ASSUME NEW c \in Calls, CheckEntry(c)
      PROVE  FreshInv'
  <2>1. /\ slot' \in {slot, <<>>} /\ superseded' = superseded
        /\ Return(c) \/ Move(c, "sweep")
    BY <1>3 DEF CheckEntry
  <2>2. Others(c) /\ (call'[c] = Idle \/ call'[c].at = "sweep")
    <3>1. "sweep" \in Places
      BY DEF Places
    <3> QED
      BY <1>0, <2>1, <3>1, ReturnEffect, MoveEffect DEF Becomes
  <2>3. CallFresh(c)'
    BY <2>2 DEF CallFresh, Idle
  <2> QED
    BY <2>1, <2>2, <2>3, LessIsFresh, FreshAfter
<1>4. ASSUME NEW c \in Calls, Sweep(c)
      PROVE  FreshInv'
  <2>1. /\ slot' \in {slot, <<>>} /\ superseded' = superseded
        /\ Return(c) \/ call' = [CallsUnlinked EXCEPT ![c] = Idle]
    BY <1>4 DEF Sweep, Unlink
  <2>2. call'[c] = Idle /\ (Others(c) \/ OthersUnlinked(c))
    BY <1>0, <2>1, ReturnEffect, UnlinkedEffect
  <2> QED
    BY <1>a, <2>1, <2>2, LessIsFresh, FreshAfter
<1>5. ASSUME NEW c \in Calls, StartSet(c)
      PROVE  FreshInv'
  <2>1. slot' = slot /\ superseded' = superseded
    BY <1>5 DEF StartSet
  <2>2. Others(c) /\ call'[c].at \in {"open", "put"}
    BY <1>0, <1>5, StartSetEffect DEF Becomes
  <2>3. CallFresh(c)'
    BY <2>2 DEF CallFresh
  <2> QED
    BY <2>1, <2>2, <2>3, FreshAfter
<1>6. ASSUME NEW c \in Calls, Put(c)
      PROVE  FreshInv'
  <2>1. /\ call[c].value \in Values /\ call[c].value \notin ended
        /\ call[c].over \subseteq ended
    BY <1>6, SettingValue DEF Put, At, Setting
  <2>2. Others(c) /\ call'[c] = Idle
    BY <1>0, <1>6, ReturnEffect DEF Put, Fails
  <2>3. CASE slot' = Whole(call[c].value) /\ Succeeds(c)
    <3>1. \A i \in 1 .. Len(slot') : slot'[i] = call[c].value
      BY <2>1, <2>3, WholeFacts DEF All
    <3>2. Free(slot', call[c].over)
      BY <2>1, <3>1 DEF Free
    <3> QED
      BY <1>a, <2>1, <2>2, <2>3, <3>1, <3>2, FreshAfter DEF Succeeds
  <2>4. CASE slot' = slot /\ superseded' = superseded
    BY <1>a, <2>2, <2>4, FreshAfter
  <2> QED
    BY <1>6, <2>3, <2>4 DEF Put, Fails
<1>7. ASSUME NEW c \in Calls, OpenFile(c)
      PROVE  FreshInv'
  <2>1. slot' \in {slot, <<>>} /\ superseded' = superseded
    BY <1>7 DEF OpenFile, Fails
  <2>2. CASE Return(c)
    BY <1>0, <1>a, <2>1, <2>2, ReturnEffect, LessIsFresh, FreshAfter
  <2>3. CASE /\ slot' = <<>>
             /\ call' = [call EXCEPT ![c].at = "write", ![c].linked = TRUE]
    <3>1. Others(c) /\ call'[c].at = "write"
      BY <1>0, <2>3, OpenEffect DEF Becomes
    <3>2. CallFresh(c)'
      BY <2>3, <3>1, EmptySlot DEF CallFresh, Free
    <3> QED
      BY <2>1, <3>1, <3>2, LessIsFresh, FreshAfter
  <2> QED
    BY <1>7, <2>2, <2>3 DEF OpenFile, Fails
<1>8. ASSUME NEW c \in Calls, WriteChunk(c)
      PROVE  FreshInv'
  <2>1. /\ call[c].value \in Values /\ call[c].value \notin ended
        /\ call[c].over \subseteq ended
        /\ Free(slot, call[c].over)
    <3>1. At(c, "write") /\ Setting(c)
      BY <1>8 DEF WriteChunk, At, Setting
    <3>2. Free(slot, call[c].over)
      BY <1>0, <3>1 DEF CallFresh, At
    <3> QED
      BY <3>1, <3>2, SettingValue
  <2>2. slot' \in {slot, Overwrite(slot, call[c].value, call[c].pos)}
    BY <1>8 DEF WriteChunk
  <2>3. \A i \in 1 .. Len(slot') :
            \/ slot'[i] = call[c].value
            \/ i \in 1 .. Len(slot) /\ slot'[i] = slot[i]
    <3>1. slot \in Seq(Values) /\ call[c].pos \in Nat
      BY <1>0 DEF Shape, CallRecord
    <3>2. CASE slot' = slot
      BY <3>2
    <3>3. CASE slot' = Overwrite(slot, call[c].value, call[c].pos)
      BY <2>1, <3>1, <3>3, OverwriteFacts
    <3> QED
      BY <2>2, <3>2, <3>3
  <2>4. Free(slot', call[c].over)
    BY <2>1, <2>3 DEF Free
  <2>5. CASE Return(c)
    <3>1. superseded' \in {superseded, superseded \union call[c].over}
      BY <1>8 DEF WriteChunk, Succeeds, Fails
    <3>2. Others(c) /\ CallFresh(c)'
      BY <1>0, <1>a, <2>5, ReturnEffect
    <3> QED
      BY <2>1, <2>3, <2>4, <3>1, <3>2, FreshAfter
  <2>6. CASE call' = [call EXCEPT ![c].pos = @ + 1] /\ superseded' = superseded
    <3>1. Others(c) /\ call'[c].over = call[c].over /\ call'[c].at = "write"
      BY <1>0, <1>8, <2>6, ChunkEffect DEF Becomes, WriteChunk, At
    <3>2. CallFresh(c)'
      BY <2>4, <3>1 DEF CallFresh
    <3> QED
      BY <2>1, <2>3, <2>6, <3>1, <3>2, FreshAfter
  <2> QED
    BY <1>8, <2>5, <2>6 DEF WriteChunk, Fails
<1>9. ASSUME NEW c \in Calls, StartDelete(c)
      PROVE  FreshInv'
  <2>1. slot' = slot /\ superseded' = superseded
    BY <1>9 DEF StartDelete
  <2>2. Others(c) /\ call'[c].at = "remove"
    BY <1>0, <1>9, StartDeleteEffect DEF Becomes
  <2>3. CallFresh(c)'
    BY <2>2 DEF CallFresh
  <2> QED
    BY <2>1, <2>2, <2>3, FreshAfter
<1>10. ASSUME NEW c \in Calls, RemoveEntry(c)
       PROVE  FreshInv'
  <2>1. /\ slot' \in {slot, <<>>}
        /\ \/ superseded' = superseded
           \/ slot' = <<>> /\ superseded' = superseded \union call[c].over
        /\ Return(c) \/ call' = [CallsUnlinked EXCEPT ![c] = Idle]
    BY <1>10 DEF RemoveEntry, Unlink
  <2>2. call'[c] = Idle /\ (Others(c) \/ OthersUnlinked(c))
    BY <1>0, <2>1, ReturnEffect, UnlinkedEffect
  <2>3. slot' = <<>> => Free(slot', call[c].over)
    BY EmptySlot DEF Free
  <2> QED
    BY <1>a, <2>1, <2>2, <2>3, LessIsFresh, FreshAfter
<1>11. ASSUME NEW v \in Values, Expire(v)
       PROVE  FreshInv'
  BY <1>11 DEF Expire, FreshInv, Free, CallFresh
<1>12. CASE Crash
  <2>1. /\ call' = [c \in Calls |-> Idle] /\ slot' \in {slot, <<>>}
        /\ superseded' = superseded
    BY <1>12 DEF Crash
  <2>2. Free(slot', superseded')
    BY <1>0, <2>1, LessIsFresh DEF Free
  <2>3. \A c \in Calls : CallFresh(c)'
    BY <1>a, <2>1
  <2> QED
    BY <2>2, <2>3 DEF FreshInv
<1>13. CASE UNCHANGED vars
  BY <1>13 DEF vars, FreshInv, Free, CallFresh
<1> QED
  BY <1>1, <1>2, <1>3, <1>4, <1>5, <1>6, <1>7, <1>8, <1>9, <1>10, <1>11,
     <1>12, <1>13 DEF Next, Step
-----------------------------------------------------------------------------
(* Torn files *)

\* Nothing was written, and the file has the writers it had.
LEMMA FileQuiet ==
    ASSUME FileInv, NEW c \in Calls, Others(c), ~Writing(c), ~Writing(c)',
           UNCHANGED <<store, slot, damaged>>
    PROVE  FileInv'
<1>1. \A d \in Calls : Writing(d)' => call'[d] = call[d] /\ Writing(d)
  BY DEF Others, Writing, At
<1>2. \A d \in Calls : Writing(d) => call'[d] = call[d] /\ Writing(d)'
  BY DEF Others, Writing, At
<1>3. store' # "file" => Complete(slot')
  BY DEF FileInv
<1>4. ASSUME ~damaged'
      PROVE  /\ \A d, e \in Calls : Writing(d)' /\ Writing(e)' => d = e
             /\ \A d \in Calls : Writing(d)' =>
                    slot' = Run(call'[d].value, call'[d].pos)
             /\ (\A d \in Calls : ~Writing(d)') => Complete(slot')
  <2>1. ~damaged
    BY <1>4
  <2>2. \A d, e \in Calls : Writing(d)' /\ Writing(e)' => d = e
    BY <1>1, <2>1 DEF FileInv
  <2>3. \A d \in Calls : Writing(d)' =>
                    slot' = Run(call'[d].value, call'[d].pos)
    BY <1>1, <2>1 DEF FileInv
  <2>4. (\A d \in Calls : ~Writing(d)') => Complete(slot')
    BY <1>2, <2>1 DEF FileInv
  <2> QED
    BY <2>2, <2>3, <2>4
<1> QED
  BY <1>3, <1>4 DEF FileInv

\* The file is empty or complete, and nobody writes.
LEMMA FileComplete ==
    ASSUME Complete(slot'), \A d \in Calls : ~Writing(d)'
    PROVE  FileInv'
BY DEF FileInv, Complete, IsWhole, Whole

LEMMA InitFile == Init => FileInv
BY DEF Init, FileInv, Writing, At, Idle, Complete
\* The calls of a store that is not a file write no file.
LEMMA OnlyFilesWritten ==
    ASSUME Types, NEW c \in Calls, At(c, "write")
    PROVE  store = "file"
BY DEF Types, CallsFit, CallFits, At

LEMMA NextFile == Types /\ FileInv /\ Types' /\ [Next]_vars => FileInv'
<1> SUFFICES ASSUME Types, FileInv, Types', [Next]_vars
             PROVE  FileInv'
  OBVIOUS
<1>0. Shape
  BY DEF Types
<1>a. Complete(<<>>)
  BY DEF Complete
<1>b. ASSUME NEW c \in Calls, call'[c] = Idle
      PROVE  ~Writing(c)'
  BY <1>b DEF Writing, At, Idle
<1>c. ASSUME store' # "file"
      PROVE  \A d \in Calls : ~Writing(d)'
  BY <1>c DEF Types, CallsFit, CallFits, Writing, At
<1>1. ASSUME NEW c \in Calls, StartGet(c)
      PROVE  FileInv'
  <2>1. At(c, "idle") /\ UNCHANGED <<store, slot, damaged>>
    BY <1>1 DEF StartGet
  <2>2. Others(c) /\ call'[c].at = "read"
    BY <1>0, <1>1, StartGetEffect DEF Becomes
  <2> QED
    BY <2>1, <2>2, FileQuiet DEF Writing, At
<1>2. ASSUME NEW c \in Calls, ReadEntry(c)
      PROVE  FileInv'
  <2>1. At(c, "read") /\ UNCHANGED <<store, slot, damaged>>
    BY <1>2 DEF ReadEntry
  <2>2. Others(c) /\ call'[c].at = "check"
    BY <1>0, <1>2, ReadEntryEffect DEF Becomes
  <2> QED
    BY <2>1, <2>2, FileQuiet DEF Writing, At
<1>3. ASSUME NEW c \in Calls, CheckEntry(c)
      PROVE  FileInv'
  <2>1. CASE slot' = slot
    <3>1. At(c, "check") /\ UNCHANGED <<store, slot, damaged>>
      BY <1>3, <2>1 DEF CheckEntry
    <3>2. "sweep" \in Places
      BY DEF Places
    <3>3. Others(c) /\ call'[c].at \in {"idle", "sweep"}
      BY <1>0, <1>3, <3>2, ReturnEffect, MoveEffect
         DEF CheckEntry, Becomes, Idle
    <3> QED
      BY <3>1, <3>3, FileQuiet DEF Writing, At
  <2>2. CASE slot' = <<>> /\ store' = "memory"
    BY <1>a, <1>c, <2>2, FileComplete
  <2> QED
    BY <1>3, <2>1, <2>2 DEF CheckEntry
<1>4. ASSUME NEW c \in Calls, Sweep(c)
      PROVE  FileInv'
  <2>1. At(c, "sweep") /\ UNCHANGED <<store, damaged>>
    BY <1>4 DEF Sweep
  <2>2. CASE slot' = <<>> /\ call' = [CallsUnlinked EXCEPT ![c] = Idle]
    <3>1. \A d \in Calls : ~Writing(d)'
      BY <1>0, <1>b, <2>2, UnlinkedEffect DEF OthersUnlinked, Writing
    <3> QED
      BY <1>a, <2>2, <3>1, FileComplete
  <2>3. CASE Return(c) /\ slot' = slot
    BY <1>0, <1>b, <2>1, <2>3, ReturnEffect, FileQuiet DEF Writing, At
  <2> QED
    BY <1>4, <2>2, <2>3 DEF Sweep, Unlink
<1>5. ASSUME NEW c \in Calls, StartSet(c)
      PROVE  FileInv'
  <2>1. At(c, "idle") /\ UNCHANGED <<store, slot, damaged>>
    BY <1>5 DEF StartSet
  <2>2. Others(c) /\ call'[c].at \in {"open", "put"}
    BY <1>0, <1>5, StartSetEffect DEF Becomes
  <2> QED
    BY <2>1, <2>2, FileQuiet DEF Writing, At
<1>6. ASSUME NEW c \in Calls, Put(c)
      PROVE  FileInv'
  <2>1. At(c, "put") /\ Setting(c) /\ UNCHANGED <<store, damaged>> /\ Return(c)
    BY <1>6 DEF Put, Fails, At, Setting
  <2>2. store # "file"
    BY <2>1 DEF Types, CallsFit, CallFits, At
  <2>3. CASE slot' = Whole(call[c].value)
    <3>1. Complete(slot')
      BY <2>1, <2>3, SettingValue, WholeFacts DEF Complete
    <3> QED
      BY <1>c, <2>1, <2>2, <3>1, FileComplete
  <2>4. CASE slot' = slot
    BY <1>0, <1>b, <2>1, <2>4, ReturnEffect, FileQuiet DEF Writing, At
  <2> QED
    BY <1>6, <2>3, <2>4 DEF Put
<1>7. ASSUME NEW c \in Calls, OpenFile(c)
      PROVE  FileInv'
  <2>1. At(c, "open") /\ store' = store
    BY <1>7 DEF OpenFile
  <2>2. CASE Return(c) /\ UNCHANGED <<slot, damaged>>
    BY <1>0, <1>b, <2>1, <2>2, ReturnEffect, FileQuiet DEF Writing, At
  <2>3. CASE /\ slot' = <<>>
             /\ call' = [call EXCEPT ![c].at = "write", ![c].linked = TRUE]
             /\ damaged' = \E d \in Calls : Writing(d)
    <3>1. /\ Others(c) /\ call'[c].at = "write" /\ call'[c].linked
          /\ call'[c].pos = call[c].pos
      BY <1>0, <2>3, OpenEffect DEF Becomes
    <3>2. call[c].pos = 0
      BY <2>1 DEF Types, CallsFit, CallFits, At
    <3>3. slot' = Run(call'[c].value, call'[c].pos)
      <4>1. call[c].value \in Values /\ call'[c].value = call[c].value
        BY <1>0, <2>1, <2>3, OpenEffect, SettingValue DEF Becomes, Setting, At
      <4> QED
        BY <2>3, <3>1, <3>2, <4>1, RunEmpty
    <3>4. Writing(c)'
      BY <3>1 DEF Writing, At
    <3>5. ~damaged' => \A d \in Calls : Writing(d)' => d = c
      BY <2>3, <3>1 DEF Others, Writing, At
    <3>6. Complete(slot')
      BY <1>a, <2>3
    <3> QED
      BY <3>3, <3>4, <3>5, <3>6 DEF FileInv
  <2> QED
    BY <1>7, <2>2, <2>3 DEF OpenFile, Fails
<1>8. ASSUME NEW c \in Calls, WriteChunk(c)
      PROVE  FileInv'
  <2>1. At(c, "write") /\ Setting(c) /\ store' = store
    BY <1>8 DEF WriteChunk, At, Setting
  <2>2. store' = "file"
    BY <2>1, OnlyFilesWritten
  <2>3. CASE damaged' = TRUE
    BY <2>2, <2>3 DEF FileInv
  <2>4. CASE /\ damaged' = damaged /\ ~call[c].linked /\ slot' = slot
             /\ Return(c) \/ call' = [call EXCEPT ![c].pos = @ + 1]
    <3>1. Others(c) /\ (call'[c] = Idle \/ call'[c].linked = call[c].linked)
      BY <1>0, <2>4, ReturnEffect, ChunkEffect DEF Becomes
    <3>2. ~Writing(c) /\ ~Writing(c)'
      BY <1>b, <2>4, <3>1 DEF Writing
    <3> QED
      BY <2>1, <2>4, <3>1, <3>2, FileQuiet
  <2>5. CASE /\ ~damaged /\ damaged' = damaged /\ call[c].linked
             /\ slot' = Overwrite(slot, call[c].value, call[c].pos)
    <3>1. Writing(c)
      BY <2>1, <2>5 DEF Writing
    <3>2. /\ slot = Run(call[c].value, call[c].pos)
          /\ \A d \in Calls : Writing(d) => d = c
      BY <2>5, <3>1 DEF FileInv
    <3>3. call[c].value \in Values /\ call[c].pos \in Nat
      BY <1>0, <2>1, SettingValue DEF Shape, CallRecord
    <3>4. slot' = Run(call[c].value, call[c].pos + 1)
      BY <2>5, <3>2, <3>3, OverwriteRun
    <3>5. CASE /\ call[c].pos + 1 < Size[call[c].value]
               /\ call' = [call EXCEPT ![c].pos = @ + 1]
      <4>1. /\ Others(c) /\ call'[c].at = call[c].at
            /\ call'[c].linked = call[c].linked
            /\ call'[c].value = call[c].value /\ call'[c].pos = call[c].pos + 1
        BY <1>0, <3>5, ChunkEffect DEF Becomes
      <4>2. Writing(c)'
        BY <2>1, <2>5, <4>1 DEF Writing, At
      <4>3. \A d \in Calls : Writing(d)' => d = c
        BY <3>2, <4>1 DEF Others, Writing, At
      <4>4. slot' = Run(call'[c].value, call'[c].pos)
        BY <3>4, <4>1
      <4> QED
        BY <2>2, <4>2, <4>3, <4>4 DEF FileInv
    <3>6. CASE call[c].pos + 1 = Size[call[c].value] /\ Return(c)
      <4>1. Complete(slot')
        BY <3>3, <3>4, <3>6, WholeFacts DEF Complete
      <4>2. Others(c) /\ call'[c] = Idle
        BY <1>0, <3>6, ReturnEffect
      <4>3. \A d \in Calls : ~Writing(d)'
        BY <1>b, <3>2, <4>2 DEF Others, Writing, At
      <4> QED
        BY <4>1, <4>3, FileComplete
    <3>7. CASE damaged' = TRUE
      BY <2>5, <3>7
    <3> QED
      BY <1>8, <3>5, <3>6, <3>7 DEF WriteChunk
  <2>6. CASE damaged /\ damaged' = damaged
    BY <2>2, <2>6 DEF FileInv
  <2> QED
    BY <1>0, <1>8, <2>3, <2>4, <2>5, <2>6 DEF WriteChunk, Shape
<1>9. ASSUME NEW c \in Calls, StartDelete(c)
      PROVE  FileInv'
  <2>1. At(c, "idle") /\ UNCHANGED <<store, slot, damaged>>
    BY <1>9 DEF StartDelete
  <2>2. Others(c) /\ call'[c].at = "remove"
    BY <1>0, <1>9, StartDeleteEffect DEF Becomes
  <2> QED
    BY <2>1, <2>2, FileQuiet DEF Writing, At
<1>10. ASSUME NEW c \in Calls, RemoveEntry(c)
       PROVE  FileInv'
  <2>1. At(c, "remove") /\ UNCHANGED <<store, damaged>>
    BY <1>10 DEF RemoveEntry
  <2>2. CASE slot' = <<>> /\ call' = [CallsUnlinked EXCEPT ![c] = Idle]
    <3>1. \A d \in Calls : ~Writing(d)'
      BY <1>0, <1>b, <2>2, UnlinkedEffect DEF OthersUnlinked, Writing
    <3> QED
      BY <1>a, <2>2, <3>1, FileComplete
  <2>3. CASE Return(c) /\ slot' = slot
    BY <1>0, <1>b, <2>1, <2>3, ReturnEffect, FileQuiet DEF Writing, At
  <2> QED
    BY <1>10, <2>2, <2>3 DEF RemoveEntry, Unlink
<1>11. ASSUME NEW v \in Values, Expire(v)
       PROVE  FileInv'
  BY <1>11 DEF Expire, FileInv, Writing, At
<1>12. CASE Crash
  <2>1. \A d \in Calls : ~Writing(d)'
    BY <1>12 DEF Crash, Writing, At, Idle
  <2>2. CASE slot' = <<>>
    BY <1>a, <2>1, <2>2, FileComplete
  <2>3. CASE /\ UNCHANGED <<store, slot>>
             /\ damaged' = (damaged \/ \E c \in Calls : Writing(c))
    <3>1. ~damaged' => Complete(slot')
      BY <2>3 DEF FileInv
    <3>2. store' # "file" => Complete(slot')
      BY <2>3 DEF FileInv
    <3> QED
      BY <2>1, <3>1, <3>2 DEF FileInv
  <2> QED
    BY <1>12, <2>2, <2>3 DEF Crash
<1>13. CASE UNCHANGED vars
  BY <1>13 DEF vars, FileInv, Writing, At
<1> QED
  BY <1>1, <1>2, <1>3, <1>4, <1>5, <1>6, <1>7, <1>8, <1>9, <1>10, <1>11,
     <1>12, <1>13 DEF Next, Step
-----------------------------------------------------------------------------
(* A value set alone *)

\* Its call is the only change in progress.
LEMMA SoleChange ==
    ASSUME Types, AloneInv, alone # 0, NEW c \in Calls, Setting(c)
    PROVE  /\ call[c].value = alone
           /\ alone \in Values /\ alone \notin ended
           /\ \A d \in Calls \ {c} : ~Changing(d)
<1>1. AloneChanges /\ Changing(c)
  BY DEF AloneInv, Changing, Setting
<1>2. call[c].value = alone
  BY <1>1 DEF AloneChanges
<1>3. \A d \in Calls \ {c} : Setting(d) => call[d].value # alone
  BY <1>2 DEF Types, CallsFit, ValuesDiffer
<1>4. \A d \in Calls \ {c} : ~Changing(d)
  BY <1>1, <1>3 DEF AloneChanges
<1> QED
  BY <1>2, <1>4, SettingValue

\* Steps of a get.
LEMMA AloneAfter ==
    ASSUME Types, AloneInv, NEW c \in Calls, Others(c) \/ OthersUnlinked(c),
           UNCHANGED <<alone, ended, expired>>, ~Changing(c)',
           alone # 0 /\ Past =>
               /\ All(slot', alone)
               /\ call'[c].at = "check" => All(call'[c].read, alone)
               /\ call'[c].at = "sweep" => alone \in expired
               /\ alone \notin expired => Others(c) /\ slot' = slot
    PROVE  AloneInv'
<1> SUFFICES ASSUME alone # 0
             PROVE  AloneChanges' /\ (Past' => AloneRead'
                        /\ (alone \notin expired => AloneStored'))
  BY DEF AloneInv
<1>1. \A d \in Calls \ {c} : SameButName(d)
  BY OthersSame
<1>2. AloneChanges'
  <2>1. AloneChanges
    BY DEF AloneInv
  <2>2. \A d \in Calls \ {c} : /\ Changing(d)' => Changing(d)
                               /\ Setting(d) => Setting(d)'
                               /\ call'[d].value = call[d].value
    BY <1>1 DEF SameButName, Changing, Setting
  <2> QED
    BY <2>1, <2>2 DEF AloneChanges
<1>3. ASSUME Past'
      PROVE  AloneRead' /\ (alone \notin expired => AloneStored')
  <2>1. Past
    BY <1>1, <1>3 DEF Past, At, SameButName, Changing
  <2>2. AloneRead /\ (alone \notin expired => AloneStored)
    BY <2>1 DEF AloneInv
  <2>3. \A d \in Calls : At(d, "check")' => All(call'[d].read, alone)
    BY <1>1, <2>1, <2>2 DEF AloneRead, SameButName, At
  <2>4. \A d \in Calls : At(d, "sweep")' => alone \in expired
    BY <1>1, <2>1, <2>2 DEF AloneRead, SameButName, At
  <2>5. AloneRead'
    BY <2>1, <2>3, <2>4 DEF AloneRead, All
  <2>6. ASSUME alone \notin expired
        PROVE  AloneStored'
    <3>1. Others(c) /\ slot' = slot /\ AloneStored
      BY <2>1, <2>2, <2>6
    <3>2. \A d \in Calls : At(d, "write")' => d # c
      BY DEF At, Changing
    <3>3. \A d \in Calls : At(d, "write")' => call'[d] = call[d] /\ At(d, "write")
      BY <3>1, <3>2 DEF Others, At
    <3>4. \A d \in Calls : At(d, "write")' =>
              call'[d].linked /\ slot' = Run(alone', call'[d].pos)
      BY <3>1, <3>3 DEF AloneStored
    <3>5. alone' \in ended' => slot' = Whole(alone')
      BY <3>1 DEF AloneStored
    <3> QED
      BY <3>4, <3>5 DEF AloneStored
  <2> QED
    BY <2>5, <2>6
<1> QED
  BY <1>2, <1>3

LEMMA InitAlone == Init => AloneInv
BY DEF Init, AloneInv

LEMMA NextAlone == Types /\ AloneInv /\ Types' /\ [Next]_vars => AloneInv'
<1> SUFFICES ASSUME Types, AloneInv, Types', [Next]_vars
             PROVE  AloneInv'
  OBVIOUS
<1>0. Shape
  BY DEF Types
<1>a. ASSUME alone' = 0
      PROVE  AloneInv'
  BY <1>a DEF AloneInv
<1>b. ASSUME NEW c \in Calls, call'[c] = Idle
      PROVE  ~Changing(c)' /\ call'[c].at = "idle"
  BY <1>b DEF Changing, Idle
<1>c. ASSUME alone # 0, Past
      PROVE  AloneRead
  BY <1>c DEF AloneInv
<1>1. ASSUME NEW c \in Calls, StartGet(c)
      PROVE  AloneInv'
  <2>1. UNCHANGED <<slot, alone, ended, expired>>
    BY <1>1 DEF StartGet
  <2>2. Others(c) /\ call'[c].at = "read"
    BY <1>0, <1>1, StartGetEffect DEF Becomes
  <2>3. ~Changing(c)'
    BY <2>2 DEF Changing
  <2> QED
    BY <1>c, <2>1, <2>2, <2>3, AloneAfter DEF AloneRead
<1>2. ASSUME NEW c \in Calls, ReadEntry(c)
      PROVE  AloneInv'
  <2>1. UNCHANGED <<slot, alone, ended, expired>>
    BY <1>2 DEF ReadEntry
  <2>2. PICK chunks \in {slot, <<>>} :
            Others(c) /\ call'[c].at = "check" /\ call'[c].read = chunks
    BY <1>0, <1>2, ReadEntryEffect DEF Becomes
  <2>3. ~Changing(c)'
    BY <2>2 DEF Changing
  <2>4. All(slot, alone) => All(chunks, alone)
    BY <2>2, EmptySlot DEF All
  <2> QED
    BY <1>c, <2>1, <2>2, <2>3, <2>4, AloneAfter DEF AloneRead
<1>3. ASSUME NEW c \in Calls, CheckEntry(c)
      PROVE  AloneInv'
  <2>1. At(c, "check") /\ UNCHANGED <<alone, ended, expired>>
    BY <1>3 DEF CheckEntry
  <2>2. Others(c) /\ (call'[c] = Idle \/ call'[c].at = "sweep")
    <3>1. "sweep" \in Places
      BY DEF Places
    <3> QED
      BY <1>0, <1>3, <3>1, ReturnEffect, MoveEffect DEF CheckEntry, Becomes
  <2>3. ~Changing(c)' /\ call'[c].at # "check"
    BY <2>2 DEF Changing, Idle
  <2>4. ASSUME alone # 0, Past, Expired(call[c].read)
        PROVE  alone \in expired
    <3>1. /\ call[c].read \in Seq(Values) /\ call[c].read # <<>>
          /\ call[c].read[1] \in expired
      BY <1>0, <2>4 DEF Expired, IsWhole, Shape, CallRecord
    <3>2. All(call[c].read, alone)
      BY <1>c, <2>1, <2>4 DEF AloneRead
    <3> QED
      BY <3>1, <3>2 DEF All
  <2>5. \/ slot' = slot /\ call'[c].at = "idle"
        \/ /\ Expired(call[c].read) /\ slot' \in {slot, <<>>}
    BY <1>3, <2>2, <1>0, ReturnEffect DEF CheckEntry, Idle
  <2>6. All(slot, alone) => All(slot', alone)
    BY <2>5, EmptySlot DEF All
  <2>7. ASSUME alone # 0, Past
        PROVE  /\ All(slot', alone)
               /\ call'[c].at = "sweep" => alone \in expired
               /\ alone \notin expired => slot' = slot
    BY <1>c, <2>4, <2>5, <2>6, <2>7 DEF AloneRead
  <2> QED
    BY <2>1, <2>2, <2>3, <2>7, AloneAfter
<1>4. ASSUME NEW c \in Calls, Sweep(c)
      PROVE  AloneInv'
  <2>1. /\ At(c, "sweep") /\ UNCHANGED <<alone, ended, expired>>
        /\ slot' \in {slot, <<>>}
        /\ Return(c) \/ call' = [CallsUnlinked EXCEPT ![c] = Idle]
    BY <1>4 DEF Sweep, Unlink
  <2>2. call'[c] = Idle /\ (Others(c) \/ OthersUnlinked(c))
    BY <1>0, <2>1, ReturnEffect, UnlinkedEffect
  <2>3. ASSUME alone # 0, Past
        PROVE  All(slot', alone) /\ alone \in expired
    <3>1. AloneRead
      BY <1>c, <2>3
    <3>2. alone \in expired /\ All(slot, alone)
      BY <2>1, <3>1 DEF AloneRead
    <3> QED
      BY <2>1, <3>2, EmptySlot DEF All
  <2> QED
    BY <1>b, <2>1, <2>2, <2>3, AloneAfter
<1>5. ASSUME NEW c \in Calls, StartSet(c), alone' # 0
      PROVE  AloneInv'
  <2>1. /\ alone' = sets + 1 /\ \A d \in Calls : ~Changing(d)
        /\ ended' = ended /\ sets' = sets + 1
    BY <1>5 DEF StartSet
  <2>2. /\ Others(c) /\ call'[c].at \in {"open", "put"}
        /\ call'[c].value = sets + 1
    BY <1>0, <1>5, StartSetEffect DEF Becomes
  <2>3. \A d \in Calls \ {c} : ~Changing(d)'
    BY <2>1, <2>2 DEF Others, Changing
  <2>4. AloneChanges'
    BY <2>1, <2>2, <2>3 DEF AloneChanges, Setting
  <2>5. alone' \notin ended'
    BY <1>0, <2>1 DEF Shape
  <2>6. ~Past'
    BY <2>2, <2>3, <2>5 DEF Past, At, Changing
  <2> QED
    BY <2>4, <2>6 DEF AloneInv
<1>6. ASSUME NEW c \in Calls, Put(c), alone' # 0
      PROVE  AloneInv'
  <2>1. /\ At(c, "put") /\ Setting(c) /\ Return(c)
        /\ slot' = Whole(call[c].value)
        /\ alone' = alone /\ \A d \in Calls : ~Holding(d)
    BY <1>6 DEF Put, Fails, Exposed, At, Setting
  <2>2. /\ call[c].value = alone /\ alone \in Values
        /\ \A d \in Calls \ {c} : ~Changing(d)
    BY <1>6, <2>1, SoleChange
  <2>3. Others(c) /\ call'[c] = Idle
    BY <1>0, <2>1, ReturnEffect
  <2>4. \A d \in Calls : ~Changing(d)' /\ ~Holding(d)'
    BY <2>1, <2>2, <2>3 DEF Others, Changing, Holding, Idle
  <2>5. All(slot', alone') /\ slot' = Whole(alone')
    BY <2>1, <2>2, WholeFacts
  <2>6. AloneChanges' /\ AloneRead' /\ AloneStored'
    BY <2>4, <2>5 DEF AloneChanges, AloneRead, AloneStored, All, Changing,
                      Holding, At, Whole
  <2> QED
    BY <2>6 DEF AloneInv
<1>7. ASSUME NEW c \in Calls, OpenFile(c), alone' # 0
      PROVE  AloneInv'
  <2>1. /\ At(c, "open") /\ Setting(c) /\ slot' = <<>> /\ ended' = ended
        /\ call' = [call EXCEPT ![c].at = "write", ![c].linked = TRUE]
        /\ alone' = alone /\ \A d \in Calls : ~Holding(d)
    BY <1>7 DEF OpenFile, Fails, Exposed, At, Setting
  <2>2. /\ call[c].value = alone /\ alone \in Values /\ alone \notin ended
        /\ \A d \in Calls \ {c} : ~Changing(d)
    BY <1>7, <2>1, SoleChange
  <2>3. /\ Others(c) /\ call'[c].at = "write" /\ call'[c].linked
        /\ call'[c].value = alone /\ call'[c].pos = 0
    <3>1. call[c].pos = 0
      BY <2>1 DEF Types, CallsFit, CallFits, At
    <3> QED
      BY <1>0, <2>1, <2>2, <3>1, OpenEffect DEF Becomes
  <2>4. \A d \in Calls : ~Holding(d)' /\ (d # c => ~Changing(d)')
    BY <2>1, <2>2, <2>3 DEF Others, Changing, Holding
  <2>5. slot' = Run(alone', 0) /\ All(slot', alone')
    BY <2>1, <2>2, RunEmpty, EmptySlot DEF All
  <2>6. AloneChanges'
    BY <2>1, <2>3, <2>4 DEF AloneChanges, Setting
  <2>7. AloneRead'
    BY <2>4, <2>5 DEF AloneRead, Holding, At, All
  <2>8. AloneStored'
    BY <2>1, <2>2, <2>3, <2>4, <2>5 DEF AloneStored, Changing, At, Run
  <2> QED
    BY <2>6, <2>7, <2>8 DEF AloneInv
<1>8. ASSUME NEW c \in Calls, WriteChunk(c), alone' # 0
      PROVE  AloneInv'
  <2>1. /\ At(c, "write") /\ Setting(c) /\ alone' = alone /\ expired' = expired
        /\ slot' = IF call[c].linked
                   THEN Overwrite(slot, call[c].value, call[c].pos) ELSE slot
    BY <1>8 DEF WriteChunk, Fails, At, Setting
  <2>2. /\ call[c].value = alone /\ alone \in Values /\ alone \notin ended
        /\ \A d \in Calls \ {c} : ~Changing(d)
    BY <1>8, <2>1, SoleChange
  <2>3. AloneRead /\ (alone \notin expired => AloneStored)
    BY <1>8, <2>1 DEF AloneInv, Past
  <2>4. slot \in Seq(Values) /\ call[c].pos \in Nat
    BY <1>0 DEF Shape, CallRecord
  <2>5. All(slot', alone)
    <3>1. CASE slot' = slot
      BY <2>3, <3>1 DEF AloneRead
    <3>2. CASE slot' = Overwrite(slot, alone, call[c].pos)
      BY <2>2, <2>3, <2>4, <3>2, OverwriteFacts DEF AloneRead, All
    <3> QED
      BY <2>1, <2>2, <3>1, <3>2
  <2>6. ASSUME alone \notin expired
        PROVE  call[c].linked /\ slot' = Run(alone, call[c].pos + 1)
    <3>1. call[c].linked /\ slot = Run(alone, call[c].pos)
      BY <2>1, <2>3, <2>6 DEF AloneStored
    <3> QED
      BY <2>1, <2>2, <2>4, <3>1, OverwriteRun
  <2>7. CASE /\ call[c].pos + 1 < Size[call[c].value] /\ ended' = ended
             /\ call' = [call EXCEPT ![c].pos = @ + 1]
    <3>1. /\ Others(c) /\ call'[c].at = "write" /\ call'[c].value = alone
          /\ call'[c].linked = call[c].linked /\ call'[c].pos = call[c].pos + 1
      BY <1>0, <2>1, <2>2, <2>7, ChunkEffect DEF Becomes, At
    <3>2. \A d \in Calls \ {c} : ~Changing(d)' /\ call'[d] = call[d]
      BY <2>2, <3>1 DEF Others, Changing
    <3>3. AloneChanges'
      BY <2>1, <3>1, <3>2 DEF AloneChanges, Setting
    <3>4. AloneRead'
      BY <2>1, <2>3, <2>5, <3>1, <3>2 DEF AloneRead, At, All
    <3>5. ASSUME alone \notin expired
          PROVE  AloneStored'
      <4>1. call[c].linked /\ slot' = Run(alone, call[c].pos + 1)
        BY <2>6, <3>5
      <4>2. \A d \in Calls : At(d, "write")' => d = c
        BY <3>2 DEF At, Changing
      <4>3. alone \notin ended'
        BY <2>2, <2>7
      <4> QED
        BY <2>1, <3>1, <4>1, <4>2, <4>3 DEF AloneStored
    <3> QED
      BY <2>1, <3>3, <3>4, <3>5 DEF AloneInv
  <2>8. CASE call[c].pos + 1 = Size[call[c].value] /\ Return(c)
    <3>1. Others(c) /\ call'[c] = Idle
      BY <1>0, <2>8, ReturnEffect
    <3>2. \A d \in Calls : ~Changing(d)'
      BY <1>b, <2>2, <3>1 DEF Others, Changing
    <3>3. \A d \in Calls : call'[d] = call[d] \/ call'[d].at = "idle"
      BY <1>b, <3>1 DEF Others
    <3>4. AloneRead'
      BY <2>1, <2>3, <2>5, <3>3 DEF AloneRead, At, All
    <3>5. ASSUME alone \notin expired
          PROVE  AloneStored'
      <4>1. slot' = Whole(alone)
        BY <2>2, <2>6, <2>8, <3>5, WholeFacts
      <4> QED
        BY <2>1, <3>2, <4>1 DEF AloneStored, At, Changing, Whole
    <3>6. AloneChanges'
      BY <3>2 DEF AloneChanges
    <3> QED
      BY <2>1, <3>4, <3>5, <3>6 DEF AloneInv
  <2> QED
    BY <1>8, <2>7, <2>8 DEF WriteChunk, Fails
<1>9. ASSUME NEW c \in Calls, StartDelete(c)
      PROVE  AloneInv'
  BY <1>9, <1>a DEF StartDelete
<1>10. ASSUME NEW c \in Calls, RemoveEntry(c)
       PROVE  AloneInv'
  <2>1. At(c, "remove") /\ alone' = alone
    BY <1>10 DEF RemoveEntry
  <2>2. alone # 0 => AloneChanges
    BY DEF AloneInv
  <2>3. alone = 0
    BY <2>1, <2>2 DEF AloneChanges, Changing, Setting, At
  <2> QED
    BY <1>a, <2>1, <2>3
<1>11. ASSUME NEW v \in Values, Expire(v)
       PROVE  AloneInv'
  <2>1. UNCHANGED <<slot, call, ended, alone>> /\ expired \subseteq expired'
    BY <1>11 DEF Expire
  <2>2. AloneChanges => AloneChanges'
    BY <2>1 DEF AloneChanges, Changing, Setting
  <2>3. Past' => Past
    BY <2>1 DEF Past, At
  <2>4. AloneRead => AloneRead'
    BY <2>1 DEF AloneRead, All, At
  <2>5. AloneStored => AloneStored'
    BY <2>1 DEF AloneStored, At, Run, Whole
  <2> QED
    BY <2>1, <2>2, <2>3, <2>4, <2>5 DEF AloneInv
<1>12. CASE Crash
  <2>1. CASE alone' = alone /\ slot' = slot /\ alone # 0
    <3>1. /\ \A d \in Calls : call'[d].at = "idle"
          /\ ended' = ended /\ expired' = expired
      BY <1>12 DEF Crash, Idle
    <3>2. AloneChanges'
      BY <3>1 DEF AloneChanges, Changing
    <3>3. ASSUME Past'
          PROVE  AloneRead' /\ (alone \notin expired => AloneStored')
      <4>1. Past /\ alone \in ended
        BY <2>1, <3>1, <3>3 DEF Past, At
      <4>2. AloneRead /\ (alone \notin expired => AloneStored)
        BY <2>1, <4>1 DEF AloneInv
      <4> QED
        BY <2>1, <3>1, <4>2 DEF AloneRead, AloneStored, At, All, Whole
    <3> QED
      BY <2>1, <3>1, <3>2, <3>3 DEF AloneInv
  <2> QED
    BY <1>12, <1>a, <2>1 DEF Crash
<1>13. CASE UNCHANGED vars
  <2>1. UNCHANGED <<slot, call, ended, expired, alone>>
    BY <1>13 DEF vars
  <2> QED
    BY <2>1 DEF AloneInv, AloneChanges, Changing, Setting, Past, AloneRead,
                AloneStored, All, At, Run, Whole
<1> QED
  BY <1>1, <1>2, <1>3, <1>4, <1>a, <1>5, <1>6, <1>7, <1>8, <1>9, <1>10,
     <1>11, <1>12, <1>13 DEF Next, Step
-----------------------------------------------------------------------------
(* The theorems *)

CacheInv == Types /\ FreshInv /\ FileInv /\ AloneInv

LEMMA CacheInvHolds == Spec => []CacheInv
<1>1. Init => CacheInv
  BY InitTypes, InitFresh, InitFile, InitAlone DEF CacheInv
<1>2. CacheInv /\ [Next]_vars => CacheInv'
  BY NextTypes, NextFresh, NextFile, NextAlone DEF CacheInv
<1> QED
  BY <1>1, <1>2, PTL DEF Spec

\* The entry, the calls in progress and the histories keep their types; a set
\* never writes past the end of its value (CacheManager, FsCacheAdapter.set).
THEOREM TypeCorrect == Spec => []TypeOK
<1>1. CacheInv => TypeOK
  <2> SUFFICES ASSUME Types
               PROVE  TypeOK
    BY DEF CacheInv
  <2>1. Shape /\ \A c \in Calls : CallFits(c)
    BY DEF Types, CallsFit
  <2>2. \A c \in Calls : /\ call[c].at \in Places /\ call[c].read \in Seq(Values)
                         /\ call[c].value \in 0 .. sets
                         /\ call[c].over \subseteq 1 .. sets
                         /\ call[c].at = "write" =>
                                call[c].pos < Size[call[c].value]
    BY <2>1 DEF Shape, CallFits, CallRecord
  <2> QED
    BY <2>1, <2>2 DEF Shape, TypeOK
<1> QED
  BY <1>1, CacheInvHolds, PTL

\* No get returns a value that was replaced before it was called
\* (CacheManager.get over any adapter).
THEOREM NothingStale == Spec => []NeverStale
<1>1. CacheInv => NeverStale
  <2> SUFFICES ASSUME CacheInv, NEW c \in Calls, At(c, "check"),
                      IsWhole(call[c].read)
               PROVE  call[c].read[1] \notin call[c].over
    BY DEF NeverStale
  <2>1. call[c].read \in Seq(Values) /\ call[c].read # <<>>
    BY DEF CacheInv, Types, Shape, CallRecord, IsWhole
  <2>2. Free(call[c].read, call[c].over)
    BY DEF CacheInv, FreshInv, CallFresh, At
  <2> QED
    BY <2>1, <2>2 DEF Free
<1> QED
  BY <1>1, CacheInvHolds, PTL

\* A value set without another change around it, and without a get that held an
\* older entry, stays until it expires (the delete that get does not await).
THEOREM SetAloneStays == Spec => []FreshKept
<1>1. CacheInv => FreshKept
  <2> SUFFICES ASSUME CacheInv, alone \in ended \ expired
               PROVE  slot = Whole(alone)
    BY DEF FreshKept
  <2>1. alone # 0
    BY DEF CacheInv, Types, Shape
  <2>2. AloneStored
    BY <2>1 DEF CacheInv, AloneInv, Past
  <2> QED
    BY <2>2 DEF AloneStored
<1> QED
  BY <1>1, CacheInvHolds, PTL

\* Only a file is ever torn, and only by a write in progress or by one that
\* overlapped another, failed or was cut short (FsCacheAdapter.set).
THEOREM TornOnlyByWrites == Spec => []TornHasCause
<1>1. CacheInv => TornHasCause
  BY DEF CacheInv, FileInv, Complete, Torn, TornHasCause
<1> QED
  BY <1>1, CacheInvHolds, PTL
=============================================================================
