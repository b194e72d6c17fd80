-------------------------- MODULE VoiceManager_proof --------------------------
(***************************************************************************)
(* The flag of the voice manager, for any number of users, utterances and  *)
(* callbacks in progress.                                                  *)
(***************************************************************************)
EXTENDS VoiceManager, FiniteSetTheorems, TLAPS

-----------------------------------------------------------------------------
(* Types *)

LEMMA InitTypeOK == Init => TypeOK
<1> SUFFICES ASSUME Init PROVE TypeOK
  OBVIOUS
<1>1. None \in [at : {"none", "transcribe", "answer"}, audio : SUBSET Utterances]
  BY DEF None
<1>2. handling \in [Handlings -> [at : {"none", "transcribe", "answer"},
                                 audio : SUBSET Utterances]]
  BY <1>1 DEF Init
<1>3. \A h \in Handlings : handling[h].at = "none" /\ handling[h].audio = {}
  BY DEF Init, None
<1>4. said \in 0 .. MaxSaid /\ monitor \in [Users -> Utterances \union {0}]
  BY VoiceAssumption DEF Init
<1>5. buffers \in [Users -> SUBSET Utterances]
  BY DEF Init
<1>6. \A h \in Handlings : handling[h].at = "none" <=> handling[h].audio = {}
  BY <1>3
<1>7. /\ speaking = {} /\ streams = {} /\ monitor = [u \in Users |-> 0]
      /\ timer = Nobody /\ processing = FALSE /\ player = "none"
      /\ heard = {} /\ drowned = {} /\ interrupted = FALSE
  BY DEF Init
<1> QED
  BY <1>2, <1>4, <1>5, <1>6, <1>7 DEF TypeOK

LEMMA DeliverType ==
    ASSUME TypeOK, NEW u \in Users, monitor[u] # 0, Deliver(u)
    PROVE  /\ player' \in {"none", "playing", "idle"}
           /\ buffers' \in [Users -> SUBSET Utterances]
           /\ timer' \in Users \union {Nobody}
           /\ drowned' \subseteq Utterances
<1>1. monitor[u] \in Utterances
  BY DEF TypeOK
<1>2. Waiting(Users \ {u}) \subseteq Utterances
  BY DEF TypeOK, Waiting
<1> QED
  BY <1>1, <1>2 DEF TypeOK, Deliver

LEMMA NextTypeOK == TypeOK /\ [Next]_vars => TypeOK'
<1> SUFFICES ASSUME TypeOK, [Next]_vars PROVE TypeOK'
  OBVIOUS
<1> USE VoiceAssumption DEF TypeOK
<1>w. \A users \in SUBSET Users : Waiting(users) \subseteq Utterances
  BY DEF Waiting
<1>1. ASSUME NEW u \in Users, StartSpeaking(u) PROVE TypeOK'
  <2>1. Waiting(Users \ {u}) \subseteq Utterances
    BY <1>w
  <2> QED
    BY <1>1, <2>1 DEF StartSpeaking
<1>11. ASSUME NEW u \in Users, Audio(u) PROVE TypeOK'
  <2>1. said + 1 \in Utterances /\ said + 1 \in 0 .. MaxSaid
    BY <1>11 DEF Audio, Utterances
  <2> QED
    BY <1>11, <2>1 DEF Audio
<1>2. ASSUME NEW u \in Users, StopSpeaking(u) PROVE TypeOK'
  <2>1. CASE monitor[u] # 0 /\ Deliver(u)
    BY <1>2, <2>1, DeliverType DEF StopSpeaking
  <2>2. CASE /\ UNCHANGED <<buffers, timer, player>>
             /\ drowned' = IF timer = u THEN drowned ELSE drowned \union buffers[u]
    BY <1>2, <2>2 DEF StopSpeaking
  <2> QED
    BY <1>2, <2>1, <2>2 DEF StopSpeaking
<1>3. ASSUME NEW u \in Users, EndStream(u) PROVE TypeOK'
  <2>1. monitor[u] # 0 /\ Deliver(u)
    BY <1>3 DEF EndStream
  <2> QED
    BY <1>3, <2>1, DeliverType DEF EndStream
<1>12. ASSUME NEW u \in Users, StreamFails(u) PROVE TypeOK'
  BY <1>12 DEF StreamFails
<1>4. ASSUME NEW u \in Users, Interrupt(u) PROVE TypeOK'
  BY <1>4 DEF Interrupt
<1>5. CASE PlaybackEnds
  BY <1>5 DEF PlaybackEnds
<1>6. ASSUME NEW h \in Handlings, Fire(h) PROVE TypeOK'
  <2>1. timer \in Users
    BY <1>6 DEF Fire
  <2>2. buffers[timer] \subseteq Utterances /\ Waiting(Users) \subseteq Utterances
    BY <2>1, <1>w
  <2>3. CASE buffers[timer] # {}
    <3>1. /\ handling' = [handling EXCEPT ![h] =
                             [at |-> "transcribe", audio |-> buffers[timer]]]
          /\ heard' = heard \union buffers[timer]
          /\ buffers' = [buffers EXCEPT ![timer] = {}]
          /\ processing' = TRUE /\ timer' = Nobody
          /\ UNCHANGED <<said, speaking, streams, monitor, player, drowned, interrupted>>
      BY <1>6, <2>3 DEF Fire
    <3>2. /\ handling' \in [Handlings -> [at : {"none", "transcribe", "answer"},
                                         audio : SUBSET Utterances]]
          /\ \A g \in Handlings : handling'[g].at = "none" <=> handling'[g].audio = {}
      BY <2>2, <2>3, <3>1
    <3>3. heard' \subseteq Utterances /\ buffers' \in [Users -> SUBSET Utterances]
      BY <2>2, <3>1
    <3> QED
      BY <3>1, <3>2, <3>3
  <2>4. CASE buffers[timer] = {}
    BY <1>6, <2>2, <2>4 DEF Fire, CleanUp
  <2> QED
    BY <2>3, <2>4
<1>7. ASSUME NEW h \in Handlings, Transcribed(h) PROVE TypeOK'
  BY <1>7 DEF Transcribed, None
<1>8. ASSUME NEW h \in Handlings, Play(h) PROVE TypeOK'
  BY <1>8 DEF Play
<1>9. ASSUME NEW h \in Handlings, EndHandling(h) PROVE TypeOK'
  BY <1>9, <1>w DEF EndHandling, CleanUp, None
<1>10. CASE UNCHANGED vars
  BY <1>10 DEF vars
<1> QED
  BY <1>1, <1>2, <1>3, <1>4, <1>5, <1>6, <1>7, <1>8, <1>9, <1>10, <1>11, <1>12
  DEF Next

\* Every variable keeps its type: only a callback whose audio was taken from
\* buffers that were not empty is ever in progress.
THEOREM TypeCorrect == Spec => []TypeOK
  BY InitTypeOK, NextTypeOK, PTL DEF Spec

-----------------------------------------------------------------------------
(* The flag *)

(***************************************************************************)
(* A timer is only set with the flag down, and until an answer is          *)
(* interrupted the flag is up exactly while the one callback runs.         *)
(***************************************************************************)
FlagInv ==
    /\ timer # Nobody => ~processing
    /\ processing => InProgress # {}
    /\ \/ interrupted
       \/ processing /\ \E h \in Handlings : InProgress = {h}
       \/ ~processing /\ InProgress = {}

LEMMA NextFlagInv == TypeOK /\ FlagInv /\ [Next]_vars => FlagInv'
<1> SUFFICES ASSUME TypeOK, FlagInv, [Next]_vars PROVE FlagInv'
  OBVIOUS
<1> USE DEF FlagInv
<1>1. ASSUME NEW u \in Users, StartSpeaking(u) PROVE FlagInv'
  BY <1>1 DEF StartSpeaking, InProgress
<1>2. ASSUME NEW u \in Users, StopSpeaking(u) PROVE FlagInv'
  BY <1>2 DEF StopSpeaking, Deliver, InProgress
<1>3. ASSUME NEW u \in Users, EndStream(u) PROVE FlagInv'
  BY <1>3 DEF EndStream, Deliver, InProgress
<1>11. ASSUME NEW u \in Users, Audio(u) PROVE FlagInv'
  BY <1>11 DEF Audio, InProgress
<1>12. ASSUME NEW u \in Users, StreamFails(u) PROVE FlagInv'
  BY <1>12 DEF StreamFails, InProgress
<1>4. ASSUME NEW u \in Users, Interrupt(u) PROVE FlagInv'
  BY <1>4 DEF Interrupt, InProgress
<1>5. CASE PlaybackEnds
  BY <1>5 DEF PlaybackEnds, InProgress
<1>6. ASSUME NEW h \in Handlings, Fire(h) PROVE FlagInv'
  <2>1. ~processing /\ timer' = Nobody /\ interrupted' = interrupted
    BY <1>6 DEF Fire
  <2>2. CASE buffers[timer] # {}
    <3>1. processing' /\ InProgress' = InProgress \union {h}
      <4>1. [at |-> "transcribe", audio |-> buffers[timer]] # None
        BY DEF None
      <4> QED
        BY <1>6, <2>2, <4>1 DEF Fire, InProgress, TypeOK
    <3> QED
      BY <2>1, <3>1
  <2>3. CASE buffers[timer] = {}
    BY <1>6, <2>1, <2>3 DEF Fire, CleanUp, InProgress
  <2> QED
    BY <2>2, <2>3
<1>7. ASSUME NEW h \in Handlings, Transcribed(h) PROVE FlagInv'
  <2>1. InProgress' = InProgress
    BY <1>7 DEF Transcribed, InProgress, None, TypeOK
  <2> QED
    BY <1>7, <2>1 DEF Transcribed
<1>8. ASSUME NEW h \in Handlings, Play(h) PROVE FlagInv'
  BY <1>8 DEF Play, InProgress
<1>9. ASSUME NEW h \in Handlings, EndHandling(h) PROVE FlagInv'
  <2>1. InProgress' = InProgress \ {h} /\ h \in InProgress
    BY <1>9 DEF EndHandling, InProgress, TypeOK
  <2> QED
    BY <1>9, <2>1 DEF EndHandling, CleanUp
<1>10. CASE UNCHANGED vars
  BY <1>10 DEF vars, InProgress
<1> QED
  BY <1>1, <1>2, <1>3, <1>4, <1>5, <1>6, <1>7, <1>8, <1>9, <1>10, <1>11, <1>12
  DEF Next

\* The flag never stays up without a callback, and as long as no answer is
\* interrupted one utterance is handled at a time.
THEOREM FlagIsTrue == Spec => []FlagTells
<1>1. Init => FlagInv
  BY DEF Init, FlagInv, InProgress
<1>2. FlagInv => FlagTells
  BY FS_EmptySet, FS_Singleton DEF FlagInv, FlagTells
<1> QED
  BY <1>1, <1>2, InitTypeOK, NextTypeOK, NextFlagInv, PTL DEF Spec

-----------------------------------------------------------------------------
(* What waits in the buffers *)

Told == heard \union drowned

\* An utterance that nobody has taken and nobody spoke over waits for a timer of
\* its user, or for its user to stop speaking, which starts one (processBuffer)
\* or, with nothing recorded, leaves it without one (voice.ts:96), a mishap that
\* drowned records. With setTimeout calling back, this is why HeardOrDrowned holds.
NoneUnattended ==
    \A u \in Users : \A m \in buffers[u] :
        m \in Told \/ timer = u \/ u \in speaking

\* Nothing goes from the buffers without being taken to be transcribed, talked
\* over or given up, although each callback that ends cleans all users' buffers.
NoneLostUntold ==
    [][\A u \in Users : \A m \in buffers[u] :
          m \in Waiting(Users)' \union Told']_vars

(***************************************************************************)
(* One timer serves all users: whoever it is not for has been talked over, *)
(* and so has everybody when it has called back and the flag is up.        *)
(***************************************************************************)
WaitInv ==
    /\ timer # Nobody => \A v \in Users \ {timer} : buffers[v] \subseteq Told
    /\ processing => \A v \in Users : buffers[v] \subseteq Told
    /\ NoneUnattended

\* What StopSpeaking and EndStream share.
LEMMA DeliverWaitInv ==
    ASSUME TypeOK, WaitInv, NEW u \in Users, Deliver(u), heard' = heard,
           processing' = processing, speaking \ {u} \subseteq speaking'
    PROVE  /\ WaitInv'
           /\ \A v \in Users : \A m \in buffers[v] : m \in Waiting(Users)' \union Told'
<1>1. Told \subseteq Told' /\ u # Nobody /\ buffers \in [Users -> SUBSET Utterances]
  BY VoiceAssumption DEF Told, Deliver, TypeOK
<1>2. CASE player' # "none" \/ processing
  <2>1. buffers' = [buffers EXCEPT ![u] = {}] /\ timer' = timer
        /\ drowned' = drowned \union (buffers[u] \union {monitor[u]})
    BY <1>2 DEF Deliver
  <2>2. /\ buffers[u] \subseteq Told' /\ buffers'[u] = {}
        /\ \A v \in Users \ {u} : buffers'[v] = buffers[v]
    BY <1>1, <2>1 DEF Told
  <2>3. WaitInv'
    BY <1>1, <2>1, <2>2 DEF WaitInv, NoneUnattended
  <2> QED
    BY <1>1, <2>2, <2>3 DEF Waiting
<1>3. CASE ~(player' # "none" \/ processing)
  <2>1. buffers' = [buffers EXCEPT ![u] = @ \union {monitor[u]}] /\ timer' = u
        /\ drowned' = drowned \union Waiting(Users \ {u})
    BY <1>3 DEF Deliver
  <2>2. /\ buffers[u] \subseteq buffers'[u]
        /\ \A v \in Users \ {u} : buffers'[v] = buffers[v] /\ buffers[v] \subseteq Told'
    BY <1>1, <2>1 DEF Told, Waiting
  <2>3. WaitInv'
    BY <1>1, <1>3, <2>1, <2>2 DEF WaitInv, NoneUnattended
  <2> QED
    BY <1>1, <2>2, <2>3 DEF Waiting
<1> QED
  BY <1>2, <1>3

LEMMA NextWaitInv ==
    ASSUME TypeOK, FlagInv, WaitInv, [Next]_vars
    PROVE  /\ WaitInv'
           /\ \A v \in Users : \A m \in buffers[v] : m \in Waiting(Users)' \union Told'
<1>0. /\ Nobody \notin Users /\ buffers \in [Users -> SUBSET Utterances]
      /\ \A v \in Users : buffers[v] \subseteq Waiting(Users)
  BY VoiceAssumption DEF TypeOK, Waiting
<1>a. ASSUME UNCHANGED <<buffers, heard, drowned>>
      PROVE  \A v \in Users : \A m \in buffers[v] : m \in Waiting(Users)' \union Told'
  BY <1>a DEF Waiting
<1>1. ASSUME NEW u \in Users, StartSpeaking(u)
      PROVE  WaitInv' /\ UNCHANGED <<buffers, heard>> /\ Told \subseteq Told'
  <2>1. /\ speaking' = speaking \union {u}
        /\ UNCHANGED <<buffers, heard, processing>>
    BY <1>1 DEF StartSpeaking
  <2>2. CASE timer' = Nobody /\ drowned' = drowned \union Waiting(Users \ {u})
    <3>1. /\ Told \subseteq Told'
          /\ \A v \in Users \ {u} : buffers[v] \subseteq Told'
      BY <2>1, <2>2 DEF Told, Waiting
    <3> QED
      BY <2>1, <2>2, <3>1 DEF WaitInv, NoneUnattended
  <2>3. CASE UNCHANGED <<timer, drowned>>
    BY <2>1, <2>3 DEF WaitInv, NoneUnattended, Told
  <2> QED
    BY <1>1, <2>2, <2>3 DEF StartSpeaking
<1>2. ASSUME NEW u \in Users, StopSpeaking(u) \/ EndStream(u)
      PROVE  /\ WaitInv'
             /\ \A v \in Users : \A m \in buffers[v] : m \in Waiting(Users)' \union Told'
  <2>1. UNCHANGED <<heard, processing>> /\ speaking \ {u} \subseteq speaking'
    BY <1>2 DEF StopSpeaking, EndStream
  <2>2. CASE Deliver(u)
    BY <2>1, <2>2, DeliverWaitInv
  <2>3. CASE /\ UNCHANGED <<buffers, timer>>
             /\ drowned' = IF timer = u THEN drowned ELSE drowned \union buffers[u]
    <3>1. /\ Told \subseteq Told'
          /\ timer = u \/ buffers[u] \subseteq Told'
      BY <2>1, <2>3 DEF Told
    <3>2. WaitInv'
      BY <2>1, <2>3, <3>1 DEF WaitInv, NoneUnattended
    <3> QED
      BY <1>0, <2>3, <3>2 DEF Waiting
  <2> QED
    BY <1>2, <2>2, <2>3 DEF StopSpeaking, EndStream
<1>10. ASSUME NEW u \in Users, Audio(u) \/ StreamFails(u)
      PROVE  WaitInv' /\ UNCHANGED <<buffers, heard, drowned>>
  BY <1>10 DEF Audio, StreamFails, WaitInv, NoneUnattended, Told
<1>3. ASSUME NEW u \in Users, Interrupt(u)
      PROVE  WaitInv' /\ UNCHANGED <<buffers, heard, drowned>>
  BY <1>3 DEF Interrupt, WaitInv, NoneUnattended, Told
<1>4. CASE PlaybackEnds
  BY <1>4, <1>a DEF PlaybackEnds, WaitInv, NoneUnattended, Told
<1>5. ASSUME NEW h \in Handlings, Fire(h)
      PROVE  /\ WaitInv'
             /\ \A v \in Users : \A m \in buffers[v] : m \in Waiting(Users)' \union Told'
  <2>1. /\ timer \in Users /\ timer' = Nobody /\ speaking' = speaking
        /\ \A v \in Users \ {timer} : buffers[v] \subseteq Told
    BY <1>5 DEF Fire, TypeOK, WaitInv
  <2>2. CASE buffers[timer] # {}
    <3>1. /\ buffers' = [buffers EXCEPT ![timer] = {}]
          /\ heard' = heard \union buffers[timer] /\ drowned' = drowned
      BY <1>5, <2>2 DEF Fire
    <3>2. /\ Told \subseteq Told' /\ buffers[timer] \subseteq Told'
          /\ buffers'[timer] = {}
          /\ \A v \in Users \ {timer} : buffers'[v] = buffers[v]
      BY <1>0, <2>1, <3>1 DEF Told
    <3>3. \A v \in Users : buffers'[v] \subseteq Told' /\ buffers[v] \subseteq Told'
      BY <2>1, <3>2
    <3> QED
      BY <2>1, <3>3 DEF WaitInv, NoneUnattended
  <2>3. CASE buffers[timer] = {}
    <3>1. /\ \A v \in Users : buffers'[v] = {} /\ buffers[v] \subseteq Told
          /\ heard' = heard /\ drowned \subseteq drowned'
      BY <1>5, <2>1, <2>3 DEF Fire, CleanUp
    <3> QED
      BY <2>1, <3>1 DEF WaitInv, NoneUnattended, Told
  <2> QED
    BY <2>2, <2>3
<1>6. ASSUME NEW h \in Handlings, Transcribed(h) \/ Play(h)
      PROVE  WaitInv' /\ UNCHANGED <<buffers, heard, drowned>>
  BY <1>6 DEF Transcribed, Play, WaitInv, NoneUnattended, Told
<1>7. ASSUME NEW h \in Handlings, EndHandling(h)
      PROVE  /\ WaitInv'
             /\ \A v \in Users : \A m \in buffers[v] : m \in Waiting(Users)' \union Told'
  <2>1. /\ h \in InProgress /\ ~processing' /\ \A v \in Users : buffers'[v] = {}
        /\ UNCHANGED <<speaking, timer, heard>>
        /\ drowned' = IF interrupted THEN drowned \union Waiting(Users) ELSE drowned
    BY <1>7 DEF EndHandling, CleanUp
  <2>2. \A v \in Users : buffers[v] \subseteq Told'
    <3>1. CASE interrupted
      BY <1>0, <2>1, <3>1 DEF Told
    <3>2. CASE ~interrupted
      BY <2>1, <3>2 DEF FlagInv, WaitInv, Told
    <3> QED
      BY <3>1, <3>2
  <2> QED
    BY <2>1, <2>2 DEF WaitInv, NoneUnattended
<1>8. CASE UNCHANGED vars
  BY <1>8, <1>a DEF vars, WaitInv, NoneUnattended, Told
<1>9. ASSUME NEW u \in Users, StartSpeaking(u)
      PROVE  \A v \in Users : \A m \in buffers[v] : m \in Waiting(Users)' \union Told'
  BY <1>0, <1>1, <1>9 DEF Waiting
<1> QED
  BY <1>1, <1>2, <1>3, <1>4, <1>5, <1>6, <1>7, <1>8, <1>9, <1>10, <1>a DEF Next

LEMMA WaitInvHolds == Spec => [](TypeOK /\ FlagInv /\ WaitInv)
<1>1. Init => FlagInv /\ WaitInv
  BY DEF Init, FlagInv, InProgress, WaitInv, NoneUnattended
<1>2. TypeOK /\ FlagInv /\ WaitInv /\ [Next]_vars => WaitInv'
  BY NextWaitInv
<1> QED
  BY <1>1, <1>2, InitTypeOK, NextTypeOK, NextFlagInv, PTL DEF Spec

\* No utterance is left behind: until it is taken, talked over, or given up by a
\* start and stop of its user with nothing recorded, the timer is set for its user
\* or the user is speaking (debouncedProcessTranscription).
THEOREM TimerForAll == Spec => []NoneUnattended
<1>1. WaitInv => NoneUnattended
  BY DEF WaitInv
<1> QED
  BY <1>1, WaitInvHolds, PTL

\* Cleaning everybody's buffers loses only what is drowned already: with the flag up,
\* or the timer for somebody whose buffers are empty, nothing else is left in
\* them, unless an answer was interrupted (the end of the callback).
THEOREM CleaningIsHarmless == Spec => NoneLostUntold
<1>1. TypeOK /\ FlagInv /\ WaitInv /\ [Next]_vars =>
         [\A u \in Users : \A m \in buffers[u] :
             m \in Waiting(Users)' \union Told']_vars
  BY NextWaitInv
<1> QED
  BY <1>1, WaitInvHolds, PTL DEF Spec, NoneLostUntold
=============================================================================
