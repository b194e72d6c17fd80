----------------------------- MODULE VoiceManager -----------------------------
(***************************************************************************)
(* The agent in a Discord voice channel (client-discord/src/voice.ts).     *)
(* What a user says goes from a decoder to the user's AudioMonitor, when   *)
(* the user stops to the user's buffers, and after a silence a timer has   *)
(* it transcribed and answered.  The decoder may be missing or fail.  One  *)
(* timer, one flag processingVoice and one player serve all users.         *)
(***************************************************************************)
EXTENDS Naturals, FiniteSets

CONSTANTS Users,        \* users in the channel
          MaxSaid,      \* bound: utterances in a behaviour
          Handlings,    \* bound: timer callbacks in progress at a time; with all
                  \* in progress nobody interrupts
          Nobody        \* not a user

ASSUME VoiceAssumption == MaxSaid \in Nat /\ Nobody \notin Users

VARIABLES
    said,         \* utterances so far: 1 .. said
    speaking,     \* users speaking, as the library reports it
    streams,      \* users with a decoder and an AudioMonitor that listens to it
    monitor,      \* the utterance flagged in each user's, 0 when nothing is
    buffers,      \* utterances in the buffers of each user
    timer,        \* whose audio transcriptionTimeout is for
    processing,   \* processingVoice
    player,       \* activeAudioPlayer: "none", "playing" or "idle"
    handling,     \* the timer callbacks in progress
    heard,        \* history: utterances taken to be transcribed
    drowned,      \* history: utterances that came when the agent was busy, or that
                  \* waited when another user spoke, when their own spoke again
                  \* unrecorded, or when the callback of an interrupted answer ended
    interrupted   \* history: an answer was interrupted, and callbacks have been
                  \* in progress ever since

vars == <<said, speaking, streams, monitor, buffers, timer, processing, player,
          handling, heard, drowned, interrupted>>

Utterances == 1 .. MaxSaid
None == [at |-> "none", audio |-> {}]

TypeOK ==
    /\ said \in 0 .. MaxSaid
    /\ speaking \subseteq Users
    /\ streams \subseteq Users
    /\ monitor \in [Users -> Utterances \union {0}]
    /\ \A u \in Users \ streams : monitor[u] = 0
    /\ buffers \in [Users -> SUBSET Utterances]
    /\ timer \in Users \union {Nobody}
    /\ processing \in BOOLEAN
    /\ player \in {"none", "playing", "idle"}
    /\ handling \in [Handlings -> [at : {"none", "transcribe", "answer"},
                                  audio : SUBSET Utterances]]
    /\ \A h \in Handlings : handling[h].at = "none" <=> handling[h].audio = {}
    /\ heard \subseteq Utterances
    /\ drowned \subseteq Utterances
    /\ interrupted \in BOOLEAN

Init ==
    /\ said = 0
    /\ speaking = {}
    /\ streams = {}
    /\ monitor = [u \in Users |-> 0]
    /\ buffers = [u \in Users |-> {}]
    /\ timer = Nobody
    /\ processing = FALSE
    /\ player = "none"
    /\ handling = [h \in Handlings |-> None]
    /\ heard = {}
    /\ drowned = {}
    /\ interrupted = FALSE

InProgress == {h \in Handlings : handling[h] # None}
Waiting(users) == UNION {buffers[u] : u \in users}

-----------------------------------------------------------------------------
(* Audio *)

\* The library reports a user. A decoder is set up if there is something to
\* read already; a user with a decoder has the AudioMonitor start anew and the
\* timer cleared, whoever it is for.
StartSpeaking(u) ==
    /\ u \notin speaking
    /\ speaking' = speaking \union {u}
    /\ \/ /\ streams' = streams \union {u}
          /\ monitor' = [monitor EXCEPT ![u] = 0]
          /\ timer' = Nobody
          /\ drowned' = drowned \union Waiting(Users \ {u})
       \/ /\ u \notin streams
          /\ UNCHANGED <<streams, monitor, timer, drowned>>
    /\ UNCHANGED <<said, buffers, processing, player, handling, heard, interrupted>>

\* The decoder's first data since the AudioMonitor started.
Audio(u) ==
    /\ u \in speaking \intersect streams
    /\ monitor[u] = 0
    /\ said < MaxSaid
    /\ said' = said + 1
    /\ monitor' = [monitor EXCEPT ![u] = said + 1]
    /\ UNCHANGED <<speaking, streams, buffers, timer, processing, player, handling,
                   heard, drowned, interrupted>>

\* Faulty: the timer is started for the first buffer only.
DeliverFirst(u) ==
    LET left == IF player = "idle" THEN "none" ELSE player
        busy == left # "none" \/ processing
    IN
    /\ player' = left
    /\ buffers' = [buffers EXCEPT ![u] = IF busy THEN {} ELSE @ \union {monitor[u]}]
    /\ timer' = IF busy \/ buffers[u] # {} THEN timer ELSE u
    /\ drowned' = drowned \union
           (IF busy THEN buffers[u] \union {monitor[u]} ELSE Waiting(Users \ {u}))

\* Faulty: the flag is not looked at.
DeliverAlways(u) ==
    LET left == IF player = "idle" THEN "none" ELSE player
        busy == left # "none"
    IN
    /\ player' = left
    /\ buffers' = [buffers EXCEPT ![u] = IF busy THEN {} ELSE @ \union {monitor[u]}]
    /\ timer' = IF busy THEN timer ELSE u
    /\ drowned' = drowned \union
           (IF busy THEN buffers[u] \union {monitor[u]} ELSE Waiting(Users \ {u}))

\* processBuffer and debouncedProcessTranscription: an idle player is let go; to
\* a busy agent what the user said is lost, otherwise the timer starts anew.
Deliver(u) ==
    LET left == IF player = "idle" THEN "none" ELSE player
        busy == left # "none" \/ processing
    IN
    /\ player' = left
    /\ buffers' = [buffers EXCEPT ![u] = IF busy THEN {} ELSE @ \union {monitor[u]}]
    /\ timer' = IF busy THEN timer ELSE u
    /\ drowned' = drowned \union
           (IF busy THEN buffers[u] \union {monitor[u]} ELSE Waiting(Users \ {u}))

\* What the AudioMonitor holds is delivered. Without data, or a decoder, nothing
\* is, and a timer that the start has cleared is not set again.
StopSpeaking(u) ==
    /\ u \in speaking
    /\ speaking' = speaking \ {u}
    /\ \/ monitor[u] # 0 /\ Deliver(u)
       \/ /\ monitor[u] = 0
          /\ drowned' = IF timer = u THEN drowned ELSE drowned \union buffers[u]
          /\ UNCHANGED <<buffers, timer, player>>
    /\ UNCHANGED <<said, streams, monitor, processing, handling, heard, interrupted>>

\* The user's stream ends: what the monitor still holds is delivered (again).
EndStream(u) ==
    /\ monitor[u] # 0
    /\ streams' = streams \ {u}
    /\ monitor' = [monitor EXCEPT ![u] = 0]
    /\ Deliver(u)
    /\ UNCHANGED <<said, speaking, processing, handling, heard, interrupted>>

\* An error closes the user's stream, or it ends with nothing to deliver.
StreamFails(u) ==
    /\ u \in streams
    /\ streams' = streams \ {u}
    /\ monitor' = [monitor EXCEPT ![u] = 0]
    /\ UNCHANGED <<said, speaking, buffers, timer, processing, player, handling,
                   heard, drowned, interrupted>>

\* A loud user stops the player, and the flag goes down.
Interrupt(u) ==
    /\ u \in speaking \intersect streams
    /\ InProgress # Handlings
    /\ player # "none"
    /\ player' = "none"
    /\ processing' = FALSE
    /\ interrupted' = (InProgress # {})
    /\ UNCHANGED <<said, speaking, streams, monitor, buffers, timer, handling, heard,
                   drowned>>

PlaybackEnds ==
    /\ player = "playing"
    /\ player' = "idle"
    /\ UNCHANGED <<said, speaking, streams, monitor, buffers, timer, processing, handling,
                   heard, drowned, interrupted>>

-----------------------------------------------------------------------------
(* The callback of the timer *)

\* All users' buffers are cleaned, and the flag goes down.
CleanUp ==
    /\ buffers' = [u \in Users |-> {}]
    /\ processing' = FALSE

\* Faulty: empty buffers are transcribed, too.
FireAlways(h) ==
    /\ timer # Nobody
    /\ h \notin InProgress
    /\ timer' = Nobody
    /\ buffers' = [buffers EXCEPT ![timer] = {}]
    /\ processing' = TRUE
    /\ handling' = [handling EXCEPT ![h] = [at |-> "transcribe", audio |-> buffers[timer]]]
    /\ heard' = heard \union buffers[timer]
    /\ UNCHANGED <<said, speaking, streams, monitor, player, drowned, interrupted>>

\* processTranscription takes the user's buffers; there may be none left.
Fire(h) ==
    /\ timer # Nobody
    /\ h \notin InProgress
    /\ timer' = Nobody
    /\ \/ /\ buffers[timer] # {}
          /\ buffers' = [buffers EXCEPT ![timer] = {}]
          /\ processing' = TRUE
          /\ handling' = [handling EXCEPT ![h] =
                             [at |-> "transcribe", audio |-> buffers[timer]]]
          /\ heard' = heard \union buffers[timer]
          /\ UNCHANGED drowned
       \/ /\ buffers[timer] = {}
          /\ CleanUp
          /\ drowned' = IF interrupted THEN drowned \union Waiting(Users) ELSE drowned
          /\ UNCHANGED <<handling, heard>>
    /\ UNCHANGED <<said, speaking, streams, monitor, player, interrupted>>

\* A valid transcription: the player is stopped, handleUserMessage begins.
Transcribed(h) ==
    /\ handling[h].at = "transcribe"
    /\ handling' = [handling EXCEPT ![h].at = "answer"]
    /\ player' = "none"
    /\ UNCHANGED <<said, speaking, streams, monitor, buffers, timer, processing, heard,
                   drowned, interrupted>>

\* playAudioStream, of the answer or of an action's.
Play(h) ==
    /\ handling[h].at = "answer"
    /\ player' = "playing"
    /\ UNCHANGED <<said, speaking, streams, monitor, buffers, timer, processing, handling,
                   heard, drowned, interrupted>>

\* The callback ends, with or without a transcription, an answer or an error.
EndHandling(h) ==
    /\ h \in InProgress
    /\ handling' = [handling EXCEPT ![h] = None]
    /\ CleanUp
    /\ drowned' = IF interrupted THEN drowned \union Waiting(Users) ELSE drowned
    /\ interrupted' = (interrupted /\ InProgress # {h})
    /\ UNCHANGED <<said, speaking, streams, monitor, timer, player, heard>>

Next ==
    \/ \E u \in Users :
        \/ StartSpeaking(u) \/ Audio(u) \/ StopSpeaking(u)
        \/ EndStream(u) \/ StreamFails(u) \/ Interrupt(u)
    \/ PlaybackEnds
    \/ \E h \in Handlings :
        Fire(h) \/ Transcribed(h) \/ Play(h) \/ EndHandling(h)

Spec == Init /\ [][Next]_vars

\* setTimeout calls back.
FairSpec == Spec /\ WF_vars(\E h \in Handlings : Fire(h))

-----------------------------------------------------------------------------
(* Properties *)

\* The flag is up only while a callback runs, and one callback runs at a time
\* with the flag up, until an answer is interrupted and the flag taken down under
\* a callback that still runs (debouncedProcessTranscription, monitorMember).
FlagTells ==
    /\ processing => InProgress # {}
    /\ interrupted \/ Cardinality(InProgress) = (IF processing THEN 1 ELSE 0)

\* Once the channel is silent, what waits in a user's buffers is transcribed,
\* unless another user spoke meanwhile, or the user came back to a busy agent or
\* was reported again with nothing recorded (voice.ts:96), or the callback of an
\* interrupted answer ended: no other callback cleans buffers that wait, and no
\* other start leaves them without a timer (the end of the timer's callback,
\* speakingStarted).
HeardOrDrowned ==
    <>[](speaking = {}) =>
        \A m \in Utterances :
            (\E u \in Users : m \in buffers[u]) ~> m \in heard \union drowned

=============================================================================
