------------------------------- MODULE MCMedia -------------------------------
(* The two ingest queues of the intelligence service and the transcriber,    *)
(* which share no state: each is explored with the others at rest.           *)
EXTENDS MCAudioIngest

CONSTANTS FrMembers, Observers, Helpers, Scores, Dull, Times,
          FrMaxQueue, MaxDepth, MaxPuts                         \* FrameIngest
CONSTANTS Words, MinOverlap, MaxOverlap, DropAfter, Recent,
          MaxWords, MaxChunk                                    \* Transcripts

VARIABLES hand, queue, accepted, frEvicted, frActive, frDepth, last, observed
VARIABLES open, running, worker, taken
VARIABLES chunk, emitted, recent, lastText, repeats, here, said, fate, lost, stored, since
VARIABLE part

Frames == INSTANCE FrameIngest WITH
    Members <- FrMembers, Handlers <- Helpers, MaxQueue <- FrMaxQueue,
    evicted <- frEvicted, active <- frActive, depth <- frDepth
Talk == INSTANCE Transcripts WITH last <- lastText

ASSUME PartsAssumption == Frames!FrameAssumption /\ Talk!TranscriptsAssumption

frameVars == <<hand, queue, accepted, frEvicted, frActive, frDepth, last, observed,
               open, running, worker, taken>>
talkVars == <<chunk, emitted, recent, lastText, repeats, here, said, fate, lost, stored, since>>
AllInit == Init /\ Frames!Init /\ Talk!Init /\ part \in {"audio", "frames", "talk"}

AllNext ==
    /\ part' = part
    /\ \/ part = "audio" /\ Next /\ UNCHANGED <<frameVars, talkVars>>
       \/ part = "frames" /\ Frames!Next /\ UNCHANGED <<vars, talkVars>>
       \/ part = "talk" /\ Talk!Next /\ UNCHANGED <<vars, frameVars>>

AllSpec == AllInit /\ [][AllNext]_<<vars, frameVars, talkVars, part>>

-----------------------------------------------------------------------------
\* A frame is given up only for a better one: see FrameIngest.
KeepsTheBest == Frames!KeepsTheBest

\* An orderly stop leaves no frame behind: see FrameIngest.
StopDrains == Frames!StopDrains

\* A text left out is in the stored transcript: see Transcripts.
NothingIsSilenced == Talk!NothingIsSilenced
=============================================================================
