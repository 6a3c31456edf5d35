------------------------------ MODULE Transcripts ------------------------------
(***************************************************************************)
(* The transcription worker and Whisper's text (transcriber.py).  One      *)
(* worker takes chunks of all members, one at a time, and one transcriber  *)
(* reads them; its memory of what it said last is used to cut the words a  *)
(* chunk repeats of the one before and to drop a text said over and over.  *)
(* It knows neither whose chunk it is nor whether the worker could store   *)
(* what it returned: a text is remembered before the worker's callbacks    *)
(* store it, and stays remembered when they raise.                         *)
(*                                                                         *)
(* Cleaning a segment up (unsure tokens, loops of a dozen words) is left   *)
(* out; a text is a sequence of words.                                     *)
(***************************************************************************)
EXTENDS Naturals, Sequences, SequencesExt

CONSTANTS
    Words,
    MinOverlap,   \* words a segment must share with the text before it
    MaxOverlap,   \* words looked at for that
    DropAfter,    \* repetitions of a text, the first of which is kept
    Recent,       \* words remembered (600 characters)
    MaxWords,     \* bound: words of a segment
    MaxChunk      \* bound: segments of a chunk

TranscriptsAssumption ==
    /\ {MinOverlap, MaxOverlap, DropAfter, Recent, MaxWords, MaxChunk} \subseteq Nat \ {0}
    /\ MaxWords <= Recent /\ DropAfter > 1

VARIABLES
    chunk,     \* segments read of the chunk in hand, or Idle
    emitted,   \* emitted_text of that chunk
    recent,    \* _recent_text_for_dedupe
    last,      \* _last_emitted_text_norm
    repeats,   \* _last_emitted_repeat_count, as far as it matters
    here,      \* history: times this chunk had last in it
    said,      \* history: the segment just read
    fate,      \* history: what became of it
    lost,      \* history: times chunks that could not be read had last in them, 0..2
    stored,    \* the end of the transcript that on_observation has stored
    since      \* history: words remembered since a text could not be stored, 0..Recent

vars == <<chunk, emitted, recent, last, repeats, here, said, fate, lost, stored, since>>

Idle == MaxChunk + 1
Segments == UNION {[1..n -> Words] : n \in 1..MaxWords}
Ending(s, n) == SubSeq(s, IF Len(s) > n THEN Len(s) - n + 1 ELSE 1, Len(s))

Init ==
    /\ chunk = Idle /\ emitted = <<>>
    /\ recent = <<>> /\ last = <<>> /\ repeats = 0 /\ here = 0
    /\ said = <<>> /\ fate = "none" /\ lost = 0
    /\ stored = <<>> /\ since = Recent

\* Lengths of a start of t that ends the remembered text.
Overlaps(t) ==
    {n \in MinOverlap..MaxOverlap :
        n <= Len(t) /\ n <= Len(recent) /\ IsSuffix(SubSeq(t, 1, n), recent)}

\* _trim_overlapped_prefix: the text without the longest of them.
Trimmed(t) ==
    IF Overlaps(t) = {} THEN t
    ELSE SubSeq(t, 1 + CHOOSE n \in Overlaps(t) : \A k \in Overlaps(t) : k <= n, Len(t))

\* Mutant: the first repetition is dropped too.
Dropped_AtOnce(t) == t = last

\* _should_drop_duplicate_segment
Dropped(t) == t = last /\ repeats + 1 >= DropAfter

Fresh == emitted' = <<>> /\ here' = 0 /\ said' = <<>> /\ fate' = "none"
UpTo(n, k) == IF k < n THEN k ELSE n

\* process_next takes a chunk from the queue; decoding or Whisper may fail.
Take ==
    /\ chunk = Idle
    /\ chunk' \in {0, Idle}
    /\ Fresh
    /\ UNCHANGED <<recent, last, repeats, lost, stored, since>>

\* One turn of the loop of _transcribe_sync.
Segment(t) ==
    LET rest == Trimmed(t) IN
    /\ chunk < MaxChunk /\ chunk' = chunk + 1
    /\ said' = t
    /\ fate' = IF rest = <<>> THEN "trimmed" ELSE IF Dropped(rest) THEN "dropped" ELSE "kept"
    /\ emitted' = IF fate' = "kept" THEN emitted \o rest ELSE emitted
    /\ last' = IF rest = <<>> THEN last ELSE rest
    /\ repeats' = IF rest = <<>> THEN repeats ELSE IF rest # last THEN 0
                ELSE UpTo(DropAfter, repeats + 1)
    /\ here' = IF rest = <<>> THEN here ELSE IF rest # last THEN 1 ELSE here + 1
    /\ lost' = IF last' = last THEN lost ELSE 0
    /\ UNCHANGED <<recent, stored, since>>

\* The chunk is read: its text, if any, is remembered, then returned to the
\* worker, which stores it, or fails to and counts an error.
Done ==
    /\ chunk # Idle /\ chunk' = Idle
    /\ recent' = Ending(recent \o emitted, Recent)
    /\ \/ /\ stored' = Ending(stored \o emitted, Recent)
          /\ since' = UpTo(Recent, since + Len(emitted))
       \/ emitted # <<>> /\ since' = 0 /\ UNCHANGED stored
    /\ Fresh
    /\ UNCHANGED <<last, repeats, lost>>

\* Reading on failed: the worker counts an error and takes the next chunk.
Fail ==
    /\ chunk # Idle /\ chunk' = Idle
    /\ Fresh
    /\ lost' = UpTo(2, lost + here)
    /\ UNCHANGED <<recent, last, repeats, stored, since>>

Next == Take \/ Done \/ Fail \/ \E t \in Segments : Segment(t)

Spec == Init /\ [][Next]_vars

-----------------------------------------------------------------------------
(* Properties.                                                             *)

\* What the transcript shows once the chunk in hand is stored, and whether it
\* could show all of a text: words of a chunk that could not be stored are
\* remembered none the less, until as many words have been remembered since.
Shown == stored \o emitted
Whole(t) == Len(t) <= since + Len(emitted)

\* A text left out, as an overlap or as a repetition, is not lost: the stored
\* transcript ends with it, with what the chunk adds.  Excepted are a text that
\* reaches back into words that were remembered and could not be stored, which
\* _trim_overlapped_prefix cuts all the same, and a repetition of one that two
\* chunks had which could not be read.  So a failure before _update_context
\* silences nobody, and one after it nothing but the words it lost.
NothingIsSilenced ==
    /\ chunk = 1 /\ fate \in {"trimmed", "kept"} /\ Whole(said) => IsSuffix(said, Shown)
    /\ fate = "dropped" /\ Whole(last) => IsSuffix(last, Shown) \/ lost >= 2
=============================================================================
