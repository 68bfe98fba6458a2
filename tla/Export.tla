------------------------------- MODULE Export -------------------------------
(***************************************************************************)
(* What engine/src/recording/export.rs makes of a master.wav and the event *)
(* log beside it: the silence trimmed from the two ends, and a chapter per *)
(* loaded track.  A frame is its loudness, as an integer; the body of a    *)
(* file is its samples, of which every two are a frame.  The log is its    *)
(* parsable lines.                                                         *)
(***************************************************************************)
EXTENDS BeatGrid, SequencesExt

CONSTANTS
  None,
  MinSilentBlocks,   \* blocks of 100 ms in SILENCE_WINDOW_S: 20
  ThresholdSq        \* the mean square of -60 dBFS

ExportConstants == MinSilentBlocks \in Nat \ {0} /\ ThresholdSq \in Nat

(* How long frames last at a rate, in microseconds. *)
Micros(frames, rate) == RoundDiv(frames * 1000000, rate)

(* The frame a left sample begins has the mean of its two samples. *)
Frames(body) == [i \in 1..(Len(body) \div 2) |-> (body[2*i - 1].level + body[2*i].level) \div 2]

block_frames(rate) == IF rate \div 10 > 1 THEN rate \div 10 ELSE 1

\* Is block b of the frames silent: is its mean square below the threshold?
window_is_silent(frames, size, b) ==
  FoldFunctionOnSet(+, 0, [i \in DOMAIN frames |-> frames[i] * frames[i]],
                    ((b-1)*size + 1)..(b*size)) < ThresholdSq * size

(* How many blocks are silent before the first that is not. *)
LeadingRun(silent) == Max({k \in 0..Len(silent) : \A i \in 1..k : silent[i]})

\* Mutant: a run one block short is trimmed too.
SustainedFrames_short(run, size) == IF run + 1 >= MinSilentBlocks THEN run * size ELSE 0

SustainedFrames(run, size) == IF run >= MinSilentBlocks THEN run * size ELSE 0

\* The frames that end the last block are not looked at, and the run at the
\* tail is counted as if they were not there.
detect_silence_trim(frames, rate) ==
  LET size == block_frames(rate)
      silent == [b \in 1..(Len(frames) \div size) |-> window_is_silent(frames, size, b)]
  IN [head |-> SustainedFrames(LeadingRun(silent), size),
      tail |-> SustainedFrames(LeadingRun(Reverse(silent)), size)]

ClampStart(micros) == IF micros < 0 THEN 0 ELSE RoundDiv(micros, 1000)

(* The chapter starts, in ms: a load is placed by its time after the first *)
(* event of the log less what was trimmed; loads past the end are left     *)
(* out, and two in one ms are one.  head and length are in microseconds.   *)
build_chapters(log, head, length) ==
  LET offset(e) == e.ts - log[1].ts - head
      loads == {i \in DOMAIN log : log[i].load /\ offset(log[i]) <= length}
      starts == {ClampStart(offset(log[i])) : i \in loads}
  IN CHOOSE q \in [1..Cardinality(starts) -> starts] : \A i, j \in DOMAIN q : i < j => q[i] < q[j]

\* Mutant: a last chapter on the last ms gets no length.
ChapterEnd_total(starts, i, total) == IF i < Len(starts) THEN starts[i+1] ELSE total

ChapterEnd(starts, i, total) ==
  IF i < Len(starts) THEN starts[i+1] ELSE IF total > starts[i] THEN total ELSE starts[i] + 1

(* read_wav_pcm_f32: what the header says, unless that is the placeholder  *)
(* or more than there is; None when a sample is cut.                       *)
read_wav_pcm_f32(file) ==
  IF file.torn THEN None
  ELSE IF file.data = 0 \/ file.data > Len(file.body) THEN file.body
  ELSE SubSeq(file.body, 1, file.data)

(* export_session_in: None for what it refuses. *)
export_session(file, log, limit) ==
  LET body == read_wav_pcm_f32(file)
      frames == Frames(body)
      cut == detect_silence_trim(frames, file.rate)
      kept == Len(frames) - cut.head - cut.tail
      length == Micros(kept, file.rate)
      starts == build_chapters(log, Micros(cut.head, file.rate), length)
      total == RoundDiv(length, 1000)
  IN IF body = None \/ body = <<>> THEN None
     ELSE IF kept <= 0 \/ 2 * kept > limit THEN None
     ELSE [head |-> cut.head, tail |-> cut.tail, frames |-> frames, total |-> total,
           chapters |-> [i \in DOMAIN starts |->
                           [start |-> starts[i], end |-> ChapterEnd(starts, i, total)]]]
=============================================================================
