------------------------------ MODULE Recorder ------------------------------
(***************************************************************************)
(* The master-mix recorder (engine/src/recording/mod.rs): the audio        *)
(* callback pushes stereo samples into a ring, a writer thread takes them  *)
(* out and writes them behind a placeholder header, and main stops both at *)
(* shutdown and patches the header.  A sample is the number of its frame,  *)
(* its channel and its level; sizes of a file are in samples.              *)
(***************************************************************************)
EXTENDS Export

CONSTANTS
  RING_CAPACITY_SAMPLES,
  Scratch,      \* samples the writer takes at once, and its BufWriter's size
  Blocks,       \* frames render may push at once
  Levels,       \* loudness of a frame
  OpenRate,     \* the rate main opens the recorder with: 48 kHz
  DeviceRate,   \* the rate the device turns out to run at
  SizeLimit,    \* samples whose bytes a u32 still counts
  MaxFrames,    \* bound: frames rendered
  MaxEvents     \* bound: lines of the session's event log

RecorderConstants ==
  /\ ExportConstants
  /\ RING_CAPACITY_SAMPLES \in Nat \ {0} /\ RING_CAPACITY_SAMPLES % 2 = 0
  /\ Scratch \in Nat \ {0} /\ Scratch % 2 = 0
  /\ Blocks \subseteq Nat \ {0} /\ Levels \subseteq Nat
  /\ OpenRate \in Nat \ {0} /\ DeviceRate \in Nat \ {0}
  /\ SizeLimit \in Nat /\ MaxFrames \in Nat /\ MaxEvents \in Nat

VARIABLES
  audio,      \* is the audio stream up
  recorder,   \* MasterRecorder: "none", "open", "stopping", "finished",
              \* "failed", or "crashed"
  stop_flag,
  writer,     \* the writer thread: "drain", "look", "flush", "ok", "err"
  popped,     \* what its last pop_slice returned
  ring,
  disk,       \* the file: [body, torn, data, rate]
  buf,        \* the writer's BufWriter
  dropped,    \* dropped_frames
  rendered,   \* history: the level of every frame rendered
  log         \* the parsable lines of the session's event log

rec_vars == <<audio, recorder, stop_flag, writer, popped, ring, disk, buf,
              dropped, rendered, log>>

\* main opens the recorder before it knows the device's rate, and leaves it.
EmptyFile == [body |-> <<>>, torn |-> FALSE, data |-> 0, rate |-> OpenRate]

Init ==
  /\ audio = TRUE /\ recorder \in {"none", "open"} /\ stop_flag = FALSE
  /\ writer = (IF recorder = "open" THEN "drain" ELSE "ok")
  /\ popped = 0 /\ ring = <<>> /\ buf = <<>> /\ dropped = 0
  /\ disk = EmptyFile /\ rendered = <<>> /\ log = <<>>

(* The samples of block, left before right, of frames numbered from first. *)
Stereo(block, first) ==
  [i \in 1..(2 * Len(block)) |->
     [frame |-> first + (i - 1) \div 2, left |-> i % 2 = 1, level |-> block[(i + 1) \div 2]]]

Room == RING_CAPACITY_SAMPLES - Len(ring)

Fits(samples) == SubSeq(samples, 1, IF Len(samples) < Room THEN Len(samples) ELSE Room)

\* Mutant: the counter counts samples.
DroppedNow_samples(samples) == Len(samples) - Len(Fits(samples))

DroppedNow(samples) == (Len(samples) - Len(Fits(samples))) \div 2

\* AudioMixer::render's tee and MasterRecorderSink::push: what does not fit
\* is counted and gone.
Render(block) ==
  /\ audio
  /\ Len(rendered) + Len(block) <= MaxFrames
  /\ rendered' = rendered \o block
  /\ IF recorder = "none" THEN UNCHANGED <<ring, dropped>>
     ELSE LET samples == Stereo(block, Len(rendered) + 1)
          IN ring' = ring \o Fits(samples) /\ dropped' = dropped + DroppedNow(samples)
  /\ UNCHANGED <<audio, recorder, stop_flag, writer, popped, disk, buf, log>>

\* Mutant: a large piece overtakes what is buffered.
Written_overtaking(w, piece) ==
  IF Len(piece) >= Scratch THEN [w EXCEPT !.body = @ \o piece]
  ELSE [w EXCEPT !.buf = @ \o piece]

(* BufWriter: more than fits empties the buffer first; a piece as large as *)
(* the buffer goes straight to the file.                                   *)
Written(w, piece) ==
  LET out == IF Len(w.buf) + Len(piece) <= Scratch THEN w
             ELSE [body |-> w.body \o w.buf, buf |-> <<>>]
  IN IF Len(piece) >= Scratch THEN [body |-> out.body \o piece, buf |-> <<>>]
     ELSE [out EXCEPT !.buf = @ \o piece]

Taken == IF Len(ring) < Scratch THEN Len(ring) ELSE Scratch

\* pop_slice, and write_all of what it returned.
WriterPop ==
  /\ writer = "drain"
  /\ popped' = Taken
  /\ ring' = SubSeq(ring, Taken + 1, Len(ring))
  /\ LET w == Written([body |-> disk.body, buf |-> buf], SubSeq(ring, 1, Taken))
     IN disk' = [disk EXCEPT !.body = w.body] /\ buf' = w.buf
  /\ writer' = "look"
  /\ UNCHANGED <<audio, recorder, stop_flag, dropped, rendered, log>>

\* Mutant: the thread goes on until a pop takes something and leaves nothing.
LooksDone_never == stop_flag /\ popped > 0 /\ ring = <<>>

\* Mutant: the thread ends on the flag alone.
LooksDone_onFlag == stop_flag

\* The thread ends when the flag is up and its last pop found nothing, or
\* has left nothing.
LooksDone == stop_flag /\ (popped = 0 \/ ring = <<>>)

\* The flag is read after the pop; with nothing popped and no flag the thread
\* sleeps before it pops again.
WriterLook ==
  /\ writer = "look"
  /\ writer' = IF LooksDone THEN "flush" ELSE "drain"
  /\ UNCHANGED <<audio, recorder, stop_flag, popped, ring, disk, buf, dropped, rendered, log>>

WriterFlush ==
  /\ writer = "flush"
  /\ disk' = [disk EXCEPT !.body = @ \o buf] /\ buf' = <<>>
  /\ writer' = "ok"
  /\ UNCHANGED <<audio, recorder, stop_flag, popped, ring, dropped, rendered, log>>

\* A write fails, in the middle of a sample perhaps, and ends the thread; the
\* ring is no longer read.
WriterFails ==
  /\ writer \in {"drain", "flush"}
  /\ LET due == buf \o (IF writer = "drain" THEN SubSeq(ring, 1, Taken) ELSE <<>>)
     IN /\ Len(due) > 0
        /\ \E k \in 0..(Len(due) - 1), cut \in BOOLEAN :
             disk' = [disk EXCEPT !.body = @ \o SubSeq(due, 1, k), !.torn = cut]
  /\ ring' = IF writer = "drain" THEN SubSeq(ring, Taken + 1, Len(ring)) ELSE ring
  /\ buf' = <<>> /\ writer' = "err"
  /\ UNCHANGED <<audio, recorder, stop_flag, popped, dropped, rendered, log>>

\* main's shutdown drops the stream, which joins the audio thread, ...
DropStream ==
  /\ audio /\ recorder # "crashed"
  /\ audio' = FALSE
  /\ UNCHANGED <<recorder, stop_flag, writer, popped, ring, disk, buf, dropped, rendered, log>>

\* ... and then stops the recorder: raise the flag, ...
Stop ==
  /\ ~audio /\ recorder = "open"
  /\ recorder' = "stopping" /\ stop_flag' = TRUE
  /\ UNCHANGED <<audio, writer, popped, ring, disk, buf, dropped, rendered, log>>

\* Mutant: the header is patched before the thread is joined.
Join_early ==
  /\ recorder = "stopping"
  /\ disk' = [disk EXCEPT !.data = Len(disk.body)]
  /\ recorder' = "finished"
  /\ UNCHANGED <<audio, stop_flag, writer, popped, ring, buf, dropped, rendered, log>>

(* ... join the writer, patch the header, unless it or the file is in the  *)
(* way.  A body too long for the header is left with its placeholder.      *)
Join ==
  /\ recorder = "stopping" /\ writer \in {"ok", "err"}
  /\ \/ /\ writer = "ok" /\ Len(disk.body) <= SizeLimit
        /\ disk' = [disk EXCEPT !.data = Len(disk.body)]
        /\ recorder' = "finished"
     \/ UNCHANGED disk /\ recorder' = "failed"
  /\ UNCHANGED <<audio, stop_flag, writer, popped, ring, buf, dropped, rendered, log>>

\* The process is killed: what BufWriter and the ring hold is lost.
Crash ==
  /\ audio
  /\ audio' = FALSE /\ recorder' = "crashed" /\ writer' = "err"
  /\ ring' = <<>> /\ buf' = <<>>
  /\ UNCHANGED <<stop_flag, popped, disk, dropped, rendered, log>>

(* An event reaches the log while the session lasts; its time is that of   *)
(* the frame being rendered.                                               *)
LogEvent(load) ==
  /\ audio /\ Len(log) < MaxEvents
  /\ log' = Append(log, [ts |-> Micros(Len(rendered), DeviceRate), load |-> load])
  /\ UNCHANGED <<audio, recorder, stop_flag, writer, popped, ring, disk, buf, dropped, rendered>>

WriterNext == WriterPop \/ WriterLook \/ WriterFlush

Next ==
  \/ \E n \in Blocks : \E block \in [1..n -> Levels] : Render(block)
  \/ WriterNext \/ WriterFails
  \/ DropStream \/ Stop \/ Join \/ Crash
  \/ \E load \in BOOLEAN : LogEvent(load)

(* The writer thread is scheduled, and main runs on through its shutdown.  *)
Spec == Init /\ [][Next]_rec_vars /\ WF_rec_vars(WriterNext) /\ WF_rec_vars(Stop) /\ WF_rec_vars(Join)
-----------------------------------------------------------------------------
Recorded == disk.body \o buf \o ring

(* The ring and the write buffer stay within their sizes, and a body is    *)
(* never claimed that is not there.                                        *)
RecTypeOK ==
  /\ Len(ring) <= RING_CAPACITY_SAMPLES /\ Len(buf) <= Scratch
  /\ recorder \in {"none", "open", "stopping", "finished", "failed", "crashed"}
  /\ writer \in {"drain", "look", "flush", "ok", "err"}
  /\ popped \in 0..Scratch /\ disk.data \in 0..Len(disk.body)

(* Whatever is dropped, and wherever the writer is, the channels stay      *)
(* paired and frames in order: a left sample at every odd place, its own   *)
(* right sample next (mod.rs: "the file is contiguous up to the overflow   *)
(* point").                                                                *)
ChannelsStayPaired ==
  LET s == IF writer = "err" THEN disk.body ELSE Recorded
  IN \A i \in 1..Len(s) :
       /\ s[i].left = (i % 2 = 1)
       /\ i > 1 => IF s[i].left THEN s[i].frame > s[i-1].frame ELSE s[i].frame = s[i-1].frame

(* The count of dropped frames takes in no frame that the file has or may  *)
(* still get.  While the writer is well it takes in every other one; the   *)
(* frames that a failed write or a kill costs are in no count.  A finished *)
(* file lacks what was counted and what is left in the ring: blocks pushed *)
(* between the writer's last, empty pop and its look at the flag, which no *)
(* count takes in either, though mod.rs says the writer ends with an empty *)
(* ring.                                                                   *)
DropsAccounted ==
  recorder # "none" =>
    /\ Len(Recorded) + 2 * dropped <= 2 * Len(rendered)
    /\ writer # "err" => Len(Recorded) + 2 * dropped = 2 * Len(rendered)
    /\ recorder = "finished" =>
         Len(disk.body) + Len(ring) + 2 * dropped = 2 * Len(rendered)
    /\ writer = "ok" /\ ring # <<>> => popped = 0

(* A finished file says its true size and is read back whole; an           *)
(* unfinished one, with its placeholder, as far as it was written.         *)
FinishedFileReadsBack ==
  /\ recorder = "finished" => disk.data = Len(disk.body) /\ ~disk.torn
  /\ ~disk.torn => read_wav_pcm_f32(disk) = disk.body

(* Shutdown comes to an end: stop's join returns. *)
StopEnds == recorder = "stopping" ~> recorder \in {"finished", "failed"}
-----------------------------------------------------------------------------
(* The export of the session as it lies on disk, at any time. *)
Exported == IF recorder = "none" THEN None ELSE export_session(disk, log, SizeLimit)

(* What is trimmed is silent in every block, is at least the sustained     *)
(* length or nothing, and the block it stops at is not silent.             *)
HeadTrimmedToFirstSound ==
  LET e == Exported
      size == block_frames(disk.rate)
      loud == {b \in 1..(Len(e.frames) \div size) : ~window_is_silent(e.frames, size, b)}
  IN e # None =>
       /\ loud # {} => e.head <= (Min(loud) - 1) * size
       /\ e.head > 0 => e.head >= MinSilentBlocks * size
       /\ loud # {} /\ Min(loud) > MinSilentBlocks => e.head = (Min(loud) - 1) * size

(* ffmpeg refuses chapters without a length: every chapter has one, they   *)
(* follow each other without a gap, and none starts after the end.         *)
ChaptersAreOrdered ==
  LET e == Exported
  IN e # None =>
       \A i \in DOMAIN e.chapters :
         LET c == e.chapters[i]
         IN /\ 0 <= c.start /\ c.start < c.end
            /\ i < Len(e.chapters) => c.end = e.chapters[i+1].start
            /\ c.start <= e.total
=============================================================================
