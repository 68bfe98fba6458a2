-------------------------------- MODULE Disk --------------------------------
(***************************************************************************)
(* What a session leaves on disk: its event log among those of the other   *)
(* sessions (SessionStore), and its recording with what is exported of it  *)
(* (Recorder).  The two threads that write share no state.                 *)
(***************************************************************************)
EXTENDS SessionStore

CONSTANTS
  MinSilentBlocks, ThresholdSq, RING_CAPACITY_SAMPLES, Scratch, Blocks, Levels, OpenRate,
  DeviceRate, SizeLimit, MaxFrames,
  MaxLines   \* bound: lines of the log beside a recording

VARIABLES
  audio, recorder, stop_flag, wav_writer, popped, ring, disk, wav_buf, dropped, rendered,
  log_lines

wav_vars == <<audio, recorder, stop_flag, wav_writer, popped, ring, disk, wav_buf, dropped,
              rendered, log_lines>>

Rec == INSTANCE Recorder WITH
  writer <- wav_writer, buf <- wav_buf, log <- log_lines, MaxEvents <- MaxLines

ASSUME RecorderAssumption == Rec!RecorderConstants

(* A recording holds whole frames in order; the count of those that were   *)
(* dropped is true, and short only of what a failed write cost or the last *)
(* look of the writer missed; a finished file is read back whole; only     *)
(* sustained silence is trimmed off its head, and chapters cover what is   *)
(* left without a gap (Recorder, Export).                                  *)
RecordingIsTrue ==
  /\ Rec!RecTypeOK
  /\ Rec!ChannelsStayPaired /\ Rec!DropsAccounted /\ Rec!FinishedFileReadsBack
  /\ Rec!HeadTrimmedToFirstSound /\ Rec!ChaptersAreOrdered
=============================================================================
