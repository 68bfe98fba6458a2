----------------------------- MODULE DecodeFeed -----------------------------
(***************************************************************************)
(* engine/src/audio/decode.rs and mixer.rs: what a deck hears of the files *)
(* it plays.  Each file (the full mix, or each stem of a track) has a      *)
(* decoder thread that pushes its samples one by one into a ring, and the  *)
(* audio thread pops them one by one, in blocks, the stems in turn.        *)
(* A sample is the frame it belongs to and its side; DecodeService models  *)
(* how a ring gets its decoder and loses it.                               *)
(***************************************************************************)
EXTENDS Integers, Sequences, FiniteSets, SequencesExt

CONSTANTS
  Streams,       \* 1..n: the full mix, or a track's stems
  RingSamples,   \* RING_SAMPLES_500MS
  Packets,       \* the packets of the track, in frames
  Wants,         \* frames the resampler takes at a time, 1024; 0: no resampler
  BlockSamples,  \* samples the mixer pulls at a time, two per frame
  MaxGains       \* bound: SetStemGain commands

FeedConstants ==
  /\ Streams \subseteq Nat \ {0} /\ IsFiniteSet(Streams) /\ Streams # {}
  /\ Packets \in Seq(Nat) /\ Wants \subseteq Nat
  /\ {RingSamples, BlockSamples} \subseteq Nat \ {0} /\ BlockSamples % 2 = 0
  /\ MaxGains \in Nat

VARIABLES
  want,      \* the resampler of this track
  feed,      \* per stream: packets still in the file, and samples to push
  ring,      \* per stream: the sample ring
  gain,      \* per stream: whether its stem gain is above zero
  pull,      \* the audio thread: the streams still to read in this block, and
             \* what the read of the first of them has
  played,    \* history, per stream: every sample popped
  short,     \* history, per stream: reads that ran out after an odd number
  gains

vars == <<want, feed, ring, gain, pull, played, short, gains>>

Pad == 0

\* The samples of n frames from frame `from` on, left and right in turn.
Stereo(frames) ==
  [i \in 1..(2 * Len(frames)) |-> <<frames[(i + 1) \div 2], IF i % 2 = 1 THEN "left" ELSE "right">>]

\* push_into_ring: the packet in chunks of `want`, the last one filled up with
\* silence; a frame out stands for the sound of one frame in.
Resampled(frames) ==
  IF want = 0 THEN frames
  ELSE frames \o [i \in 1..((want - (Len(frames) % want)) % want) |-> Pad]

Packet(k) == LET before == FoldSeq(+, 0, SubSeq(Packets, 1, k - 1)) IN [i \in 1..Packets[k] |-> before + i]
StereoPacket(k) == Stereo(Resampled(Packet(k)))

\* All that a decoder has made of the first n packets.
Made(n) == FlattenSeq([k \in 1..n |-> StereoPacket(k)])

Init ==
  /\ want \in Wants
  /\ feed = [s \in Streams |-> [packet |-> 1, out |-> <<>>]]
  /\ ring = [s \in Streams |-> <<>>] /\ gain = [s \in Streams |-> TRUE]
  /\ pull = [rest |-> {}, got |-> 0]
  /\ played = [s \in Streams |-> <<>>] /\ short = [s \in Streams |-> 0]
  /\ gains = 0

(* A decoder thread. *)

Decode(s) ==
  /\ feed[s].out = <<>> /\ feed[s].packet <= Len(Packets)
  /\ feed' = [feed EXCEPT ![s] = [packet |-> @.packet + 1, out |-> StereoPacket(@.packet)]]
  /\ UNCHANGED <<want, ring, gain, pull, played, short, gains>>

\* Mutant: a sample that finds the ring full is given up.
push_blocking_gives_up(s) ==
  /\ feed[s].out # <<>>
  /\ ring' = [ring EXCEPT ![s] = IF Len(@) < RingSamples THEN Append(@, Head(feed[s].out)) ELSE @]

push_blocking(s) ==
  /\ feed[s].out # <<>> /\ Len(ring[s]) < RingSamples
  /\ ring' = [ring EXCEPT ![s] = Append(@, Head(feed[s].out))]

Push(s) ==
  /\ push_blocking(s)
  /\ feed' = [feed EXCEPT ![s].out = Tail(@)]
  /\ UNCHANGED <<want, gain, pull, played, short, gains>>

(* The audio thread. *)

SetStemGain(s) ==
  /\ pull.rest = {} /\ Cardinality(Streams) > 1 /\ gains < MaxGains
  /\ gain' = [gain EXCEPT ![s] = ~@] /\ gains' = gains + 1
  /\ UNCHANGED <<want, feed, ring, pull, played, short>>

(* A block: the streams that are audible, in turn.  A muted stem is not    *)
(* read at all.                                                            *)
pull_deck_or_stems ==
  /\ pull.rest = {}
  /\ pull' = [rest |-> {s \in Streams : gain[s]}, got |-> 0]
  /\ UNCHANGED <<want, feed, ring, gain, played, short, gains>>

Current == Min(pull.rest)

NextStream == [rest |-> pull.rest \ {Current}, got |-> 0]

\* read: one more sample, or the ring is empty and the rest is silence.
Pop ==
  /\ pull.rest # {}
  /\ ring[Current] # <<>>
  /\ played' = [played EXCEPT ![Current] = Append(@, Head(ring[Current]))]
  /\ ring' = [ring EXCEPT ![Current] = Tail(@)]
  /\ pull' = IF pull.got + 1 = BlockSamples THEN NextStream ELSE [pull EXCEPT !.got = @ + 1]
  /\ UNCHANGED <<want, feed, gain, short, gains>>

Underrun ==
  /\ pull.rest # {} /\ ring[Current] = <<>>
  /\ short' = [short EXCEPT ![Current] = (@ + pull.got) % 2]
  /\ pull' = NextStream
  /\ UNCHANGED <<want, feed, ring, gain, played, gains>>

Next ==
  \/ \E s \in Streams : Decode(s) \/ Push(s) \/ SetStemGain(s)
  \/ pull_deck_or_stems \/ Pop \/ Underrun

(* A decoder thread and the audio thread keep running. *)
Spec ==
  /\ Init /\ [][Next]_vars
  /\ \A s \in Streams : WF_vars(Decode(s)) /\ WF_vars(Push(s))
  /\ WF_vars(pull_deck_or_stems \/ Pop \/ Underrun)

-----------------------------------------------------------------------------
(* Whatever the order in which the two threads push and pop, however often *)
(* the ring fills up or runs dry: what has been heard of a file, what is   *)
(* in the ring and what its thread still holds are together what it has    *)
(* decoded, every sample once and in order.                                *)
EverySampleOnceInOrder ==
  \A s \in Streams : played[s] \o ring[s] \o feed[s].out = Made(feed[s].packet - 1)

(* Left is heard on the left, except that every read that ran out after an *)
(* odd number of samples exchanges the sides for what follows: between     *)
(* blocks the next sample belongs to the left exactly when such reads were *)
(* even in number.                                                         *)
SidesFollowUnderruns ==
  pull.rest = {} =>
    \A s \in Streams : ring[s] # <<>> => (Head(ring[s])[2] = "left" <=> short[s] = 0)

(* A file that is not left muted for good is heard to its end: the decoder *)
(* held up by a full ring goes on when the audio thread has made room, and *)
(* no sample is left in a ring or a thread.                                *)
PlaysOut ==
  \A s \in Streams :
    []<>gain[s] => <>(Len(played[s]) = Len(Made(Len(Packets))))
=============================================================================
