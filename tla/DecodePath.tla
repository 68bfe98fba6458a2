----------------------------- MODULE DecodePath -----------------------------
(***************************************************************************)
(* The decoder threads seen twice: the service with its slots, opens and   *)
(* rollbacks (DecodeService), and what the samples of a track's streams go *)
(* through on their way to the mixer (DecodeFeed).                         *)
(***************************************************************************)
EXTENDS DecodeService

CONSTANTS Streams, FeedRing, Packets, Wants, BlockSamples, MaxGains

VARIABLES want, feed, ring, gain, pull, played, short, gains

feed_vars == <<want, feed, ring, gain, pull, played, short, gains>>

Feed == INSTANCE DecodeFeed WITH RingSamples <- FeedRing

ASSUME FeedAssumption == Feed!FeedConstants

(* Every sample reaches the deck once and in order, on its own side but    *)
(* for the reads that ran out in mid-frame (DecodeFeed).                   *)
FeedIsLossless == Feed!EverySampleOnceInOrder /\ Feed!SidesFollowUnderruns
=============================================================================
