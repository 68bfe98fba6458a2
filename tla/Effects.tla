------------------------------- MODULE Effects -------------------------------
(***************************************************************************)
(* One slot of a deck's effects chain on the audio thread                  *)
(* (engine/src/audio/effects): the FxBank with its four effects, each with *)
(* a memory of its own, and the LFO that moves a parameter.  AudioMixer::  *)
(* render hands a callback to the slot in blocks of STEREO_PULL_FRAMES,    *)
(* while the shared clock moves only once the callback is over.  The bank  *)
(* itself and its commands are AudioMixer's; a swap moves a bank whole.  A *)
(* frame of sound is its number on the output, a cell of a delay line the  *)
(* set of frames it still carries; gains, the filters' arithmetic and the  *)
(* two sides are left out, and a percentage stands for a unit interval.    *)
(***************************************************************************)
EXTENDS AudioMixer, SequencesExt

CONSTANTS
  SampleRate,
  STEREO_PULL_FRAMES,
  MAX_DELAY_FRAMES,  \* cells of the echo's line
  CombSizes,         \* cells of the reverb's combs and allpasses, in order
  Callbacks,         \* frames a callback may ask for
  Bpms,              \* tempos the clock may be set to
  FxCommands,        \* commands the ring may hold for this slot
  MaxFrames,         \* bound: frames played
  MaxCommands        \* bound: commands applied

RateDivs == {"bar", "beat", "half", "quarter", "eighth", "sixteenth"}
LfoConfig == [shape : {"sine", "triangle", "saw", "square"}, rate_div : RateDivs,
              depth : Percent, target_param : Nat]

FxCommand ==
  [kind : {"EffectAssign"}, effect_id : Nat] \cup [kind : {"EffectClear", "EffectLfoClear"}]
    \cup [kind : {"EffectEnable"}, enabled : BOOLEAN] \cup [kind : {"EffectWetDry"}, value : Int]
    \cup [kind : {"EffectParam"}, param_id : Nat \ {0}, value : Int]
    \cup [kind : {"EffectLfoSet"}, config : LfoConfig]

\* The descriptors' defaults are in range and their table is no longer than the bank's.
EffectsConstants ==
  /\ SampleRate \in Nat \ {0} /\ STEREO_PULL_FRAMES \in Nat \ {0}
  /\ MAX_DELAY_FRAMES \in Nat \ {0, 1} /\ CombSizes \in Seq(Nat \ {0})
  /\ \A id \in DOMAIN Descriptors :
       /\ Len(Descriptors[id]) <= MAX_PARAMS
       /\ \A i \in DOMAIN Descriptors[id] :
            LET spec == ParamSpec[Descriptors[id][i]]
            IN spec \in [min : Int, max : Int, default : Int] /\ spec.default \in spec.min..spec.max
  /\ Callbacks \subseteq Nat \ {0} /\ Bpms \subseteq Nat \ {0} /\ FxCommands \subseteq FxCommand
  /\ MaxFrames \in Nat /\ MaxCommands \in Nat

VARIABLES
  bank,         \* the slot: effect_id, params, wet_dry, enabled, lfo
  filter,       \* z: frames in the biquads; coefs: the parameters they were
                \* computed for; last: those the cache remembers
  echo,         \* line, write_head, and z of the tone tilt
  reverb,       \* per comb or allpass: buf, idx, z of the damping
  local_frame,  \* Gate::local_frame
  frame,        \* SharedClock::frame
  bpm,          \* SharedClock::master_bpm
  callback,     \* frames of the callback still to render and rendered
  fed,          \* frames the present assignment has processed, in order
  heard,        \* what the last block did: the effect, the parameters, and for each
                \* frame the older frames mixed in and the gate's own time
  applied       \* commands so far

memory == <<filter, echo, reverb, local_frame>>
vars == <<bank, memory, frame, bpm, callback, fed, heard, applied>>

-----------------------------------------------------------------------------
(* The LFO, a function of the frame; its value is counted in halves. *)

Sixteenths(rate_div) ==
  CASE rate_div = "bar" -> 64 [] rate_div = "beat" -> 16 [] rate_div = "half" -> 8
    [] rate_div = "quarter" -> 4 [] rate_div = "eighth" -> 2 [] rate_div = "sixteenth" -> 1

period_frames(rate_div) == (60 * SampleRate * Sixteenths(rate_div)) \div (16 * bpm)

\* The sine is taken at the quarters of its period, where it is the triangle.
value(lfo) ==
  LET period == period_frames(lfo.rate_div)
      phase  == frame % period
  IN IF period = 0 THEN 0
     ELSE CASE lfo.shape = "saw"    -> (4 * phase) \div period - 2
            [] lfo.shape = "square" -> IF 2 * phase < period THEN 2 ELSE -2
            [] OTHER -> IF 4 * phase < period THEN (8 * phase) \div period
                        ELSE IF 4 * phase < 3 * period THEN 4 - (8 * phase) \div period
                        ELSE (8 * phase) \div period - 8

\* A thousand times two to the power of h / 2.
Octaves == [h \in -4..4 |-> <<250, 354, 500, 707, 1000, 1414, 2000, 2828, 4000>>[h + 5]]

\* Mutant: the swing is not held to the parameter's range.
apply_lfo_unclamped(p, lfo) ==
  LET descs == descriptors(bank.effect_id)
      i     == lfo.target_param + 1
  IN IF i > Len(descs) THEN p
     ELSE [p EXCEPT ![i] =
             @ + (value(lfo) * lfo.depth * (ParamSpec[descs[i]].max - ParamSpec[descs[i]].min)) \div 400]

\* A cutoff and an echo time are swung by octaves, the rest by half their range.
apply_lfo_to_params(p, lfo) ==
  LET descs == descriptors(bank.effect_id)
      i     == lfo.target_param + 1
      spec  == ParamSpec[descs[i]]
      swing == (value(lfo) * lfo.depth) \div 100
      moved == CASE descs[i] = "cutoff_hz" -> (p[i] * Octaves[2 * swing]) \div 1000
                 [] descs[i] = "time_ms"   -> (p[i] * Octaves[swing]) \div 1000
                 [] OTHER -> p[i] + (value(lfo) * lfo.depth * (spec.max - spec.min)) \div 400
  IN IF i > Len(descs) THEN p ELSE [p EXCEPT ![i] = Clamp(moved, spec.min, spec.max)]

\* The parameters of a block: the LFO is read at the start of the callback.
Effective == IF bank.lfo = None THEN bank.params ELSE apply_lfo_to_params(bank.params, bank.lfo)

-----------------------------------------------------------------------------
(* The four effects: what one frame does to the memory, and what it adds.  *)

Silent == {}

\* Before the first block no parameters are remembered.
FilterNew == [z |-> Silent, coefs |-> <<>>, last |-> <<>>]

\* reset forgets the sound and the cache; the coefficients stay until the next block.
FilterReset == [filter EXCEPT !.z = Silent, !.last = <<>>]

EchoReset == [line |-> [i \in 0..(MAX_DELAY_FRAMES - 1) |-> Silent], write_head |-> 0, z |-> Silent]
LineReset(size) == [buf |-> [i \in 0..(size - 1) |-> Silent], idx |-> 0, z |-> Silent]
ReverbReset == [c \in DOMAIN CombSizes |-> LineReset(CombSizes[c])]

\* Mutant: the cutoff alone decides whether the coefficients are still good.
refresh_coefs_cutoffOnly(p) ==
  LET key == SubSeq(p, 1, 3)
  IN IF filter.last # <<>> /\ filter.last[1] = key[1] THEN filter
     ELSE [filter EXCEPT !.coefs = key, !.last = key]

\* The coefficients are computed again when a parameter has changed.
refresh_coefs(p) ==
  LET key == SubSeq(p, 1, 3)
  IN IF filter.last = key THEN filter ELSE [filter EXCEPT !.coefs = key, !.last = key]

FilterFrame(r, n) ==
  [m |-> [r.m EXCEPT !.z = @ \cup {n}], old |-> Append(r.old, r.m.z)]

delay_frames(p) == Clamp((p[1] * SampleRate) \div 1000, 1, MAX_DELAY_FRAMES - 1)

\* Mutant: the tap is read one cell too far.
read_idx_late(head, p) == (head + MAX_DELAY_FRAMES - delay_frames(p) - 1) % MAX_DELAY_FRAMES

\* The tap is delay_frames behind the write head, around the end of the line.
read_idx(head, p) == (head + MAX_DELAY_FRAMES - delay_frames(p)) % MAX_DELAY_FRAMES

\* The tap feeds back through the tone tilt, which forgets nothing below full tone.
EchoFrame(r, n, p) ==
  LET tap == r.m.line[read_idx(r.m.write_head, p)]
      z   == tap \cup (IF p[3] = 100 THEN Silent ELSE r.m.z)
  IN [m |-> [line |-> [r.m.line EXCEPT ![r.m.write_head] =
                         {n} \cup (IF p[2] > 0 THEN z ELSE Silent)],
             write_head |-> (r.m.write_head + 1) % MAX_DELAY_FRAMES, z |-> z],
      old |-> Append(r.old, tap)]

\* A comb or an allpass: the cell under idx comes out and the frame goes in.
LineFrame(l, n) ==
  LET out == l.buf[l.idx]
      z   == out \cup l.z
  IN [buf |-> [l.buf EXCEPT ![l.idx] = {n} \cup z], idx |-> (l.idx + 1) % Cardinality(DOMAIN l.buf),
      z |-> z]

ReverbFrame(r, n) ==
  [m |-> [c \in DOMAIN r.m |-> LineFrame(r.m[c], n)],
   old |-> Append(r.old, UNION {r.m[c].buf[r.m[c].idx] : c \in DOMAIN r.m})]

\* A frame through the effect in use; the gate only counts frames.
FxFrame(r, n) ==
  CASE bank.effect_id = 1 -> FilterFrame(r, n)
    [] bank.effect_id = 2 -> EchoFrame(r, n, Effective)
    [] bank.effect_id = 3 -> ReverbFrame(r, n)
    [] OTHER -> r

gate_period(p) == (60 * SampleRate) \div (bpm * 2 ^ (Clamp(p[1], 0, 3) + 1))

open_at(f, p) ==
  gate_period(p) = 0 \/ f % gate_period(p) < (Clamp(p[2], 0, 100) * gate_period(p)) \div 100

\* Mutant: every block of a callback starts at the shared clock.
base_frame_clockOnly == frame

\* The clock stands still during a callback, so the gate counts on by itself.
base_frame == IF frame > local_frame THEN frame ELSE local_frame

-----------------------------------------------------------------------------
(* The audio thread *)

Idle == callback.left = 0 /\ callback.done = 0

NothingHeard == [id |-> 0, params |-> <<>>, old |-> <<>>, now |-> <<>>, open |-> <<>>]

Init ==
  /\ bank = NewBank /\ filter = FilterNew /\ echo = EchoReset /\ reverb = ReverbReset
  /\ local_frame = 0 /\ frame = 0 /\ bpm \in Bpms
  /\ callback = [left |-> 0, done |-> 0]
  /\ fed = <<>> /\ heard = NothingHeard /\ applied = 0

\* Mutant: an assignment resets the heads of the echo and keeps its line.
Forget_headsOnly(c) ==
  /\ filter' = IF c.effect_id = 1 THEN FilterReset ELSE filter
  /\ echo' = IF c.effect_id = 2 THEN [EchoReset EXCEPT !.line = echo.line] ELSE echo
  /\ reverb' = IF c.effect_id = 3 THEN ReverbReset ELSE reverb
  /\ local_frame' = IF c.effect_id = 4 THEN 0 ELSE local_frame

\* FxBank::assign resets the effect it turns to, and only that one.
Forget(c) ==
  /\ filter' = IF c.effect_id = 1 THEN FilterReset ELSE filter
  /\ echo' = IF c.effect_id = 2 THEN EchoReset ELSE echo
  /\ reverb' = IF c.effect_id = 3 THEN ReverbReset ELSE reverb
  /\ local_frame' = IF c.effect_id = 4 THEN 0 ELSE local_frame

\* Commands are applied at the start of a callback.
ApplyFx(c) ==
  /\ Idle /\ applied < MaxCommands
  /\ bank' = BankAfter(bank, c)
  /\ IF c.kind = "EffectAssign"
     THEN Forget(c) /\ fed' = <<>>
     ELSE UNCHANGED <<memory, fed>>
  /\ heard' = NothingHeard /\ applied' = applied + 1
  /\ UNCHANGED <<frame, bpm, callback>>

\* set_master_bpm, from the control thread, at any time.
SetMasterBpm(b) ==
  /\ b # bpm /\ applied < MaxCommands
  /\ bpm' = b /\ applied' = applied + 1
  /\ UNCHANGED <<bank, memory, frame, callback, fed, heard>>

Enter(n) ==
  /\ Idle /\ frame + n <= MaxFrames
  /\ callback' = [left |-> n, done |-> 0]
  /\ UNCHANGED <<bank, memory, frame, bpm, fed, heard, applied>>

Bypassed == ~bank.enabled \/ bank.effect_id = 0 \/ bank.wet_dry <= 0

\* FxBank::process over one block, whose frames are numbered as the output's.
Process(block) ==
  LET p   == Effective
      id  == bank.effect_id
      m   == CASE id = 1 -> refresh_coefs(p) [] id = 2 -> echo [] id = 3 -> reverb [] OTHER -> None
      out == FoldLeft(FxFrame, [m |-> m, old |-> <<>>], block)
      now == [i \in DOMAIN block |-> base_frame + i - 1]
  IN /\ filter' = IF id = 1 THEN out.m ELSE filter
     /\ echo' = IF id = 2 THEN out.m ELSE echo
     /\ reverb' = IF id = 3 THEN out.m ELSE reverb
     /\ local_frame' = IF id = 4 THEN base_frame + Len(block) ELSE local_frame
     /\ fed' = fed \o block
     /\ heard' = [id |-> id, params |-> p, old |-> out.old,
                  now |-> IF id = 4 THEN now ELSE <<>>,
                  open |-> IF id = 4 THEN [i \in DOMAIN now |-> open_at(now[i], p)] ELSE <<>>]

\* render: the next block of the callback goes through the slot.
Block ==
  /\ callback.left > 0
  /\ LET n == Min({callback.left, STEREO_PULL_FRAMES})
     IN /\ callback' = [left |-> callback.left - n, done |-> callback.done + n]
        /\ IF Bypassed THEN heard' = NothingHeard /\ UNCHANGED <<memory, fed>>
           ELSE Process([i \in 1..n |-> frame + callback.done + i - 1])
  /\ UNCHANGED <<bank, frame, bpm, applied>>

\* The callback is over and moves the shared clock.
Advance ==
  /\ callback.left = 0 /\ callback.done > 0
  /\ frame' = frame + callback.done
  /\ callback' = [left |-> 0, done |-> 0]
  /\ UNCHANGED <<bank, memory, bpm, fed, heard, applied>>

Next ==
  \/ \E c \in FxCommands : ApplyFx(c)
  \/ \E b \in Bpms : SetMasterBpm(b)
  \/ \E n \in Callbacks : Enter(n)
  \/ Block \/ Advance

Spec == Init /\ [][Next]_vars

-----------------------------------------------------------------------------
(* An effect mixes in nothing but what it was fed since the slot was       *)
(* assigned to it: no sound of an earlier assignment comes back, through   *)
(* whatever commands and callbacks (effects/mod.rs, "reset() the target so *)
(* its internal state doesn't bleed from a previous use").                 *)
NothingBleeds == \A i \in DOMAIN heard.old : heard.old[i] \subseteq ToSet(fed)

(* The echo repeats exactly the frame it was fed delay_frames ago, or      *)
(* nothing while it has been fed fewer, however the blocks fall on its     *)
(* ring and the LFO moves the delay (echo.rs, process).                    *)
EchoIsADelay ==
  heard.id = 2 =>
    \A i \in DOMAIN heard.old :
      LET before == Len(fed) - Len(heard.old) + i - 1
          delay  == delay_frames(heard.params)
          newest == {n \in heard.old[i] : \A o \in heard.old[i] : o <= n}
      IN newest = IF before >= delay THEN {fed[before - delay + 1]} ELSE Silent

(* The gate opens and closes by the frames that are really played, though  *)
(* the shared clock stands still during a callback and the slot may have   *)
(* been off for a while (gate.rs, local_frame).                            *)
GateKeepsTime ==
  \A i \in DOMAIN heard.now : heard.now[i] = fed[Len(fed) - Len(heard.now) + i]

(* The biquads run with the coefficients of the block's own parameters.    *)
FilterIsTuned == heard.id = 1 => filter.coefs = SubSeq(heard.params, 1, 3)

(* A block's parameters are in range, though a cleared slot keeps and      *)
(* takes any number and the LFO adds its swing (effects/mod.rs, lfo.rs).   *)
ParamsInRange ==
  \A i \in DOMAIN descriptors(heard.id) :
    LET spec == ParamSpec[descriptors(heard.id)[i]]
    IN heard.params[i] \in spec.min..spec.max
=============================================================================
