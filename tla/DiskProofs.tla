----------------------------- MODULE DiskProofs -----------------------------
(***************************************************************************)
(* What a session leaves on disk, for any events, sizes, rates and         *)
(* thresholds, and any number of failed writes.                            *)
(*                                                                         *)
(* The event log keeps the promise of DurableLog, also as one process      *)
(* after the other writes to its own of the session directories.  Every    *)
(* write moves lines from the buffer to the file or loses the end of the   *)
(* buffer, so that file \o buf is DurableLog's log; that the file lacks    *)
(* few lines needs the flush counter.                                      *)
(*                                                                         *)
(* A recording: samples move from the ring to the buffer and from there to *)
(* the file, so that file \o buffer \o ring changes only where a block is  *)
(* rendered; a write that fails leaves a beginning of it.                  *)
(***************************************************************************)
EXTENDS Disk, EngineStateProofs, FiniteSetTheorems, FunctionTheorems

LogState == [file : Seq(Inputs), torn : BOOLEAN, buf : Seq(Inputs), since : Nat]

\* Where a write may stop.
Stop(w) == [k : 0..Len(w.buf), cut : BOOLEAN]

FewBuffered == writer /\ faults = 0 => ~refused /\ Len(buf) <= since /\ since < FLUSH_EVERY_N

LogInv == TypeOK /\ LogIsWhatWasFolded /\ FewBuffered
-----------------------------------------------------------------------------
LEMMA SplitSeq ==
  ASSUME NEW S, NEW s \in Seq(S), NEW k \in 0..Len(s)
  PROVE  /\ SubSeq(s, 1, k) \in Seq(S) /\ Len(SubSeq(s, 1, k)) = k
         /\ SubSeq(s, k + 1, Len(s)) \in Seq(S) /\ Len(SubSeq(s, k + 1, Len(s))) = Len(s) - k
         /\ SubSeq(s, 1, k) \o SubSeq(s, k + 1, Len(s)) = s
<1>1. Len(s) \in Nat /\ \A i \in 1..Len(s) : s[i] \in S
  BY LenProperties, ElementOfSeq
<1>2. SubSeq(s, 1, k) \in Seq(S) /\ Len(SubSeq(s, 1, k)) = k
  BY <1>1, SubSeqProperties
<1>3. SubSeq(s, k + 1, Len(s)) \in Seq(S) /\ Len(SubSeq(s, k + 1, Len(s))) = Len(s) - k
  BY <1>1, SubSeqProperties
<1>4. SubSeq(s, 1, k) \o SubSeq(s, k + 1, Len(s)) = SubSeq(s, 1, Len(s))
  <2>1. 1 \in 1..Len(s) + 1 /\ k \in 1 - 1..Len(s) /\ Len(s) \in k..Len(s)
    BY <1>1
  <2> QED BY <2>1, ConcatAdjacentSubSeq
<1>5. SubSeq(s, 1, Len(s)) = s
  BY SubSeqFull
<1> QED BY <1>2, <1>3, <1>4, <1>5

LEMMA JoinSeq ==
  ASSUME NEW S, NEW s \in Seq(S), NEW t \in Seq(S)
  PROVE  /\ s \o t \in Seq(S) /\ Len(s \o t) = Len(s) + Len(t)
         /\ Len(s) \in Nat /\ Len(t) \in Nat
         /\ \A e \in S : s \o Append(t, e) = Append(s \o t, e)
         /\ s \o <<>> = s
         /\ s = SubSeq(s \o t, 1, Len(s))
<1>1. s \o t \in Seq(S) /\ Len(s \o t) = Len(s) + Len(t) /\ Len(s) \in Nat /\ Len(t) \in Nat
  BY ConcatProperties, LenProperties
<1>2. ASSUME NEW e \in S PROVE s \o Append(t, e) = Append(s \o t, e)
  <2>1. <<e>> \in Seq(S) /\ Append(t, e) = t \o <<e>> /\ Append(s \o t, e) = (s \o t) \o <<e>>
    BY <1>1, AppendIsConcat
  <2> QED BY <2>1, ConcatAssociative
<1>3. s = SubSeq(s \o t, 1, Len(s))
  <2>1. Len(s) \in 0..Len(s \o t)
    BY <1>1
  <2>2. /\ SubSeq(s \o t, 1, Len(s)) \in Seq(S) /\ Len(SubSeq(s \o t, 1, Len(s))) = Len(s)
    BY <1>1, <2>1, SplitSeq
  <2>3. ASSUME NEW i \in 1..Len(s) PROVE SubSeq(s \o t, 1, Len(s))[i] = s[i]
    <3>1. \A j \in 1..Len(s) : (s \o t)[j] \in S /\ (s \o t)[j] = s[j]
      BY <1>1, ConcatProperties, ElementOfSeq
    <3>2. SubSeq(s \o t, 1, Len(s))[i] = (s \o t)[1 + i - 1]
      BY <1>1, <3>1, SubSeqProperties
    <3> QED BY <1>1, <3>1, <3>2
  <2> QED BY <1>1, <2>2, <2>3, SeqEqual
<1> QED BY <1>1, <1>2, <1>3, ConcatEmptySeq
-----------------------------------------------------------------------------
(* A write, wherever it stops, only moves lines. *)
LEMMA FlushMoves ==
  ASSUME NEW w \in LogState, NEW o \in Stop(w), NEW x, x = FlushBuf(w, o)
  PROVE  /\ x \in LogState
         /\ x.file \o x.buf = w.file \o w.buf
         /\ Len(x.file) = Len(w.file) + o.k
         /\ Len(x.buf) = Len(w.buf) - o.k
         /\ x.since = w.since
<1>1. w = [file |-> w.file, torn |-> w.torn, buf |-> w.buf, since |-> w.since]
  BY DEF LogState
<1>2. w.file \in Seq(Inputs) /\ w.buf \in Seq(Inputs) /\ w.torn \in BOOLEAN /\ w.since \in Nat
  BY DEF LogState
<1>3. o.k \in 0..Len(w.buf) /\ o.cut \in BOOLEAN
  BY DEF Stop
<1>4. PICK b, r, t :
        /\ b = SubSeq(w.buf, 1, o.k) /\ r = SubSeq(w.buf, o.k + 1, Len(w.buf))
        /\ t = (o # Whole(w) /\ (o.cut \/ (o.k = 0 /\ w.torn)))
  OBVIOUS
<1>5. /\ b \in Seq(Inputs) /\ Len(b) = o.k /\ r \in Seq(Inputs) /\ Len(r) = Len(w.buf) - o.k
      /\ b \o r = w.buf
  <2>1. PICK s \in Seq(Inputs) : s = w.buf
    BY <1>2
  <2>2. PICK k \in 0..Len(s) : k = o.k
    BY <1>3, <2>1
  <2> QED BY <1>4, <2>1, <2>2, SplitSeq
<1>6. x = [file |-> w.file \o b, torn |-> t, buf |-> r, since |-> w.since]
  <2>1. FlushBuf(w, o) = [w EXCEPT !.file = @ \o b, !.buf = r, !.torn = t]
    BY <1>4 DEF FlushBuf
  <2> QED BY <1>1, <1>2, <2>1
<1>7. PICK f \in Seq(Inputs) : f = w.file
  BY <1>2
<1>8. f \o b \in Seq(Inputs) /\ Len(f \o b) = Len(f) + o.k
  <2>1. f \o b \in Seq(Inputs) /\ Len(f \o b) = Len(f) + Len(b)
    BY <1>5, JoinSeq
  <2> QED BY <1>5, <2>1
<1>9. t \in BOOLEAN
  BY <1>3, <1>4
<1>10. (f \o b) \o r = f \o w.buf
  <2>1. b \in Seq(Inputs) /\ r \in Seq(Inputs)
    BY <1>5
  <2>2. (f \o b) \o r = f \o (b \o r)
    BY <2>1, ConcatAssociative
  <2> QED BY <1>5, <2>2
<1>11. x.file = f \o b /\ x.torn = t /\ x.buf = r /\ x.since = w.since
  BY <1>6, <1>7
<1>12. x \in LogState
  BY <1>2, <1>5, <1>6, <1>7, <1>8, <1>9 DEF LogState
<1> QED BY <1>5, <1>7, <1>8, <1>10, <1>11, <1>12

LEMMA LogType == TypeOK => /\ Log \in LogState
                           /\ Log.file = file /\ Log.buf = buf /\ Log.since = since
BY DEF TypeOK, Log, LogState

LEMMA WholeStops == ASSUME NEW w \in LogState PROVE Whole(w) \in Stop(w) /\ Whole(w).k = Len(w.buf)
<1>1. Len(w.buf) \in Nat
  BY LenProperties DEF LogState
<1> QED BY <1>1 DEF Whole, Stop

LEMMA BrokenStops ==
  ASSUME NEW w \in LogState, NEW o \in Broken(w)
  PROVE  o \in Stop(w)
<1>1. Len(w.buf) \in Nat
  BY LenProperties DEF LogState
<1> QED BY <1>1 DEF Broken, Stop
-----------------------------------------------------------------------------
(* The line of an event that found room, or for which room was made. *)
LEMMA BufferedMoves ==
  ASSUME TypeOK, NEW ev \in Inputs, NEW full \in BOOLEAN, NoRoom(full), NEW w, w = Buffered(ev, full)
  PROVE  /\ w \in LogState /\ w.since = since + 1
         /\ w.file \o w.buf = Append(file \o buf, ev)
         /\ Len(file) <= Len(w.file) /\ Len(w.file) <= Len(file \o buf)
         /\ Len(w.buf) <= Len(buf) + 1
         /\ \E n \in BufferLines : Len(w.buf) <= n
<1>1. Log \in LogState /\ Log.file = file /\ Log.buf = buf /\ Log.since = since
  BY LogType
<1>2. /\ file \in Seq(Inputs) /\ buf \in Seq(Inputs) /\ Len(file) \in Nat /\ Len(buf) \in Nat
      /\ Len(file \o buf) = Len(file) + Len(buf) /\ since \in Nat
  BY JoinSeq DEF TypeOK
<1>4. PICK v : v = IF full THEN FlushBuf(Log, Whole(Log)) ELSE Log
  OBVIOUS
<1>5. /\ v \in LogState /\ v.file \o v.buf = file \o buf /\ v.since = since
      /\ Len(file) <= Len(v.file) /\ Len(v.file) <= Len(file \o buf)
      /\ Len(v.buf) <= Len(buf)
      /\ \E n \in BufferLines : Len(v.buf) < n
  <2>1. CASE full
    <3>1. PICK o : o = Whole(Log)
      OBVIOUS
    <3>2. o \in Stop(Log) /\ o.k = Len(buf)
      BY <1>1, <3>1, WholeStops
    <3>3. v = FlushBuf(Log, o)
      BY <1>4, <2>1, <3>1
    <3>4. /\ v \in LogState /\ v.file \o v.buf = file \o buf
          /\ Len(v.file) = Len(file) + Len(buf) /\ Len(v.buf) = Len(buf) - Len(buf)
          /\ v.since = since
      BY <1>1, <3>2, <3>3, FlushMoves
    <3>5. PICK n \in BufferLines : n \in Nat \ {0}
      BY EventLogAssumption
    <3>6. Len(v.buf) < n
      BY <1>2, <3>4, <3>5
    <3>7. /\ Len(file) <= Len(v.file) /\ Len(v.file) <= Len(file \o buf)
          /\ Len(v.buf) <= Len(buf)
      BY <1>2, <3>4
    <3> QED BY <3>4, <3>6, <3>7
  <2>2. CASE ~full
    <3>1. v = Log
      BY <1>4, <2>2
    <3>2. v \in LogState /\ v.file = file /\ v.buf = buf /\ v.since = since
      BY <1>1, <3>1
    <3>3. PICK n \in BufferLines : ~(Len(buf) >= n)
      BY <2>2 DEF NoRoom
    <3>4. Len(buf) < n
      <4>1. n \in Nat
        BY EventLogAssumption
      <4> QED BY <1>2, <3>3, <4>1
    <3>5. Len(file) <= Len(file \o buf)
      BY <1>2
    <3> QED BY <1>2, <3>2, <3>4, <3>5
  <2> QED BY <2>1, <2>2
<1>6. v = [file |-> v.file, torn |-> v.torn, buf |-> v.buf, since |-> v.since]
  BY <1>5 DEF LogState
<1>7. v.buf \in Seq(Inputs) /\ v.file \in Seq(Inputs) /\ v.torn \in BOOLEAN
  BY <1>5 DEF LogState
<1>8. PICK b, f, t : b = Append(v.buf, ev) /\ f = v.file /\ t = v.torn
  OBVIOUS
<1>9. b \in Seq(Inputs) /\ Len(b) = Len(v.buf) + 1
  BY <1>7, <1>8, AppendProperties
<1>10. f \o b = Append(file \o buf, ev)
  <2>1. PICK c \in Seq(Inputs) : c = v.buf
    BY <1>7
  <2>2. f \in Seq(Inputs) /\ b = Append(c, ev)
    BY <1>7, <1>8, <2>1
  <2>3. \A e \in Inputs : f \o Append(c, e) = Append(f \o c, e)
    BY <2>2, JoinSeq
  <2>4. f \o c = file \o buf
    BY <1>5, <1>8, <2>1
  <2> QED BY <2>2, <2>3, <2>4
<1>11. w = [file |-> f, torn |-> t, buf |-> b, since |-> since + 1]
  <2>1. w = [v EXCEPT !.buf = Append(@, ev), !.since = @ + 1]
    BY <1>4 DEF Buffered
  <2>2. w = [v EXCEPT !.buf = b, !.since = since + 1]
    <3>1. v.since = since
      BY <1>5
    <3> QED BY <1>8, <2>1, <3>1
  <2> QED BY <1>5, <1>6, <1>7, <1>8, <2>2
<1>12. w.file = f /\ w.torn = t /\ w.buf = b /\ w.since = since + 1
  BY <1>11
<1>13. w \in LogState
  <2>1. f \in Seq(Inputs) /\ t \in BOOLEAN /\ since + 1 \in Nat
    BY <1>2, <1>7, <1>8
  <2> QED BY <1>9, <1>11, <2>1 DEF LogState
<1>14. Len(b) <= Len(buf) + 1 /\ \E n \in BufferLines : Len(b) <= n
  <2>1. Len(v.buf) \in Nat
    BY <1>7, LenProperties
  <2>2. Len(v.buf) <= Len(buf)
    BY <1>5
  <2>3. PICK n \in BufferLines : Len(v.buf) < n
    BY <1>5
  <2>4. n \in Nat
    BY EventLogAssumption
  <2>5. Len(b) <= Len(buf) + 1 /\ Len(b) <= n
    BY <1>2, <1>9, <2>1, <2>2, <2>3, <2>4
  <2> QED BY <2>5
<1>15. Len(file) <= Len(f) /\ Len(f) <= Len(file \o buf)
  BY <1>5, <1>8
<1> QED BY <1>10, <1>12, <1>13, <1>14, <1>15
-----------------------------------------------------------------------------
(* What append does to the log as a whole. *)
Refuses == refused' /\ faults' # 0 /\ file' \o buf' = file \o buf
Logs(ev) ==
  /\ refused' = refused
  /\ file' \o buf' = Append(file \o buf, ev)
  /\ \/ faults' # 0
     \/ faults' = faults /\ Len(buf') <= Len(buf) + 1 /\ since' = since + 1 /\ since' < FLUSH_EVERY_N
     \/ faults' = faults /\ Len(buf') = 0 /\ since' = 0

(* The disk and the buffer stay typed, and nothing leaves the disk. *)
StaysTyped ==
  /\ file' \in Seq(Inputs) /\ torn' \in BOOLEAN /\ buf' \in Seq(Inputs) /\ since' \in Nat
  /\ faults' \in Nat /\ refused' \in BOOLEAN
  /\ \E n \in BufferLines : Len(buf') <= n
  /\ Len(file) <= Len(file')

LEMMA StoreGives ==
  ASSUME NEW x \in LogState, Store(x)
  PROVE  /\ file' \in Seq(Inputs) /\ torn' \in BOOLEAN /\ buf' \in Seq(Inputs) /\ since' \in Nat
         /\ file' = x.file /\ buf' = x.buf /\ since' = x.since
BY DEF Store, LogState

LEMMA SomeRoom == \E n \in BufferLines : 0 <= n
<1>1. PICK n : n \in BufferLines
  BY EventLogAssumption
<1>2. n \in Nat
  BY <1>1, EventLogAssumption
<1> QED BY <1>1, <1>2

(* A buffer that got no longer than one that had room has room. *)
LEMMA StillRoom ==
  ASSUME NEW s \in Seq(Inputs), NEW t \in Seq(Inputs), Len(t) <= Len(s),
         \E n \in BufferLines : Len(s) <= n
  PROVE  \E n \in BufferLines : Len(t) <= n
<1>1. PICK n \in BufferLines : Len(s) <= n
  OBVIOUS
<1>2. n \in Nat /\ Len(s) \in Nat /\ Len(t) \in Nat
  BY EventLogAssumption, LenProperties
<1>3. Len(t) <= n
  BY <1>1, <1>2
<1> QED BY <1>3

LEMMA AppendStep ==
  ASSUME TypeOK, NEW ev \in Inputs, append(ev)
  PROVE  StaysTyped /\ (Refuses \/ Logs(ev))
<1>1. Log \in LogState /\ Log.file = file /\ Log.buf = buf /\ Log.since = since
  BY LogType
<1>2. /\ file \in Seq(Inputs) /\ buf \in Seq(Inputs) /\ Len(file) \in Nat /\ Len(buf) \in Nat
      /\ since \in Nat /\ faults \in Nat /\ refused \in BOOLEAN
      /\ \E n \in BufferLines : Len(buf) <= n
  BY LenProperties DEF TypeOK
<1>3. PICK full \in BOOLEAN :
        /\ NoRoom(full)
        /\ LET w == Buffered(ev, full)
           IN \/ full /\ \E o \in Broken(Log) : Store(FlushBuf(Log, o)) /\ refused' = TRUE
                                                /\ faults' = faults + 1
              \/ ~Due(w) /\ Store(w) /\ UNCHANGED <<refused, faults>>
              \/ /\ Due(w)
                 /\ Store([FlushBuf(w, Whole(w)) EXCEPT !.since = 0]) /\ UNCHANGED <<refused, faults>>
              \/ /\ Due(w)
                 /\ \E o \in Broken(w) : Store(FlushBuf(w, o)) /\ faults' = faults + 1
                 /\ UNCHANGED refused
  BY DEF append
<1>4. PICK w : w = Buffered(ev, full)
  OBVIOUS
<1>5. /\ w \in LogState /\ w.since = since + 1
      /\ w.file \o w.buf = Append(file \o buf, ev)
      /\ Len(file) <= Len(w.file)
      /\ Len(w.buf) <= Len(buf) + 1
      /\ \E n \in BufferLines : Len(w.buf) <= n
  BY <1>3, <1>4, BufferedMoves
<1>6. /\ w.file \in Seq(Inputs) /\ w.buf \in Seq(Inputs) /\ Len(w.file) \in Nat /\ Len(w.buf) \in Nat
  BY <1>5, LenProperties DEF LogState
<1>7. CASE \E o \in Broken(Log) : Store(FlushBuf(Log, o)) /\ refused' = TRUE /\ faults' = faults + 1
  <2>1. PICK o \in Broken(Log) : Store(FlushBuf(Log, o)) /\ refused' = TRUE /\ faults' = faults + 1
    BY <1>7
  <2>2. PICK x : x = FlushBuf(Log, o)
    OBVIOUS
  <2>3. o \in Stop(Log)
    BY <1>1, <2>1, BrokenStops
  <2>4. /\ x \in LogState /\ x.file \o x.buf = Log.file \o Log.buf
        /\ Len(x.file) = Len(Log.file) + o.k /\ Len(x.buf) = Len(Log.buf) - o.k
    BY <1>1, <2>2, <2>3, FlushMoves
  <2>5. /\ file' \in Seq(Inputs) /\ torn' \in BOOLEAN /\ buf' \in Seq(Inputs) /\ since' \in Nat
        /\ file' = x.file /\ buf' = x.buf /\ since' = x.since
    BY <2>1, <2>2, <2>4, StoreGives
  <2>6. o.k \in Nat
    BY <1>1, <1>2, <2>3 DEF Stop
  <2>7. /\ file' \o buf' = file \o buf /\ Len(file) <= Len(file') /\ Len(buf') <= Len(buf)
    <3>1. file' \o buf' = file \o buf
      BY <1>1, <2>4, <2>5
    <3>2. PICK k \in Nat : k = o.k
      BY <2>6
    <3>3. Len(file') = Len(file) + k /\ Len(buf') = Len(buf) - k
      BY <1>1, <2>4, <2>5, <3>2
    <3> QED BY <1>2, <3>1, <3>3
  <2>8. \E n \in BufferLines : Len(buf') <= n
    BY <1>2, <2>5, <2>7, StillRoom
  <2>9. faults' \in Nat /\ faults' # 0
    BY <1>2, <2>1
  <2> QED BY <2>1, <2>5, <2>7, <2>8, <2>9 DEF StaysTyped, Refuses
<1>8. CASE ~Due(w) /\ Store(w) /\ UNCHANGED <<refused, faults>>
  <2>1. /\ file' \in Seq(Inputs) /\ torn' \in BOOLEAN /\ buf' \in Seq(Inputs) /\ since' \in Nat
        /\ file' = w.file /\ buf' = w.buf /\ since' = w.since
    BY <1>5, <1>8, StoreGives
  <2>2. since' < FLUSH_EVERY_N
    <3>1. since' = since + 1 /\ ~(since' >= FLUSH_EVERY_N)
      BY <1>5, <1>8, <2>1 DEF Due
    <3> QED BY <1>2, <3>1, EventLogAssumption
  <2>3. StaysTyped
    BY <1>2, <1>5, <1>8, <2>1 DEF StaysTyped
  <2>4. Logs(ev)
    BY <1>5, <1>8, <2>1, <2>2 DEF Logs
  <2> QED BY <2>3, <2>4
<1>9. CASE Store([FlushBuf(w, Whole(w)) EXCEPT !.since = 0]) /\ UNCHANGED <<refused, faults>>
  <2>1. PICK o : o = Whole(w)
    OBVIOUS
  <2>2. o \in Stop(w) /\ o.k = Len(w.buf)
    BY <1>5, <2>1, WholeStops
  <2>3. PICK x : x = FlushBuf(w, o)
    OBVIOUS
  <2>4. /\ x \in LogState /\ x.file \o x.buf = w.file \o w.buf
        /\ Len(x.file) = Len(w.file) + o.k /\ Len(x.buf) = Len(w.buf) - o.k
    BY <1>5, <2>2, <2>3, FlushMoves
  <2>5. PICK y : y = [x EXCEPT !.since = 0]
    OBVIOUS
  <2>6. y \in LogState /\ y.file = x.file /\ y.buf = x.buf /\ y.since = 0
    BY <2>4, <2>5 DEF LogState
  <2>7. /\ file' \in Seq(Inputs) /\ torn' \in BOOLEAN /\ buf' \in Seq(Inputs) /\ since' \in Nat
        /\ file' = y.file /\ buf' = y.buf /\ since' = y.since
    BY <1>9, <2>1, <2>3, <2>5, <2>6, StoreGives
  <2>8. /\ file' \o buf' = Append(file \o buf, ev) /\ since' = 0
    BY <1>5, <2>4, <2>6, <2>7
  <2>9. Len(buf') = 0 /\ Len(file) <= Len(file')
    <3>1. PICK k \in Nat, l \in Nat : k = Len(w.buf) /\ l = Len(w.file)
      BY <1>6
    <3>2. Len(buf') = k - k /\ Len(file') = l + k
      BY <2>2, <2>4, <2>6, <2>7, <3>1
    <3>3. Len(file) <= l
      BY <1>5, <3>1
    <3> QED BY <1>2, <3>2, <3>3
  <2>10. \E n \in BufferLines : Len(buf') <= n
    BY <1>2, <2>7, <2>9, StillRoom
  <2>11. StaysTyped
    BY <1>2, <1>9, <2>7, <2>9, <2>10 DEF StaysTyped
  <2>12. Logs(ev)
    BY <1>9, <2>8, <2>9 DEF Logs
  <2> QED BY <2>11, <2>12
<1>10. CASE (\E o \in Broken(w) : Store(FlushBuf(w, o)) /\ faults' = faults + 1) /\ UNCHANGED refused
  <2>1. PICK o \in Broken(w) : Store(FlushBuf(w, o)) /\ faults' = faults + 1
    BY <1>10
  <2>2. PICK x : x = FlushBuf(w, o)
    OBVIOUS
  <2>3. o \in Stop(w) /\ o.k \in Nat
    <3>1. o \in Stop(w)
      BY <1>5, <2>1, BrokenStops
    <3> QED BY <1>6, <3>1 DEF Stop
  <2>4. /\ x \in LogState /\ x.file \o x.buf = w.file \o w.buf
        /\ Len(x.file) = Len(w.file) + o.k /\ Len(x.buf) = Len(w.buf) - o.k
    BY <1>5, <2>2, <2>3, FlushMoves
  <2>5. /\ file' \in Seq(Inputs) /\ torn' \in BOOLEAN /\ buf' \in Seq(Inputs) /\ since' \in Nat
        /\ file' = x.file /\ buf' = x.buf
    BY <2>1, <2>2, <2>4, StoreGives
  <2>6. file' \o buf' = Append(file \o buf, ev)
    BY <1>5, <2>4, <2>5
  <2>7. Len(file) <= Len(file') /\ Len(buf') <= Len(w.buf)
    <3>1. Len(w.file) <= Len(file')
      BY <1>6, <2>3, <2>4, <2>5
    <3>2. Len(file') \in Nat /\ Len(file) <= Len(w.file)
      BY <1>5, <2>5, LenProperties
    <3>3. Len(buf') <= Len(w.buf)
      BY <1>6, <2>3, <2>4, <2>5
    <3> QED BY <1>2, <1>6, <3>1, <3>2, <3>3
  <2>8. \E n \in BufferLines : Len(buf') <= n
    BY <1>5, <1>6, <2>5, <2>7, StillRoom
  <2>9. faults' \in Nat /\ faults' # 0
    BY <1>2, <2>1
  <2>10. StaysTyped
    BY <1>2, <1>10, <2>5, <2>7, <2>8, <2>9 DEF StaysTyped
  <2> QED BY <1>10, <2>6, <2>9, <2>10 DEF Logs
<1> QED BY <1>3, <1>4, <1>7, <1>8, <1>9, <1>10
-----------------------------------------------------------------------------
(* Every step keeps the invariant and is a step of DurableLog, or none. *)
LEMMA ReceiveStep ==
  ASSUME LogInv, NEW ev \in Inputs, Receive(ev)
  PROVE  LogInv' /\ [Durable!Next]_Durable!vars
<1>1. /\ state' = Apply(state, ev) /\ received' = Append(received, ev)
      /\ phase' = phase /\ writer' = writer
  BY DEF Receive
<1>2. TypeOK
  BY DEF LogInv
<1>3. state' \in EngineStateType /\ received' \in Seq(Inputs)
  <2>1. ev \in EventKind
    BY EventLogAssumption
  <2> QED BY <1>1, <1>2, <2>1, ApplyType, AppendProperties DEF TypeOK
<1>4. CASE writer
  <2>1. append(ev)
    BY <1>4 DEF Receive
  <2>2. StaysTyped /\ (Refuses \/ Logs(ev))
    BY <1>2, <2>1, AppendStep
  <2>3. TypeOK'
    BY <1>1, <1>2, <1>3, <2>2 DEF TypeOK, StaysTyped
  <2>4. /\ Len(file) \in Nat /\ Len(file') \in Nat /\ Len(file \o buf) \in Nat
        /\ Len(file') <= Len(file' \o buf') /\ Len(file) <= Len(file')
    <3>1. file' \in Seq(Inputs) /\ buf' \in Seq(Inputs)
      BY <2>2 DEF StaysTyped
    <3>2. Len(file' \o buf') = Len(file') + Len(buf') /\ Len(file') \in Nat /\ Len(buf') \in Nat
      BY <3>1, JoinSeq
    <3>3. Len(file) \in Nat /\ Len(file \o buf) \in Nat
      BY <1>2, JoinSeq DEF TypeOK
    <3> QED BY <2>2, <3>2, <3>3 DEF StaysTyped
  <2>5. CASE Refuses
    <3>1. LogIsWhatWasFolded' /\ FewBuffered'
      BY <2>5 DEF Refuses, LogIsWhatWasFolded, FewBuffered
    <3>2. Durable!Persist
      BY <2>4, <2>5 DEF Refuses, Durable!Persist
    <3> QED BY <2>3, <3>1, <3>2 DEF LogInv, Durable!Next
  <2>6. CASE Logs(ev)
    <3>1. LogIsWhatWasFolded'
      BY <1>1, <2>6 DEF Logs, LogIsWhatWasFolded, LogInv
    <3>2. FewBuffered'
      <4>1. ASSUME faults' = 0 PROVE refused' = FALSE /\ Len(buf') <= since' /\ since' < FLUSH_EVERY_N
        <5>1. faults = 0 /\ refused' = refused
          BY <2>6, <4>1 DEF Logs
        <5>2. ~refused /\ Len(buf) <= since /\ since < FLUSH_EVERY_N
          BY <1>4, <5>1 DEF LogInv, FewBuffered
        <5>3. Len(buf') \in Nat /\ Len(buf) \in Nat /\ since \in Nat /\ FLUSH_EVERY_N \in Nat \ {0}
          BY <1>2, <2>3, LenProperties, EventLogAssumption DEF TypeOK
        <5>4. \/ Len(buf') <= Len(buf) + 1 /\ since' = since + 1 /\ since' < FLUSH_EVERY_N
              \/ Len(buf') = 0 /\ since' = 0
          BY <2>6, <4>1 DEF Logs
        <5>5. Len(buf') <= since' /\ since' < FLUSH_EVERY_N
          BY <5>2, <5>3, <5>4
        <5>6. refused' = FALSE
          BY <1>2, <5>1, <5>2 DEF TypeOK
        <5> QED BY <5>5, <5>6
      <4> QED BY <4>1 DEF FewBuffered
    <3>3. Durable!Accept
      <4>1. file' \o buf' = Append(file \o buf, ev)
        BY <2>6 DEF Logs
      <4>2. Len(file') \in Len(file)..Len(file' \o buf')
        BY <2>4
      <4> QED BY <4>1, <4>2 DEF Durable!Accept
    <3> QED BY <2>3, <3>1, <3>2, <3>3 DEF LogInv, Durable!Next
  <2> QED BY <2>2, <2>5, <2>6
<1>5. CASE ~writer
  <2>1. UNCHANGED <<file, torn, buf, since, refused, faults>>
    BY <1>5 DEF Receive
  <2>2. TypeOK'
    BY <1>1, <1>2, <1>3, <2>1 DEF TypeOK
  <2>3. LogIsWhatWasFolded' /\ FewBuffered'
    BY <1>1, <1>5 DEF LogIsWhatWasFolded, FewBuffered
  <2> QED BY <2>1, <2>2, <2>3 DEF LogInv, Durable!vars
<1> QED BY <1>2, <1>4, <1>5 DEF TypeOK

(* A process that starts has an empty log. *)
LEMMA BootStep ==
  ASSUME LogInv, NEW open \in BOOLEAN, Boot(open)
  PROVE  LogInv' /\ Durable!Next
<1>1. TypeOK'
  <2>1. \E n \in BufferLines : 0 <= n
    BY SomeRoom
  <2>2. <<>> \in Seq(Inputs) /\ Len(<<>>) = 0
    BY EmptySeq
  <2> QED BY <2>1, <2>2, DefaultStateType DEF Boot, TypeOK
<1>2. LogIsWhatWasFolded' /\ FewBuffered'
  <2>1. <<>> \o <<>> = <<>> /\ Len(<<>>) = 0
    BY EmptySeq, ConcatEmptySeq
  <2> QED BY <2>1, EventLogAssumption DEF Boot, LogIsWhatWasFolded, FewBuffered
<1>3. Durable!Open
  <2>1. <<>> \o <<>> = <<>> /\ Len(<<>>) = 0
    BY EmptySeq, ConcatEmptySeq
  <2> QED BY <2>1 DEF Boot, Durable!Open
<1> QED BY <1>1, <1>2, <1>3 DEF LogInv, Durable!Next

(* However a process ends, the lines on disk stay a prefix. *)
LEMMA EndStep ==
  ASSUME LogInv, Crash \/ Unwind \/ Shutdown
  PROVE  LogInv' /\ Durable!Next
<1>1. TypeOK
  BY DEF LogInv
<1>2. /\ phase' \in {"crash", "unwind", "shutdown"} /\ writer' = FALSE /\ buf' = <<>>
      /\ UNCHANGED <<since, state, received, refused>>
  BY DEF Crash, Unwind, Shutdown, Ends
<1>3. /\ file' \in Seq(Inputs) /\ torn' \in BOOLEAN /\ faults' \in Nat
      /\ Len(file) <= Len(file') /\ Len(file') <= Len(file \o buf)
      /\ file' = SubSeq(file \o buf, 1, Len(file'))
  <2>1. file \in Seq(Inputs) /\ buf \in Seq(Inputs) /\ torn \in BOOLEAN /\ faults \in Nat
    BY <1>1 DEF TypeOK
  <2>2. /\ Len(file) \in Nat /\ Len(buf) \in Nat /\ Len(file \o buf) = Len(file) + Len(buf)
        /\ file = SubSeq(file \o buf, 1, Len(file))
    BY <2>1, JoinSeq
  <2>3. CASE Crash \/ Shutdown
    <3>1. file' = file /\ torn' = torn /\ faults' = faults
      BY <2>3 DEF Crash, Shutdown
    <3> QED BY <2>1, <2>2, <3>1
  <2>4. CASE Unwind
    <3>1. PICK o \in {Whole(Log)} \cup Broken(Log) :
            /\ file' = FlushBuf(Log, o).file /\ torn' = FlushBuf(Log, o).torn
            /\ faults' = IF o = Whole(Log) THEN faults ELSE faults + 1
      BY <2>4 DEF Unwind
    <3>2. PICK x : x = FlushBuf(Log, o)
      OBVIOUS
    <3>3. Log \in LogState /\ Log.file = file /\ Log.buf = buf
      BY <1>1, LogType
    <3>4. o \in Stop(Log)
      BY <3>1, <3>3, WholeStops, BrokenStops
    <3>5. /\ x \in LogState /\ x.file \o x.buf = file \o buf /\ Len(x.file) = Len(file) + o.k
      BY <3>2, <3>3, <3>4, FlushMoves
    <3>6. o.k \in Nat
      BY <2>2, <3>3, <3>4 DEF Stop
    <3>7. /\ file' \in Seq(Inputs) /\ torn' \in BOOLEAN /\ file' = x.file
      BY <3>1, <3>2, <3>5 DEF LogState
    <3>8. PICK c \in Seq(Inputs) : c = x.buf
      BY <3>5 DEF LogState
    <3>9. /\ file' = SubSeq(file' \o c, 1, Len(file')) /\ Len(file' \o c) = Len(file') + Len(c)
          /\ Len(file') \in Nat /\ Len(c) \in Nat
      BY <3>7, JoinSeq
    <3>10. file' \o c = file \o buf
      BY <3>5, <3>7, <3>8
    <3>11. Len(file) <= Len(file') /\ Len(file') <= Len(file \o buf)
      <4>1. PICK k \in Nat : k = o.k
        BY <3>6
      <4>2. Len(file') = Len(file) + k
        BY <3>5, <3>7, <4>1
      <4>3. Len(file \o buf) = Len(file') + Len(c)
        BY <3>9, <3>10
      <4> QED BY <2>2, <3>9, <4>2, <4>3
    <3>12. faults' \in Nat
      BY <2>1, <3>1
    <3>13. file' = SubSeq(file \o buf, 1, Len(file'))
      BY <3>9, <3>10
    <3> QED BY <3>7, <3>11, <3>12, <3>13
  <2> QED BY <2>3, <2>4
<1>4. TypeOK'
  <2>1. \E n \in BufferLines : 0 <= n
    BY SomeRoom
  <2>2. <<>> \in Seq(Inputs) /\ Len(<<>>) = 0
    BY EmptySeq
  <2> QED BY <1>1, <1>2, <1>3, <2>1, <2>2 DEF TypeOK
<1>5. LogIsWhatWasFolded' /\ FewBuffered'
  BY <1>2 DEF LogIsWhatWasFolded, FewBuffered
<1>6. Durable!Lose
  <2>1. file' \o buf' = file'
    BY <1>2, <1>3, ConcatEmptySeq
  <2>2. Len(file') \in Len(file)..Len(file \o buf)
    <3>1. Len(file) \in Nat /\ Len(file') \in Nat /\ Len(file \o buf) \in Nat
      BY <1>1, <1>3, JoinSeq DEF TypeOK
    <3> QED BY <1>3, <3>1
  <2> QED BY <1>3, <2>1, <2>2 DEF Durable!Lose
<1> QED BY <1>4, <1>5, <1>6 DEF LogInv, Durable!Next

LEMMA StutterStep ==
  ASSUME LogInv, UNCHANGED vars
  PROVE  LogInv' /\ UNCHANGED Durable!vars
BY DEF LogInv, vars, log_vars, TypeOK, LogIsWhatWasFolded, FewBuffered, Durable!vars

LEMMA InitInv == Init => LogInv /\ Durable!Init
<1> SUFFICES ASSUME Init PROVE LogInv /\ Durable!Init
  OBVIOUS
<1>1. <<>> \in Seq(Inputs) /\ <<>> \o <<>> = <<>> /\ Len(<<>>) = 0
  BY EmptySeq, ConcatEmptySeq
<1>2. \E n \in BufferLines : 0 <= n
  BY SomeRoom
<1>3. TypeOK
  BY <1>1, <1>2, DefaultStateType DEF Init, TypeOK
<1>4. LogIsWhatWasFolded /\ FewBuffered /\ Durable!Init
  BY <1>1 DEF Init, LogIsWhatWasFolded, FewBuffered, Durable!Init
<1> QED BY <1>3, <1>4 DEF LogInv

LEMMA NextInv == LogInv /\ [Next]_vars => LogInv' /\ [Durable!Next]_Durable!vars
<1> SUFFICES ASSUME LogInv, [Next]_vars PROVE LogInv' /\ [Durable!Next]_Durable!vars
  OBVIOUS
<1>1. ASSUME NEW open \in BOOLEAN, Boot(open) PROVE LogInv' /\ [Durable!Next]_Durable!vars
  BY <1>1, BootStep
<1>2. ASSUME NEW ev \in Inputs, Receive(ev) PROVE LogInv' /\ [Durable!Next]_Durable!vars
  BY <1>2, ReceiveStep
<1>3. CASE Crash \/ Unwind \/ Shutdown
  BY <1>3, EndStep
<1>4. CASE UNCHANGED vars
  BY <1>4, StutterStep
<1> QED BY <1>1, <1>2, <1>3, <1>4 DEF Next
-----------------------------------------------------------------------------
(* The replay is a fold; the fold, by its defining equation over the first *)
(* n events.                                                               *)
FoldsFrom(m, s) == FoldLeft(Apply, m, s)

IsFold(f, m, s, n) ==
  f = [t \in SUBSET (1..n) |-> IF t = {} THEN m ELSE Apply(f[t \ {Max(t)}], s[Max(t)])]

(* The equation has a solution for every length: the least length without  *)
(* one would extend the solution before it.                                *)
LEMMA FoldExists ==
  ASSUME NEW m, NEW s, NEW n \in Nat
  PROVE  \E f : IsFold(f, m, s, n)
<1> DEFINE Has(k) == \E f : IsFold(f, m, s, k)
           Bad == {k \in Nat : ~Has(k)}
<1>1. Has(0)
  <2> DEFINE g == [t \in SUBSET (1..0) |-> m]
  <2>1. g = [t \in SUBSET (1..0) |-> IF t = {} THEN m ELSE Apply(g[t \ {Max(t)}], s[Max(t)])]
    OBVIOUS
  <2>2. IsFold(g, m, s, 0)
    BY <2>1 DEF IsFold
  <2> HIDE DEF g
  <2> QED BY <2>2
<1>2. ASSUME NEW k \in Nat, Has(k) PROVE Has(k+1)
  <2>1. PICK f : IsFold(f, m, s, k)
    BY <1>2
  <2> DEFINE g == [t \in SUBSET (1..(k+1)) |->
                     IF t \in SUBSET (1..k) THEN f[t] ELSE Apply(f[t \ {k+1}], s[k+1])]
  <2>2. ASSUME NEW t \in SUBSET (1..(k+1))
        PROVE  g[t] = IF t = {} THEN m ELSE Apply(g[t \ {Max(t)}], s[Max(t)])
    <3>1. CASE t \in SUBSET (1..k)
      <4>1. g[t] = f[t] BY <3>1
      <4>2. \A x : t \ {x} \in SUBSET (1..k) /\ t \ {x} \in SUBSET (1..(k+1)) BY <3>1
      <4>3. \A x : g[t \ {x}] = f[t \ {x}] BY <4>2
      <4>4. f[t] = IF t = {} THEN m ELSE Apply(f[t \ {Max(t)}], s[Max(t)])
        BY <2>1, <3>1 DEF IsFold
      <4> HIDE DEF g
      <4> QED BY <4>1, <4>3, <4>4
    <3>2. CASE t \notin SUBSET (1..k)
      <4>1. k+1 \in t BY <3>2
      <4>2. Max(t) = k+1
        <5>1. k+1 \in Nat /\ \A y \in t : y \in Nat /\ k+1 >= y OBVIOUS
        <5>2. \A x \in t : (\A y \in t : x >= y) => x = k+1
          <6> TAKE x \in t
          <6> HAVE \A y \in t : x >= y
          <6> QED BY <4>1, <5>1
        <5> QED BY <4>1, <5>1, <5>2 DEF Max
      <4>3. t \ {k+1} \in SUBSET (1..k) /\ t \ {k+1} \in SUBSET (1..(k+1)) OBVIOUS
      <4>4. g[t \ {k+1}] = f[t \ {k+1}] BY <4>3
      <4>5. g[t] = Apply(f[t \ {k+1}], s[k+1]) BY <3>2
      <4> HIDE DEF g
      <4> QED BY <4>1, <4>2, <4>4, <4>5
    <3> QED BY <3>1, <3>2
  <2>3. g = [t \in SUBSET (1..(k+1)) |-> g[t]] OBVIOUS
  <2> HIDE DEF g
  <2>4. g = [t \in SUBSET (1..(k+1)) |-> IF t = {} THEN m ELSE Apply(g[t \ {Max(t)}], s[Max(t)])]
    BY <2>2, <2>3
  <2>5. IsFold(g, m, s, k+1) BY <2>4 DEF IsFold
  <2> QED BY <2>5
<1> HIDE DEF Has
<1>3. Bad = {}
  <2> SUFFICES ASSUME Bad # {} PROVE FALSE OBVIOUS
  <2>1. PICK j \in Bad : \A i \in Bad : j <= i BY LeastNat
  <2>2. j # 0 BY <1>1
  <2>3. j - 1 \in Nat /\ j - 1 \notin Bad BY <2>1, <2>2
  <2>4. Has(j - 1) BY <2>3
  <2>5. Has((j - 1) + 1) BY <2>3, <2>4, <1>2
  <2>6. (j - 1) + 1 = j OBVIOUS
  <2> QED BY <2>5, <2>6
<1> QED BY <1>3 DEF Has

(* So the fold of the community modules satisfies it. *)
LEMMA FoldHolds ==
  ASSUME NEW m, NEW s \in Seq(Inputs)
  PROVE  \E f : IsFold(f, m, s, Len(s)) /\ FoldsFrom(m, s) = f[1..Len(s)]
<1> DEFINE f == CHOOSE f : IsFold(f, m, s, Len(s))
<1>1. IsFold(f, m, s, Len(s))
  BY FoldExists
<1>2. DOMAIN s = 1..Len(s)
  OBVIOUS
<1>3. FoldsFrom(m, s) = f[1..Len(s)]
  BY <1>2 DEF FoldsFrom, FoldLeft, MapThenFoldSet, IsFold
<1> HIDE DEF f
<1> QED BY <1>1, <1>3

(* The states a sequence of events goes through, from the first on. *)
IsRun(v, m, s) == v[0] = m /\ \A k \in 0..(Len(s) - 1) : v[k+1] = Apply(v[k], s[k+1])

(* Every sequence of events has such a run, and only one. *)
LEMMA RunExists ==
  ASSUME NEW m, NEW s \in Seq(Inputs)
  PROVE  \E v : IsRun(v, m, s) /\ FoldsFrom(m, s) = v[Len(s)]
<1>1. PICK f : IsFold(f, m, s, Len(s)) /\ FoldsFrom(m, s) = f[1..Len(s)]
  BY FoldHolds
<1> DEFINE n == Len(s)
           v == [k \in 0..n |-> f[1..k]]
<1>2. n \in Nat
  OBVIOUS
<1>3. v[0] = m
  <2>1. 1..0 = {} /\ 1..0 \in SUBSET (1..n)
    BY <1>2
  <2>2. f[1..0] = m
    BY <1>1, <2>1 DEF IsFold
  <2>3. QED
    BY <1>2, <2>2
<1>4. ASSUME NEW k \in 0..(n - 1) PROVE v[k+1] = Apply(v[k], s[k+1])
  <2> DEFINE t == 1..(k+1)
  <2>1. t \in SUBSET (1..n) /\ t # {} /\ t \ {k+1} = 1..k
    BY <1>2
  <2>2. Max(t) = k+1
    <3>1. \A x \in t : (\A y \in t : x >= y) => x = k+1
      BY <1>2
    <3>2. k+1 \in t /\ \A y \in t : k+1 >= y
      BY <1>2
    <3> HIDE DEF t
    <3>3. QED
      BY <3>1, <3>2 DEF Max
  <2> HIDE DEF t
  <2>3. f[t] = Apply(f[t \ {k+1}], s[k+1])
    BY <1>1, <2>1, <2>2 DEF IsFold
  <2>4. v[k+1] = f[t] /\ v[k] = f[1..k]
    BY <1>2 DEF t
  <2>5. QED
    BY <2>1, <2>3, <2>4
<1>5. v[n] = f[1..n]
  BY <1>2
<1> HIDE DEF v
<1>6. IsRun(v, m, s)
  BY <1>3, <1>4 DEF IsRun
<1>7. QED
  BY <1>1, <1>5, <1>6

LEMMA RunIsUnique ==
  ASSUME NEW m, NEW s \in Seq(Inputs), NEW v, IsRun(v, m, s)
  PROVE  FoldsFrom(m, s) = v[Len(s)]
<1>1. PICK w : IsRun(w, m, s) /\ FoldsFrom(m, s) = w[Len(s)]
  BY RunExists
<1> DEFINE Bad == {k \in 0..Len(s) : v[k] # w[k]}
<1>2. Bad = {}
  <2> SUFFICES ASSUME Bad # {} PROVE FALSE
    OBVIOUS
  <2>0. Bad \subseteq Nat
    OBVIOUS
  <2>1. PICK k \in Bad : \A j \in Bad : k <= j
    BY <2>0, LeastNat
  <2>2. k # 0
    BY <1>1 DEF IsRun
  <2>3. k - 1 \in 0..(Len(s) - 1) /\ k - 1 \notin Bad
    BY <2>1, <2>2
  <2>4. v[k-1] = w[k-1]
    BY <2>3
  <2>5. v[(k-1)+1] = w[(k-1)+1]
    BY <1>1, <2>3, <2>4 DEF IsRun
  <2>6. QED
    BY <2>5
<1>3. QED
  BY <1>1, <1>2

(* A replay of nothing, and of one event more. *)
LEMMA ReplayNone == replay_state(<<>>) = DefaultState
<1>1. <<>> \in Seq(Inputs) /\ Len(<<>>) = 0
  BY EmptySeq
<1>2. PICK v : IsRun(v, DefaultState, <<>>) /\ FoldsFrom(DefaultState, <<>>) = v[Len(<<>>)]
  BY <1>1, RunExists
<1>3. FoldsFrom(DefaultState, <<>>) = DefaultState
  BY <1>1, <1>2 DEF IsRun
<1> QED BY <1>3, Zenon DEF FoldsFrom, replay_state

LEMMA ReplayLast ==
  ASSUME NEW s \in Seq(Inputs), NEW ev \in Inputs
  PROVE  replay_state(Append(s, ev)) = Apply(replay_state(s), ev)
<1> DEFINE t == Append(s, ev)
           m == DefaultState
<1>1. t \in Seq(Inputs) /\ Len(t) = Len(s) + 1 /\ t[Len(s) + 1] = ev
  OBVIOUS
<1>2. \A k \in 0..(Len(s) - 1) : t[k+1] = s[k+1]
  OBVIOUS
<1> HIDE DEF t, m
<1>3. PICK v : IsRun(v, m, t) /\ FoldsFrom(m, t) = v[Len(t)]
  BY <1>1, RunExists
<1>4. IsRun(v, m, s)
  <2>1. v[0] = m /\ \A k \in 0..(Len(t) - 1) : v[k+1] = Apply(v[k], t[k+1])
    BY <1>3, Zenon DEF IsRun
  <2>2. \A k \in 0..(Len(s) - 1) : k \in 0..(Len(t) - 1)
    BY <1>1
  <2>3. \A k \in 0..(Len(s) - 1) : v[k+1] = Apply(v[k], s[k+1])
    BY <1>2, <2>1, <2>2, Zenon
  <2> QED BY <2>1, <2>3, Zenon DEF IsRun
<1>5. FoldsFrom(m, s) = v[Len(s)]
  BY <1>4, RunIsUnique
<1>6. v[Len(s) + 1] = Apply(v[Len(s)], ev)
  <2>1. Len(s) \in 0..(Len(t) - 1)
    BY <1>1
  <2>2. QED
    BY <1>1, <1>3, <2>1 DEF IsRun
<1>7. FoldsFrom(m, t) = Apply(FoldsFrom(m, s), ev)
  BY <1>1, <1>3, <1>5, <1>6
<1> QED BY <1>7, Zenon DEF FoldsFrom, replay_state, t, m

(* The state is the replay of what was received, whatever became of the    *)
(* log.                                                                    *)
StateIsReplay == received \in Seq(Inputs) /\ state = replay_state(received)

LEMMA ReplayInit == Init => StateIsReplay
BY EmptySeq, ReplayNone DEF Init, StateIsReplay

LEMMA ReplayStep == StateIsReplay /\ [Next]_vars => StateIsReplay'
<1> SUFFICES ASSUME StateIsReplay, [Next]_vars PROVE StateIsReplay'
  OBVIOUS
<1>1. ASSUME NEW open \in BOOLEAN, Boot(open) PROVE StateIsReplay'
  BY <1>1, EmptySeq, ReplayNone DEF Boot, StateIsReplay
<1>2. ASSUME NEW ev \in Inputs, Receive(ev) PROVE StateIsReplay'
  <2>1. received' = Append(received, ev) /\ state' = Apply(state, ev)
    BY <1>2 DEF Receive
  <2>2. received' \in Seq(Inputs)
    BY <2>1, AppendProperties DEF StateIsReplay
  <2>3. state' = replay_state(received')
    BY <2>1, ReplayLast, Zenon DEF StateIsReplay
  <2> QED BY <2>2, <2>3, Zenon DEF StateIsReplay
<1>3. ASSUME UNCHANGED <<state, received>> PROVE StateIsReplay'
  BY <1>3, Zenon DEF StateIsReplay
<1> QED BY <1>1, <1>2, <1>3 DEF Next, Crash, Unwind, Shutdown, Ends, vars
-----------------------------------------------------------------------------
(* Sorting: a finite set with a total order has a list in that order.  The *)
(* least set without one would have one: take any element away, and put it *)
(* before the first that it stands before.                                 *)
TotalOrder(R, S) ==
  /\ \A a, b \in S : a # b => <<a, b>> \in R \/ <<b, a>> \in R
  /\ \A a, b, c \in S : <<a, b>> \in R /\ <<b, c>> \in R => <<a, c>> \in R

InOrder(l, R, S) ==
  /\ l \in [1..Cardinality(S) -> S]
  /\ \A s \in S : \E i \in 1..Cardinality(S) : l[i] = s
  /\ \A i, j \in 1..Cardinality(S) : i < j => <<l[i], l[j]>> \in R

LEMMA InsertInOrder ==
  ASSUME NEW R, NEW S, TotalOrder(R, S), IsFiniteSet(S), NEW x \in S,
         NEW l, InOrder(l, R, S \ {x})
  PROVE  \E m : InOrder(m, R, S)
<1>1. PICK n \in Nat : /\ Cardinality(S \ {x}) = n /\ Cardinality(S) = n + 1
  <2>1. IsFiniteSet(S \ {x}) /\ Cardinality(S \ {x}) = Cardinality(S) - 1
    BY FS_RemoveElement
  <2>2. Cardinality(S \ {x}) \in Nat /\ Cardinality(S) \in Nat
    BY <2>1, FS_CardinalityType
  <2> QED BY <2>1, <2>2
<1>2. /\ l \in [1..n -> S \ {x}]
      /\ \A s \in S \ {x} : \E i \in 1..n : l[i] = s
      /\ \A i, j \in 1..n : i < j => <<l[i], l[j]>> \in R
  BY <1>1 DEF InOrder
<1> DEFINE P == {i \in 1..(n + 1) : i = n + 1 \/ <<x, l[i]>> \in R}
<1>3. PICK k \in P : \A i \in P : k <= i
  <2>1. P \subseteq Nat /\ n + 1 \in P
    BY <1>1
  <2> HIDE DEF P
  <2> QED BY <2>1, LeastNat
<1>4. k \in 1..(n + 1) /\ (k = n + 1 \/ <<x, l[k]>> \in R)
  BY <1>3
<1>5. \A i \in 1..n : i < k => <<l[i], x>> \in R
  <2> SUFFICES ASSUME NEW i \in 1..n, i < k PROVE <<l[i], x>> \in R
    OBVIOUS
  <2>1. i \notin P
    BY <1>3, <1>4
  <2>2. ~(<<x, l[i]>> \in R)
    BY <2>1
  <2>3. l[i] \in S /\ l[i] # x
    BY <1>2
  <2> QED BY <2>2, <2>3 DEF TotalOrder
<1> HIDE DEF P
<1>6. \A i \in 1..n : k <= i => <<x, l[i]>> \in R
  <2> SUFFICES ASSUME NEW i \in 1..n, k <= i PROVE <<x, l[i]>> \in R
    OBVIOUS
  <2>1. <<x, l[k]>> \in R /\ k \in 1..n
    BY <1>1, <1>4
  <2>2. k = i \/ <<l[k], l[i]>> \in R
    BY <1>2, <2>1
  <2>3. l[k] \in S /\ l[i] \in S
    BY <1>2, <2>1
  <2> QED BY <2>1, <2>2, <2>3 DEF TotalOrder
<1> DEFINE m == [i \in 1..(n + 1) |-> IF i < k THEN l[i] ELSE IF i = k THEN x ELSE l[i - 1]]
<1>7. /\ \A i \in 1..(n + 1) : i < k => i \in 1..n /\ m[i] = l[i]
      /\ m[k] = x
      /\ \A i \in 1..(n + 1) : i > k => i - 1 \in 1..n /\ i - 1 >= k /\ m[i] = l[i - 1]
  BY <1>1, <1>4
<1>8. m \in [1..(n + 1) -> S]
  <2>1. \A i \in 1..(n + 1) : m[i] \in S
    <3> SUFFICES ASSUME NEW i \in 1..(n + 1) PROVE m[i] \in S
      OBVIOUS
    <3>1. i < k \/ i = k \/ i > k
      BY <1>4
    <3> HIDE DEF m
    <3> QED BY <3>1, <1>2, <1>7
  <2>2. m = [i \in 1..(n + 1) |-> m[i]]
    OBVIOUS
  <2> HIDE DEF m
  <2> QED BY <2>1, <2>2
<1> HIDE DEF m
<1>9. \A s \in S : \E i \in 1..(n + 1) : m[i] = s
  <2> SUFFICES ASSUME NEW s \in S PROVE \E i \in 1..(n + 1) : m[i] = s
    OBVIOUS
  <2>1. CASE s = x
    BY <1>4, <1>7, <2>1
  <2>2. CASE s # x
    <3>1. PICK i \in 1..n : l[i] = s
      BY <1>2, <2>2
    <3>2. CASE i < k
      <4>1. i \in 1..(n + 1)
        BY <1>1
      <4> QED BY <1>7, <3>1, <3>2, <4>1
    <3>3. CASE i >= k
      <4>1. i + 1 \in 1..(n + 1) /\ i + 1 > k /\ (i + 1) - 1 = i
        BY <1>1, <1>4, <3>3
      <4> QED BY <1>7, <3>1, <4>1
    <3> QED BY <1>4, <3>2, <3>3
  <2> QED BY <2>1, <2>2
<1>10. \A i, j \in 1..(n + 1) : i < j => <<m[i], m[j]>> \in R
  <2> SUFFICES ASSUME NEW i \in 1..(n + 1), NEW j \in 1..(n + 1), i < j PROVE <<m[i], m[j]>> \in R
    OBVIOUS
  <2>1. CASE j < k
    <3>1. i < k
      BY <1>4, <2>1
    <3> QED BY <1>2, <1>7, <2>1, <3>1
  <2>2. CASE j = k
    BY <1>5, <1>7, <2>2
  <2>3. CASE j > k /\ i < k
    <3>1. /\ i \in 1..n /\ j - 1 \in 1..n /\ j - 1 >= k
      BY <1>7, <2>3
    <3>2. i < j - 1
      BY <1>4, <2>3, <3>1
    <3> QED BY <1>2, <1>7, <2>3, <3>1, <3>2
  <2>4. CASE j > k /\ i = k
    <3>1. j - 1 \in 1..n /\ j - 1 >= k
      BY <1>7, <2>4
    <3>2. k <= j - 1
      BY <1>4, <3>1
    <3> QED BY <1>6, <1>7, <2>4, <3>1, <3>2
  <2>5. CASE j > k /\ i > k
    <3>1. i - 1 \in 1..n /\ j - 1 \in 1..n /\ i - 1 < j - 1
      BY <1>7, <2>5
    <3> QED BY <1>2, <1>7, <2>5, <3>1
  <2> QED BY <1>4, <2>1, <2>2, <2>3, <2>4, <2>5
<1> QED BY <1>1, <1>8, <1>9, <1>10 DEF InOrder

LEMMA OrderExists ==
  ASSUME NEW R, NEW S, TotalOrder(R, S), IsFiniteSet(S)
  PROVE  \E l : InOrder(l, R, S)
<1> DEFINE Bad == {n \in Nat : \E T \in SUBSET S : Cardinality(T) = n /\ ~\E l : InOrder(l, R, T)}
<1>1. Bad = {}
  <2> SUFFICES ASSUME Bad # {} PROVE FALSE
    OBVIOUS
  <2>1. Bad \subseteq Nat
    OBVIOUS
  <2>2. PICK n \in Bad : \A i \in Bad : n <= i
    BY <2>1, LeastNat
  <2>3. PICK T \in SUBSET S : Cardinality(T) = n /\ ~\E l : InOrder(l, R, T)
    BY <2>2
  <2>4. IsFiniteSet(T) /\ n \in Nat
    BY <2>1, FS_Subset
  <2>5. TotalOrder(R, T)
    BY DEF TotalOrder
  <2>6. CASE T = {}
    <3>1. Cardinality(T) = 0
      BY <2>6, FS_EmptySet
    <3>2. InOrder(<<>>, R, T)
      BY <2>6, <3>1 DEF InOrder
    <3> QED BY <2>3, <3>2
  <2>7. CASE T # {}
    <3>1. PICK x : x \in T
      BY <2>7
    <3>2. Cardinality(T \ {x}) = n - 1 /\ n - 1 \in Nat
      <4>1. IsFiniteSet(T \ {x}) /\ Cardinality(T \ {x}) = n - 1
        BY <2>3, <2>4, <3>1, FS_RemoveElement
      <4> QED BY <4>1, FS_CardinalityType
    <3>3. n - 1 \notin Bad
      BY <2>2, <2>4
    <3>4. T \ {x} \in SUBSET S
      OBVIOUS
    <3>5. PICK l : InOrder(l, R, T \ {x})
      BY <3>2, <3>3, <3>4
    <3>6. \E m : InOrder(m, R, T)
      BY <2>4, <2>5, <3>1, <3>5, InsertInOrder
    <3> QED BY <2>3, <3>6
  <2> QED BY <2>6, <2>7
<1>2. Cardinality(S) \in Nat
  BY FS_CardinalityType
<1> QED BY <1>1, <1>2
-----------------------------------------------------------------------------
(* The directories.  The sweep of a boot cannot reach the directory of its *)
(* own session, since that is as old as the boot.                          *)
DirRecord == [born : Nat, log : BOOLEAN, lines : Nat, torn : BOOLEAN, wav : {None, 0, 44}]

StoreInv ==
  /\ now \in 0..MaxNow /\ id \in 0..MaxSessions /\ swept \in BOOLEAN
  /\ DOMAIN dirs \subseteq 1..id
  /\ \A s \in DOMAIN dirs : dirs[s] \in DirRecord
  /\ phase = "running" /\ ~swept /\ id \in DOMAIN dirs => dirs[id].born = now

LEMMA DirType ==
  ASSUME TypeOK, StoreInv, NEW s \in DOMAIN dirs
  PROVE  Dir(s) \in DirRecord /\ Dir(s).born = dirs[s].born
<1>1. dirs[s] \in DirRecord /\ Len(file) \in Nat /\ torn \in BOOLEAN
  BY LenProperties DEF TypeOK, StoreInv
<1>2. PICK n \in Nat, t \in BOOLEAN : n = Len(file) /\ t = torn
  BY <1>1
<1>3. [dirs[s] EXCEPT !.lines = n, !.torn = t] \in DirRecord
  BY <1>1 DEF DirRecord
<1>4. [dirs[s] EXCEPT !.lines = n, !.torn = t].born = dirs[s].born
  BY <1>1 DEF DirRecord
<1> QED BY <1>1, <1>2, <1>3, <1>4 DEF Dir

LEMMA StoreInitInv == StoreInit => StoreInv
<1> SUFFICES ASSUME StoreInit PROVE StoreInv
  OBVIOUS
<1>1. DOMAIN dirs = {}
  BY DEF StoreInit
<1> QED BY <1>1, SessionStoreAssumption DEF StoreInit, StoreInv

LEMMA StoreBootInv ==
  ASSUME TypeOK, StoreInv, NEW open \in BOOLEAN, NEW wav \in {None, 0, 44}, StoreBoot(open, wav)
  PROVE  StoreInv'
<1>1. /\ id' = id + 1 /\ id < MaxSessions /\ now' = now /\ swept' = FALSE
      /\ id \in Nat /\ now \in Nat /\ MaxSessions \in Nat /\ id + 1 \in 1..id'
  BY SessionStoreAssumption DEF StoreBoot, StoreInv
<1>2. /\ now' \in 0..MaxNow /\ id' \in 0..MaxSessions /\ swept' \in BOOLEAN
  <2>1. now \in 0..MaxNow
    BY DEF StoreInv
  <2>2. id' \in 0..MaxSessions
    BY <1>1
  <2> QED BY <1>1, <2>1, <2>2
<1>3. \A s \in DOMAIN dirs : s \in 1..id' /\ s # id'
  <2>1. DOMAIN dirs \subseteq 1..id
    BY DEF StoreInv
  <2>2. PICK n \in Nat : n = id /\ id' = n + 1
    BY <1>1
  <2>3. \A s \in 1..n : s \in 1..(n + 1) /\ s # n + 1
    OBVIOUS
  <2> QED BY <2>1, <2>2, <2>3
<1>4. CASE ~open /\ wav = None
  <2>1. dirs' = [s \in DOMAIN dirs |-> Dir(s)]
    BY <1>4 DEF StoreBoot, Archived
  <2>2. DOMAIN dirs' = DOMAIN dirs /\ \A s \in DOMAIN dirs : dirs'[s] = Dir(s)
    BY <2>1
  <2> QED BY <1>2, <1>3, <2>2, DirType DEF StoreInv
<1>5. CASE ~(~open /\ wav = None)
  <2> DEFINE new == [born |-> now, log |-> open, lines |-> 0, torn |-> FALSE, wav |-> wav]
  <2>1. dirs' = [s \in DOMAIN dirs \cup {id + 1} |-> IF s = id + 1 THEN new ELSE Dir(s)]
    BY <1>5, Zenon DEF StoreBoot
  <2>2. new \in DirRecord /\ new.born = now
    BY <1>1 DEF DirRecord
  <2> HIDE DEF new
  <2>3. /\ DOMAIN dirs' = DOMAIN dirs \cup {id'}
        /\ dirs'[id'] = new
        /\ \A s \in DOMAIN dirs : dirs'[s] = Dir(s)
    BY <1>1, <1>3, <2>1
  <2> QED BY <1>1, <1>2, <1>3, <2>2, <2>3, DirType DEF StoreInv
<1> QED BY <1>4, <1>5

LEMMA StoreStepInv == TypeOK /\ StoreInv /\ [StoreNext]_store_vars => StoreInv'
<1> SUFFICES ASSUME TypeOK, StoreInv, [StoreNext]_store_vars PROVE StoreInv'
  OBVIOUS
<1>1. ASSUME NEW open \in BOOLEAN, NEW wav \in {None, 0, 44}, StoreBoot(open, wav) PROVE StoreInv'
  BY <1>1, StoreBootInv
<1>2. ASSUME NEW p \in Policies, Sweep(p) PROVE StoreInv'
  <2>1. PICK gone : dirs' = [s \in DOMAIN dirs \ gone |-> dirs[s]]
    BY <1>2 DEF Sweep
  <2> QED BY <1>2, <2>1 DEF Sweep, StoreInv
<1>3. ASSUME SweepDisabled PROVE StoreInv'
  BY <1>3 DEF SweepDisabled, StoreInv
<1>4. ASSUME LogStep PROVE StoreInv'
  <2>1. phase' = "running" => swept
    <3>1. ASSUME Crash \/ Unwind \/ Shutdown PROVE phase' # "running"
      BY <3>1 DEF Crash, Unwind, Shutdown, Ends
    <3> QED BY <1>4, <3>1 DEF LogStep
  <2> QED BY <1>4, <2>1 DEF LogStep, dir_vars, StoreInv
<1>5. ASSUME NEW t \in 0..MaxNow, SetClock(t) PROVE StoreInv'
  BY <1>5 DEF SetClock, vars, StoreInv
<1>6. ASSUME UNCHANGED store_vars PROVE StoreInv'
  BY <1>6 DEF store_vars, vars, StoreInv
<1> QED BY <1>1, <1>2, <1>3, <1>4, <1>5, <1>6 DEF StoreNext

(* What a sweep takes. *)
LEMMA SweepStep ==
  ASSUME StoreInv, NEW p \in Policies, Sweep(p), NEW s \in DOMAIN dirs \ DOMAIN dirs'
  PROVE  /\ now - dirs[s].born >= p.max_age
         /\ Cardinality({t \in DOMAIN dirs' : dirs[t].born >= dirs[s].born}) >= p.min_keep
         /\ p.max_age > 0 => s # id
<1>1. p.max_age \in Nat /\ p.min_keep \in Nat
  BY SessionStoreAssumption
<1>2. PICK F \in Floors(p) :
        \E gone \in SUBSET {t \in DOMAIN dirs \ F : Stale(t, p)} :
          dirs' = [t \in DOMAIN dirs \ gone |-> dirs[t]]
  BY DEF Sweep
<1>12. PICK gone \in SUBSET {t \in DOMAIN dirs \ F : Stale(t, p)} :
        dirs' = [t \in DOMAIN dirs \ gone |-> dirs[t]]
  BY <1>2
<1>3. s \in gone /\ s \notin F /\ Stale(s, p) /\ DOMAIN dirs' = DOMAIN dirs \ gone /\ F \subseteq DOMAIN dirs'
  BY <1>2, <1>12 DEF Floors
<1>4. dirs[s].born \in Nat /\ now \in Nat
  BY DEF StoreInv, DirRecord
<1>5. dirs[s].born <= now - p.max_age
  BY <1>3 DEF Stale
<1>6. now - dirs[s].born >= p.max_age
  BY <1>1, <1>4, <1>5
<1>7. p.max_age > 0 => s # id
  <2> SUFFICES ASSUME s = id, p.max_age > 0 PROVE FALSE
    OBVIOUS
  <2>1. dirs[s].born = now
    BY DEF StoreInv, Sweep
  <2> QED BY <1>1, <1>4, <1>5, <2>1
<1>8. IsFiniteSet(DOMAIN dirs)
  <2>1. IsFiniteSet(1..id)
    BY FS_Interval DEF StoreInv
  <2> QED BY <2>1, FS_Subset DEF StoreInv
<1>9. Cardinality(F) = p.min_keep
  <2> SUFFICES ASSUME Cardinality(F) = Cardinality(DOMAIN dirs) PROVE FALSE
    BY <1>2 DEF Floors
  <2>1. F \in SUBSET DOMAIN dirs
    BY <1>2 DEF Floors
  <2>2. F = DOMAIN dirs
    BY <1>8, <2>1, FS_Subset
  <2> QED BY <1>3, <2>2
<1> DEFINE newer == {t \in DOMAIN dirs' : dirs[t].born >= dirs[s].born}
<1>10. F \subseteq newer /\ newer \subseteq DOMAIN dirs
  BY <1>2, <1>3 DEF Floors
<1> HIDE DEF newer
<1>11. IsFiniteSet(newer) /\ Cardinality(newer) >= Cardinality(F)
  <2>1. IsFiniteSet(newer)
    BY <1>8, <1>10, FS_Subset
  <2>2. Cardinality(F) <= Cardinality(newer)
    BY <1>10, <2>1, FS_Subset
  <2> QED BY <2>1, <2>2, <1>1, <1>9, FS_CardinalityType
<1> QED BY <1>6, <1>7, <1>9, <1>11 DEF newer
-----------------------------------------------------------------------------
(* The list of sessions. *)
Summaries == {Summary(s) : s \in DOMAIN dirs}

LEMMA SummaryIs ==
  ASSUME TypeOK, StoreInv, NEW s \in DOMAIN dirs
  PROVE  /\ Summary(s).id = s /\ s \in Nat /\ dirs[s].born \in Nat /\ Dir(s).lines \in Nat
         /\ Dir(s).lines > 0 => Summary(s).started_at = dirs[s].born
         /\ ~(Dir(s).lines > 0) => Summary(s).started_at = None
         /\ None \notin Nat
<1>1. Dir(s) \in DirRecord /\ Dir(s).born = dirs[s].born
  BY DirType
<1>2. s \in Nat
  BY DEF StoreInv
<1>3. None \notin Nat
  BY ConstantsAssumption
<1>4. Summary(s).started_at = IF Dir(s).lines > 0 THEN Dir(s).born ELSE None
  BY DEF Summary
<1>5. Summary(s).id = s
  BY DEF Summary
<1> QED BY <1>1, <1>2, <1>3, <1>4, <1>5 DEF DirRecord

LEMMA ListedBeforeIs ==
  ASSUME NEW a, NEW b,
         a.started_at \in Nat \cup {None}, b.started_at \in Nat \cup {None},
         a.id \in Nat, b.id \in Nat, None \notin Nat
  PROVE  ListedBefore(a, b) <=>
           \/ a.started_at = None /\ b.started_at # None
           \/ a.started_at = None /\ b.started_at = None /\ a.id > b.id
           \/ a.started_at # None /\ b.started_at # None /\ a.started_at > b.started_at
BY DEF ListedBefore

LEMMA SummariesFinite ==
  ASSUME TypeOK, StoreInv
  PROVE  /\ IsFiniteSet(Summaries) /\ Cardinality(Summaries) = Cardinality(DOMAIN dirs)
         /\ Cardinality(DOMAIN dirs) \in Nat
         /\ \A a \in Summaries : /\ a.started_at \in Nat \cup {None} /\ a.id \in DOMAIN dirs
                                 /\ a.id \in Nat /\ None \notin Nat /\ a = Summary(a.id)
<1>1. IsFiniteSet(DOMAIN dirs)
  <2>1. IsFiniteSet(1..id)
    BY FS_Interval DEF StoreInv
  <2> QED BY <2>1, FS_Subset DEF StoreInv
<1>2. IsFiniteSet(Summaries) /\ Cardinality(Summaries) = Cardinality(DOMAIN dirs)
  <2> DEFINE f == [s \in DOMAIN dirs |-> Summary(s)]
  <2>1. f \in Bijection(DOMAIN dirs, Summaries)
    <3>1. \A s, t \in DOMAIN dirs : Summary(s) = Summary(t) => s = t
      BY SummaryIs
    <3>2. f \in [DOMAIN dirs -> Summaries]
      BY DEF Summaries
    <3>3. \A s \in DOMAIN dirs : f[s] = Summary(s)
      OBVIOUS
    <3>4. \A a \in Summaries : \E s \in DOMAIN dirs : f[s] = a
      BY DEF Summaries
    <3> HIDE DEF f
    <3> QED BY <3>1, <3>2, <3>3, <3>4, Fun_IsBij
  <2>2. ExistsBijection(DOMAIN dirs, Summaries)
    BY <2>1 DEF ExistsBijection
  <2> QED BY <1>1, <2>2, FS_Bijection
<1>3. \A a \in Summaries : /\ a.started_at \in Nat \cup {None} /\ a.id \in DOMAIN dirs
                           /\ a.id \in Nat /\ None \notin Nat /\ a = Summary(a.id)
  <2> SUFFICES ASSUME NEW s \in DOMAIN dirs, NEW a, a = Summary(s)
               PROVE  /\ a.started_at \in Nat \cup {None} /\ a.id \in DOMAIN dirs
                      /\ a.id \in Nat /\ None \notin Nat /\ a = Summary(a.id)
    BY DEF Summaries
  <2> QED BY SummaryIs
<1> QED BY <1>1, <1>2, <1>3, FS_CardinalityType

(* sort_by finds an order: its comparison is a total one.                  *)
LEMMA SortingExists == ASSUME TypeOK, StoreInv PROVE Sortings # {}
<1> DEFINE R == {p \in Summaries \X Summaries : ~ListedBefore(p[2], p[1])}
<1>1. \A a, b \in Summaries : <<a, b>> \in R <=> ~ListedBefore(b, a)
  OBVIOUS
<1> HIDE DEF R
<1>2. \A a \in Summaries : /\ a.started_at \in Nat \cup {None} /\ a.id \in Nat
                           /\ None \notin Nat
  BY SummariesFinite
<1>3. TotalOrder(R, Summaries)
  <2>1. ASSUME NEW a \in Summaries, NEW b \in Summaries
        PROVE  <<a, b>> \in R \/ <<b, a>> \in R
    <3>1. ~(ListedBefore(a, b) /\ ListedBefore(b, a))
      BY <1>2, ListedBeforeIs
    <3> QED BY <1>1, <3>1
  <2>2. ASSUME NEW a \in Summaries, NEW b \in Summaries, NEW c \in Summaries,
               <<a, b>> \in R, <<b, c>> \in R
        PROVE  <<a, c>> \in R
    <3>1. ~ListedBefore(b, a) /\ ~ListedBefore(c, b)
      BY <1>1, <2>2
    <3>2. ~ListedBefore(c, a)
      BY <1>2, <3>1, ListedBeforeIs
    <3> QED BY <1>1, <3>2
  <2> QED BY <2>1, <2>2 DEF TotalOrder
<1>4. PICK l : InOrder(l, R, Summaries)
  BY <1>3, SummariesFinite, OrderExists
<1>5. PICK n \in Nat : n = Cardinality(DOMAIN dirs) /\ n = Cardinality(Summaries)
  BY SummariesFinite
<1>6. /\ l \in [1..n -> Summaries] /\ DOMAIN l = 1..n
      /\ \A a \in Summaries : \E i \in 1..n : l[i] = a
      /\ \A i, j \in 1..n : i < j => <<l[i], l[j]>> \in R
  BY <1>4, <1>5 DEF InOrder
<1>7. \A i, j \in DOMAIN l : i < j => ~ListedBefore(l[j], l[i])
  BY <1>1, <1>6
<1>8. \A s \in DOMAIN dirs : \E i \in DOMAIN l : l[i] = Summary(s)
  BY <1>6 DEF Summaries
<1>9. l \in Sortings
  BY <1>5, <1>6, <1>7, <1>8, Zenon DEF Sortings, Summaries
<1> QED BY <1>9

LEMMA SortingIs ==
  ASSUME TypeOK, StoreInv, NEW l \in Sortings
  PROVE  /\ l \in Seq(Summaries) /\ Len(l) \in Nat
         /\ \A i, j \in 1..Len(l) : i < j => ~ListedBefore(l[j], l[i])
         /\ \A s \in DOMAIN dirs : \E i \in 1..Len(l) : l[i] = Summary(s)
<1>1. PICK n \in Nat : n = Cardinality(DOMAIN dirs)
  BY SummariesFinite
<1>2. /\ l \in [1..n -> Summaries]
      /\ \A s \in DOMAIN dirs : \E i \in DOMAIN l : l[i] = Summary(s)
      /\ \A i, j \in DOMAIN l : i < j => ~ListedBefore(l[j], l[i])
  BY <1>1, Zenon DEF Sortings, Summaries
<1>3. DOMAIN l = 1..n /\ Len(l) = n /\ l \in Seq(Summaries)
  BY <1>2
<1> QED BY <1>2, <1>3

LEMMA ListCorrect == TypeOK /\ StoreInv => ListIsCutInOrder
<1> SUFFICES ASSUME TypeOK, StoreInv PROVE ListIsCutInOrder
  OBVIOUS
<1> DEFINE begun(s) == Dir(s).lines > 0
           behind(s, t) == IF begun(t) THEN begun(s) /\ dirs[s].born <= dirs[t].born
                                       ELSE begun(s) \/ s < t
           Ids(q) == {q[i].id : i \in DOMAIN q}
           InOrderOf(q) == \A i, j \in DOMAIN q : i < j => behind(q[j].id, q[i].id)
           CutOf(q) == \A s \in DOMAIN dirs \ Ids(q) :
                         Len(q) = ListLimit /\ \A t \in Ids(q) : behind(s, t)
(* Two sessions that are told apart: the one the comparison does not put   *)
(* first is behind the other.                                              *)
<1>1. ASSUME NEW s \in DOMAIN dirs, NEW t \in DOMAIN dirs, s # t,
             ~ListedBefore(Summary(s), Summary(t))
      PROVE  behind(s, t)
  <2>1. /\ Summary(s).id = s /\ s \in Nat /\ dirs[s].born \in Nat
        /\ begun(s) => Summary(s).started_at = dirs[s].born
        /\ ~begun(s) => Summary(s).started_at = None
        /\ None \notin Nat
    BY SummaryIs
  <2>2. /\ Summary(t).id = t /\ t \in Nat /\ dirs[t].born \in Nat
        /\ begun(t) => Summary(t).started_at = dirs[t].born
        /\ ~begun(t) => Summary(t).started_at = None
    BY SummaryIs
  <2> HIDE DEF begun
  <2>3. PICK a, b : a = Summary(s) /\ b = Summary(t)
    OBVIOUS
  <2>4. /\ a.started_at \in Nat \cup {None} /\ b.started_at \in Nat \cup {None}
        /\ a.id = s /\ b.id = t
    BY <2>1, <2>2, <2>3
  <2>5. ~ListedBefore(a, b)
    BY <1>1, <2>3
  <2>6. ~(\/ a.started_at = None /\ b.started_at # None
          \/ a.started_at = None /\ b.started_at = None /\ s > t
          \/ a.started_at # None /\ b.started_at # None /\ a.started_at > b.started_at)
    BY <2>1, <2>2, <2>4, <2>5, ListedBeforeIs
  <2>7. /\ begun(s) => a.started_at = dirs[s].born
        /\ ~begun(s) => a.started_at = None
        /\ begun(t) => b.started_at = dirs[t].born
        /\ ~begun(t) => b.started_at = None
    BY <2>1, <2>2, <2>3
  <2> QED BY <1>1, <2>1, <2>2, <2>6, <2>7
<1>2. ASSUME NEW l \in Sortings, NEW q, q = Listed(l)
      PROVE  InOrderOf(q) /\ CutOf(q)
  <2>1. PICK n \in Nat : n = Len(l)
    BY SortingIs
  <2>2. /\ l \in Seq(Summaries)
        /\ \A i, j \in 1..n : i < j => ~ListedBefore(l[j], l[i])
        /\ \A s \in DOMAIN dirs : \E i \in 1..n : l[i] = Summary(s)
    BY <2>1, SortingIs
  <2>3. PICK k \in 0..n : k = Clamp(n, 0, ListLimit) /\ (k = n \/ k = ListLimit)
    BY SessionStoreAssumption DEF Clamp
  <2>4. q = SubSeq(l, 1, k)
    BY <1>2, <2>1, <2>3, Zenon DEF Listed
  <2>5. DOMAIN q = 1..k /\ Len(q) = k /\ \A i \in 1..k : q[i] = l[i]
    BY <2>1, <2>2, <2>3, <2>4
  <2>6. \A i \in 1..n : l[i] \in Summaries /\ l[i].id \in DOMAIN dirs /\ l[i] = Summary(l[i].id)
    BY <2>1, <2>2, SummariesFinite
  <2>7. \A i, j \in 1..n : l[i].id = l[j].id => i = j
    <3>1. l \in [1..n -> Summaries] /\ n = Cardinality(Summaries)
      <4>1. DOMAIN l = 1..Cardinality(DOMAIN dirs) /\ Cardinality(DOMAIN dirs) \in Nat
        BY SummariesFinite DEF Sortings
      <4>2. Cardinality(DOMAIN dirs) = n
        BY <2>1, <2>2, <4>1
      <4> QED BY <2>1, <2>2, <4>2, SummariesFinite
    <3>2. \A a \in Summaries : \E i \in 1..n : l[i] = a
      BY <2>2 DEF Summaries
    <3>3. l \in Surjection(1..n, Summaries)
      BY <3>1, <3>2 DEF Surjection
    <3>4. Cardinality(1..n) = n /\ IsFiniteSet(1..n)
      BY FS_Interval
    <3>5. \A i, j \in 1..n : l[i] = l[j] => i = j
      <4>1. l \in Injection(1..n, Summaries)
        BY <3>1, <3>3, <3>4, FS_SurjSameCardinalityImpliesInj
      <4> QED BY <4>1, Fun_InjectionProperties
    <3> QED BY <2>6, <3>5
  <2>8. ASSUME NEW i \in 1..n, NEW j \in 1..n, i < j PROVE behind(l[j].id, l[i].id)
    <3>1. PICK s \in DOMAIN dirs, t \in DOMAIN dirs : s = l[j].id /\ t = l[i].id
      BY <2>6
    <3>2. s # t /\ l[j] = Summary(s) /\ l[i] = Summary(t)
      BY <2>6, <2>7, <2>8, <3>1
    <3>3. ~ListedBefore(Summary(s), Summary(t))
      BY <2>2, <2>8, <3>2
    <3> HIDE DEF behind
    <3> QED BY <1>1, <3>1, <3>2, <3>3
  <2> HIDE DEF behind
  <2>9. InOrderOf(q)
    BY <2>3, <2>5, <2>8
  <2>10. ASSUME NEW s \in DOMAIN dirs \ Ids(q)
         PROVE  Len(q) = ListLimit /\ \A t \in Ids(q) : behind(s, t)
    <3>1. PICK j \in 1..n : l[j] = Summary(s)
      BY <2>2
    <3>2. l[j].id = s
      BY <3>1, SummaryIs
    <3>3. j \notin 1..k
      <4> SUFFICES ASSUME j \in 1..k PROVE FALSE
        OBVIOUS
      <4>1. j \in DOMAIN q /\ q[j].id = s
        BY <2>5, <3>2
      <4> QED BY <4>1
    <3>4. k = ListLimit
      BY <2>3, <3>3
    <3>5. ASSUME NEW t \in Ids(q) PROVE behind(s, t)
      <4>1. PICK i \in 1..k : l[i].id = t
        BY <2>5
      <4>2. i \in 1..n /\ i < j
        BY <3>3, <4>1
      <4> QED BY <2>8, <3>2, <4>1, <4>2
    <3> QED BY <2>5, <3>4, <3>5
  <2> QED BY <2>9, <2>10
<1> QED BY <1>2, SortingExists, Zenon DEF ListIsCutInOrder
-----------------------------------------------------------------------------
(* The log keeps DurableLog's promise (ADR-003): what is on disk is never  *)
(* taken back or reordered, and the end of a process costs only what was   *)
(* still buffered.                                                         *)
THEOREM LogIsDurable == Spec => ImplementsDurableLog
<1>1. Init => Durable!Init
  BY InitInv
<1>2. Spec => []LogInv
  BY InitInv, NextInv, PTL DEF Spec
<1>3. LogInv /\ [Next]_vars => [Durable!Next]_Durable!vars
  BY NextInv
<1> QED BY <1>1, <1>2, <1>3, PTL DEF Spec, ImplementsDurableLog, Durable!Spec

(* Without refused appends, file and buffer together are every event the   *)
(* process has folded; without write errors at most FLUSH_EVERY_N - 1 of   *)
(* them can be lost (control_loop, EventLog::append).                      *)
THEOREM LogCorrect == Spec => [](TypeOK /\ LogIsWhatWasFolded /\ LossIsBounded)
<1>1. LogInv => TypeOK /\ LogIsWhatWasFolded /\ LossIsBounded
  <2> SUFFICES ASSUME LogInv, writer, faults = 0
               PROVE  Len(received) - Len(file) < FLUSH_EVERY_N
    BY DEF LogInv, LossIsBounded
  <2>1. ~refused /\ Len(buf) <= since /\ since < FLUSH_EVERY_N
    BY DEF LogInv, FewBuffered
  <2>2. received = file \o buf
    BY <2>1 DEF LogInv, LogIsWhatWasFolded
  <2>3. /\ Len(received) = Len(file) + Len(buf) /\ Len(file) \in Nat /\ Len(buf) \in Nat
        /\ since \in Nat
    BY <2>2, JoinSeq DEF LogInv, TypeOK
  <2> QED BY <2>1, <2>3, EventLogAssumption
<1> QED BY <1>1, InitInv, NextInv, PTL DEF Spec

(* A replay of a log whose lines are all on disk gives the state the       *)
(* process had when it wrote the last of them (replay.rs).                 *)
THEOREM ReplayCorrect == Spec => []ReplayMatchesLive
<1>1. Spec => []LogInv
  BY InitInv, NextInv, PTL DEF Spec
<1>2. Spec => []StateIsReplay
  BY ReplayInit, ReplayStep, PTL DEF Spec
<1>3. LogInv /\ StateIsReplay => ReplayMatchesLive
  <2> SUFFICES ASSUME LogInv, StateIsReplay, writer, ~refused, buf = <<>>, ~torn
               PROVE  Replay = state
    BY DEF ReplayMatchesLive
  <2>1. file \o <<>> = received /\ file \in Seq(Inputs)
    BY DEF LogInv, LogIsWhatWasFolded, TypeOK
  <2>2. file = received
    BY <2>1, ConcatEmptySeq
  <2> QED BY <2>2, Zenon DEF Replay, StateIsReplay
<1> QED BY <1>1, <1>2, <1>3, PTL

(* The processes that share the session directories, one after the other,  *)
(* each log in this way, whatever boots, retention sweeps and a clock that *)
(* is set back do in between (main.rs, retention.rs).                      *)
LEMMA StoreIsLog == StoreSpec => Spec
<1>1. StoreInit => Init
  BY DEF StoreInit
<1>2. [StoreNext]_store_vars => [Next]_vars
  <2> SUFFICES ASSUME [StoreNext]_store_vars PROVE [Next]_vars
    OBVIOUS
  <2>1. ASSUME NEW open \in BOOLEAN, NEW wav, StoreBoot(open, wav) PROVE Next
    BY <2>1 DEF StoreBoot, Next
  <2>2. ASSUME NEW p, Sweep(p) PROVE UNCHANGED vars
    BY <2>2 DEF Sweep
  <2>3. ASSUME NEW t, SetClock(t) PROVE UNCHANGED vars
    BY <2>3 DEF SetClock
  <2>4. SweepDisabled \/ UNCHANGED store_vars => UNCHANGED vars
    BY DEF SweepDisabled, store_vars
  <2>5. LogStep => Next
    BY DEF LogStep, Next
  <2> QED BY <2>1, <2>2, <2>3, <2>4, <2>5 DEF StoreNext
<1> QED BY <1>1, <1>2, PTL DEF StoreSpec, Spec

(* One process after the other, each on its own directory, keeps           *)
(* DurableLog's promise (ADR-003).                                         *)
THEOREM StoreIsDurable == StoreSpec => ImplementsDurableLog
BY StoreIsLog, LogIsDurable, PTL

(* Every session's log is what it folded, its replay is the live state, a  *)
(* crash costs fewer events than a flush interval, and the list of         *)
(* sessions is cut off in its order: those without events, then the others *)
(* newest first (sessions.rs).                                             *)
THEOREM StoreCorrect == StoreSpec => []LogIsTrue
<1>1. StoreSpec => [](TypeOK /\ LogIsWhatWasFolded /\ LossIsBounded) /\ []ReplayMatchesLive
  BY StoreIsLog, LogCorrect, ReplayCorrect, PTL
<1>2. StoreSpec => []StoreInv
  <2>1. StoreSpec => []TypeOK
    BY <1>1, PTL
  <2> QED BY <2>1, StoreInitInv, StoreStepInv, PTL DEF StoreSpec
<1>3. TypeOK /\ StoreInv => StoreTypeOK
  BY DEF StoreInv, StoreTypeOK, DirRecord
<1> QED BY <1>1, <1>2, <1>3, ListCorrect, PTL DEF LogIsTrue

(* The sweep of a boot takes only sessions as old as the age limit, leaves *)
(* the newest, and spares the one being recorded while the age limit is at *)
(* least a day (retention.rs).                                             *)
THEOREM SweepCorrect == StoreSpec => SweepSparesNewestAndCurrent
<1>1. StoreSpec => []TypeOK
  BY StoreIsLog, LogCorrect, PTL
<1>2. StoreSpec => []StoreInv
  BY <1>1, StoreInitInv, StoreStepInv, PTL DEF StoreSpec
<1> DEFINE Spares ==
      \A p \in Policies : Sweep(p) =>
        LET gone == DOMAIN dirs \ DOMAIN dirs'
            newer(s) == {t \in DOMAIN dirs' : dirs[t].born >= dirs[s].born}
        IN \A s \in gone : /\ now - dirs[s].born >= p.max_age
                           /\ Cardinality(newer(s)) >= p.min_keep
                           /\ p.max_age > 0 => s # id
<1>3. StoreInv => Spares
  BY SweepStep
<1> HIDE DEF Spares
<1>4. StoreSpec => [][Spares]_store_vars
  BY <1>2, <1>3, PTL DEF StoreSpec
<1> QED BY <1>4, PTL DEF SweepSparesNewestAndCurrent, Spares
-----------------------------------------------------------------------------
(* The recording.  Samples are typed as Render makes them. *)
Sample == [frame : Nat, left : BOOLEAN, level : Levels]

Line == [ts : Int, load : BOOLEAN]

RecType ==
  /\ audio \in BOOLEAN /\ dropped \in Nat
  /\ recorder \in {"none", "open", "stopping", "finished", "failed", "crashed"}
  /\ wav_writer \in {"drain", "look", "flush", "ok", "err"}
  /\ popped \in 0..Scratch
  /\ ring \in Seq(Sample) /\ Len(ring) <= RING_CAPACITY_SAMPLES
  /\ wav_buf \in Seq(Sample) /\ Len(wav_buf) <= Scratch
  /\ rendered \in Seq(Levels) /\ log_lines \in Seq(Line)
  /\ disk \in [body : Seq(Sample), torn : BOOLEAN, data : Nat, rate : {OpenRate}]

\* Every piece that is moved is of whole frames.
Even(n) == \E k \in Nat : n = 2 * k

\* ChannelsStayPaired, of any samples.
Paired(q) ==
  \A i \in 1..Len(q) :
    /\ q[i].left = (i % 2 = 1)
    /\ i > 1 => IF q[i].left THEN q[i].frame > q[i-1].frame ELSE q[i].frame = q[i-1].frame

\* q is where r begins.
Begins(q, r) == Len(q) <= Len(r) /\ \A i \in 1..Len(q) : q[i] = r[i]

\* As long as the writer is well, whole frames are everywhere and every frame
\* rendered is there or counted.
WholeFrames ==
  wav_writer # "err" =>
    /\ Paired(Rec!Recorded)
    /\ Even(Len(ring)) /\ Even(Len(wav_buf)) /\ Even(Len(disk.body))
    /\ \A i \in 1..Len(Rec!Recorded) : Rec!Recorded[i].frame <= Len(rendered)
    /\ recorder # "none" => Len(Rec!Recorded) + 2 * dropped = 2 * Len(rendered)
    /\ ~disk.torn

\* The header is a placeholder until the recorder has finished.
Header ==
  /\ disk.data # 0 => recorder = "finished"
  /\ recorder = "finished" => wav_writer = "ok" /\ disk.data = Len(disk.body)
  /\ audio => recorder \in {"none", "open"}

RecInv == RecType /\ WholeFrames /\ (wav_writer = "err" => Paired(disk.body)) /\ Header

LEMMA RecConstant ==
  /\ RING_CAPACITY_SAMPLES \in Nat \ {0} /\ Even(RING_CAPACITY_SAMPLES)
  /\ Scratch \in Nat \ {0} /\ Even(Scratch)
  /\ Blocks \subseteq Nat \ {0} /\ Levels \subseteq Nat
  /\ OpenRate \in Nat \ {0} /\ DeviceRate \in Nat \ {0}
  /\ SizeLimit \in Nat /\ MinSilentBlocks \in Nat \ {0}
<1>1. /\ RING_CAPACITY_SAMPLES \in Nat \ {0} /\ RING_CAPACITY_SAMPLES % 2 = 0
      /\ Scratch \in Nat \ {0} /\ Scratch % 2 = 0
      /\ Blocks \subseteq Nat \ {0} /\ Levels \subseteq Nat
      /\ OpenRate \in Nat \ {0} /\ DeviceRate \in Nat \ {0}
      /\ SizeLimit \in Nat /\ MinSilentBlocks \in Nat \ {0}
  BY RecorderAssumption, Zenon DEF Rec!RecorderConstants, Rec!ExportConstants
<1>2. \A n \in Nat : n % 2 = 0 => n \div 2 \in Nat /\ n = 2 * (n \div 2)
  OBVIOUS
<1>3. Even(RING_CAPACITY_SAMPLES) /\ Even(Scratch)
  BY <1>1, <1>2 DEF Even
<1> QED BY <1>1, <1>3

LEMMA JoinedAre ==
  ASSUME NEW X, NEW a \in Seq(X), NEW b \in Seq(X)
  PROVE  /\ a \o b \in Seq(X) /\ Len(a \o b) = Len(a) + Len(b)
         /\ \A i \in 1..Len(a) : (a \o b)[i] = a[i]
         /\ \A i \in 1..Len(b) : (a \o b)[Len(a) + i] = b[i]
<1> DEFINE c == a \o b
<1>4. PICK m \in Nat, n \in Nat : m = Len(a) /\ n = Len(b)
  OBVIOUS
<1>1. c \in Seq(X) /\ Len(c) = m + n
  BY <1>4, ConcatProperties
<1>2. \A i \in 1..m : c[i] = a[i]
  BY <1>4
<1>3. ASSUME NEW i \in 1..n PROVE c[m + i] = b[i]
  <2>1. m + i \in 1..(m + n) /\ m + i > m /\ (m + i) - m = i
    OBVIOUS
  <2> QED BY <1>4, <2>1
<1> QED BY <1>1, <1>2, <1>3, <1>4

LEMMA JoinAgain ==
  ASSUME NEW a \in Seq(Sample), NEW b \in Seq(Sample), NEW c \in Seq(Sample)
  PROVE  (a \o b) \o c = a \o (b \o c)
BY ConcatAssociative

LEMMA EvenSum == ASSUME NEW m, NEW n, Even(m), Even(n) PROVE Even(m + n)
<1>1. PICK i \in Nat, j \in Nat : m = 2 * i /\ n = 2 * j
  BY DEF Even
<1>2. i + j \in Nat /\ m + n = 2 * (i + j)
  BY <1>1
<1> QED BY <1>2 DEF Even

LEMMA BeginsPaired ==
  ASSUME NEW X, NEW q \in Seq(X), NEW r \in Seq(X), Begins(q, r), Paired(r)
  PROVE  Paired(q)
<1> SUFFICES ASSUME NEW i \in 1..Len(q)
             PROVE  /\ q[i].left = (i % 2 = 1)
                    /\ i > 1 => IF q[i].left THEN q[i].frame > q[i-1].frame
                                ELSE q[i].frame = q[i-1].frame
  BY Zenon DEF Paired
<1>1. i \in 1..Len(r) /\ q[i] = r[i]
  BY DEF Begins
<1>2. i > 1 => q[i-1] = r[i-1]
  BY DEF Begins
<1> QED BY <1>1, <1>2 DEF Paired

(* Whole frames after whole frames. *)
LEMMA StereoIs ==
  ASSUME NEW first \in Nat, NEW block \in Seq(Levels)
  PROVE  LET s == Rec!Stereo(block, first)
         IN /\ s \in Seq(Sample) /\ Len(s) = 2 * Len(block)
            /\ \A i \in 1..Len(s) : /\ s[i].left = (i % 2 = 1)
                                    /\ s[i].frame = first + ((i - 1) \div 2)
<1> DEFINE s == Rec!Stereo(block, first)
           n == Len(block)
           f(i) == [frame |-> first + (i - 1) \div 2, left |-> i % 2 = 1,
                    level |-> block[(i + 1) \div 2]]
<1>1. n \in Nat
  OBVIOUS
<1>2. s = [i \in 1..(2 * n) |-> f(i)]
  BY Zenon DEF Rec!Stereo
<1>3. ASSUME NEW i \in 1..(2 * n) PROVE f(i) \in Sample
  <2>1. (i + 1) \div 2 \in 1..n /\ first + (i - 1) \div 2 \in Nat
    BY <1>1
  <2>2. block[(i + 1) \div 2] \in Levels
    BY <2>1
  <2>3. (i % 2 = 1) \in BOOLEAN
    OBVIOUS
  <2> QED BY <2>1, <2>2, <2>3 DEF Sample
<1>4. \A i \in 1..(2 * n) : f(i).left = (i % 2 = 1) /\ f(i).frame = first + ((i - 1) \div 2)
  OBVIOUS
<1> HIDE DEF f, s
<1>5. s \in Seq(Sample) /\ Len(s) = 2 * n
  BY <1>1, <1>2, <1>3
<1>6. \A i \in 1..Len(s) : s[i].left = (i % 2 = 1) /\ s[i].frame = first + ((i - 1) \div 2)
  BY <1>1, <1>2, <1>4, <1>5
<1> QED BY <1>5, <1>6 DEF s

LEMMA PairedNext ==
  ASSUME NEW n \in Nat, NEW q \in Seq(Sample), NEW p \in Seq(Sample), Paired(q), Even(Len(q)),
         \A i \in 1..Len(q) : q[i].frame <= n,
         \A i \in 1..Len(p) : /\ p[i].left = (i % 2 = 1)
                              /\ p[i].frame = n + 1 + ((i - 1) \div 2)
  PROVE  Paired(q \o p)
<1>1. PICK k \in Nat : Len(q) = 2 * k
  BY DEF Even
<1>2. PICK m \in Nat, l \in Nat : m = Len(q) /\ l = Len(p)
  OBVIOUS
<1>3. PICK r : r = q \o p
  OBVIOUS
<1>4. /\ r \in Seq(Sample) /\ Len(r) = m + l /\ m = 2 * k
      /\ \A i \in 1..m : r[i] = q[i]
      /\ \A i \in 1..l : r[m + i] = p[i]
  <2>1. m = 2 * k
    BY <1>1, <1>2
  <2>2. q \in Seq(Sample) /\ p \in Seq(Sample)
    OBVIOUS
  <2>3. /\ r \in Seq(Sample) /\ Len(r) = m + l
        /\ \A i \in 1..m : r[i] = q[i]
        /\ \A i \in 1..l : r[m + i] = p[i]
    <3>1. r = q \o p /\ q \in Seq(Sample) /\ p \in Seq(Sample)
      BY <1>3
    <3>2. m \in Nat /\ m = Len(q) /\ l \in Nat /\ l = Len(p)
      BY <1>2
    <3>3. q \o p \in Seq(Sample) /\ Len(q \o p) = Len(q) + Len(p)
      BY <3>1, ConcatProperties
    <3>4. r \in Seq(Sample) /\ Len(r) = m + l
      BY <3>1, <3>2, <3>3
    <3>5. \A i \in 1..m : r[i] = q[i]
      BY <3>1, <3>2
    <3>6. \A i \in 1..l : r[m + i] = p[i]
      BY <3>1, <3>2, JoinedAre
    <3> QED BY <3>4, <3>5, <3>6
  <2> QED BY <2>1, <2>3
<1> SUFFICES ASSUME NEW i \in 1..(m + l)
             PROVE  /\ r[i].left = (i % 2 = 1)
                    /\ i > 1 => IF r[i].left THEN r[i].frame > r[i-1].frame
                                ELSE r[i].frame = r[i-1].frame
  BY <1>3, <1>4, Zenon DEF Paired
<1>5. CASE i <= m
  <2>1. i \in 1..m /\ (i > 1 => i - 1 \in 1..m)
    BY <1>5
  <2>2. r[i] = q[i] /\ (i > 1 => r[i-1] = q[i-1])
    BY <1>4, <2>1
  <2> QED BY <1>2, <2>1, <2>2 DEF Paired
<1>6. CASE i > m
  <2>1. PICK j \in 1..l : i = m + j
    <3>1. i - m \in 1..l /\ i = m + (i - m)
      BY <1>6
    <3> QED BY <3>1
  <2>2. r[i] = p[j] /\ p[j].left = (j % 2 = 1) /\ p[j].frame = n + 1 + ((j - 1) \div 2)
    BY <1>2, <1>4, <2>1
  <2>3. (j % 2 = 1) <=> (i % 2 = 1)
    BY <1>4, <2>1
  <2>4. r[i].left = (i % 2 = 1)
    BY <2>2, <2>3
  <2>5. ASSUME i > 1, j = 1 PROVE r[i].left /\ r[i].frame > r[i-1].frame
    <3>1. i - 1 \in 1..m /\ i - 1 = m
      BY <2>1, <2>5
    <3>2. r[i-1] = q[m] /\ q[m] \in Sample /\ q[m].frame <= n
      BY <1>2, <1>4, <3>1
    <3>3. q[m].frame \in Nat
      BY <3>2 DEF Sample
    <3>4. (j - 1) \div 2 = 0 /\ j % 2 = 1
      BY <2>5
    <3>5. r[i].frame = n + 1 + 0 /\ r[i].left
      BY <2>2, <3>4
    <3>6. n + 1 + 0 > q[m].frame
      BY <3>2, <3>3
    <3> QED BY <3>2, <3>5, <3>6
  <2>6. ASSUME i > 1, j > 1
        PROVE  IF r[i].left THEN r[i].frame > r[i-1].frame ELSE r[i].frame = r[i-1].frame
    <3>1. j - 1 \in 1..l /\ i - 1 = m + (j - 1)
      BY <2>1, <2>6
    <3>2. r[i-1] = p[j-1] /\ p[j-1].frame = n + 1 + (((j - 1) - 1) \div 2)
      BY <1>2, <1>4, <3>1
    <3>3. PICK a \in Nat, b \in Nat : a = ((j - 1) \div 2) /\ b = (((j - 1) - 1) \div 2)
      <4>1. j - 1 \in Nat /\ (j - 1) - 1 \in Nat
        BY <2>1, <2>6
      <4>2. \A x \in Nat : x \div 2 \in Nat
        OBVIOUS
      <4> QED BY <4>1, <4>2
    <3>4. (j % 2 = 1 => a = b + 1) /\ (j % 2 # 1 => a = b)
      <4>1. PICK x \in Nat : j = x + 2
        <5>1. j - 2 \in Nat /\ j = (j - 2) + 2
          BY <2>1, <2>6
        <5> QED BY <5>1
      <4>2. a = (x + 1) \div 2 /\ b = x \div 2
        BY <3>3, <4>1
      <4> QED BY <4>1, <4>2
    <3>5. p[j].frame = n + 1 + a /\ p[j-1].frame = n + 1 + b
      BY <2>2, <3>2, <3>3
    <3>6. CASE j % 2 = 1
      <4>1. n + 1 + a > n + 1 + b
        BY <3>4, <3>6
      <4> QED BY <2>2, <3>2, <3>5, <3>6, <4>1
    <3>7. CASE j % 2 # 1
      BY <2>2, <3>2, <3>4, <3>5, <3>7
    <3> QED BY <3>6, <3>7
  <2>7. j = 1 \/ j > 1
    BY <2>1
  <2> QED BY <2>4, <2>5, <2>6, <2>7
<1> QED BY <1>5, <1>6

-----------------------------------------------------------------------------
(* BufWriter keeps what it is given in order and whole. *)
LEMMA WrittenIs ==
  ASSUME NEW b \in Seq(Sample), NEW u \in Seq(Sample), NEW p \in Seq(Sample),
         Even(Len(b)), Even(Len(u)), Even(Len(p)),
         Len(u) <= Scratch, Len(p) <= Scratch
  PROVE  LET w == Rec!Written([body |-> b, buf |-> u], p)
         IN /\ w.body \in Seq(Sample) /\ w.buf \in Seq(Sample)
            /\ Even(Len(w.body)) /\ Even(Len(w.buf)) /\ Len(w.buf) <= Scratch
            /\ w.body \o w.buf = (b \o u) \o p
<1> DEFINE w == Rec!Written([body |-> b, buf |-> u], p)
<1> DEFINE flushed == [body |-> b \o u, buf |-> <<>>]
           v == IF Len(u) + Len(p) <= Scratch THEN [body |-> b, buf |-> u] ELSE flushed
<1>1. PICK i \in Nat, j \in Nat, k \in Nat : Len(b) = 2 * i /\ Len(u) = 2 * j /\ Len(p) = 2 * k
  BY DEF Even
<1>2. b \o u \in Seq(Sample) /\ Len(b \o u) = 2 * (i + j)
  <2>1. b \o u \in Seq(Sample) /\ Len(b \o u) = Len(b) + Len(u)
    BY ConcatProperties
  <2> QED BY <1>1, <2>1
<1>3. <<>> \in Seq(Sample) /\ Len(<<>>) = 0 /\ (b \o u) \o <<>> = b \o u
  BY <1>2
<1>4. Scratch \in Nat \ {0}
  BY RecConstant
<1>5. /\ v.body \in Seq(Sample) /\ v.buf \in Seq(Sample)
      /\ v.body \o v.buf = b \o u
      /\ \E m \in Nat, l \in Nat : Len(v.body) = 2 * m /\ Len(v.buf) = 2 * l
      /\ Len(v.buf) = 0 \/ Len(v.buf) + Len(p) <= Scratch
      /\ v = [body |-> v.body, buf |-> v.buf]
  <2>1. CASE Len(u) + Len(p) <= Scratch
    BY <1>1, <2>1
  <2>2. CASE ~(Len(u) + Len(p) <= Scratch)
    <3>1. v = flushed
      BY <2>2
    <3>2. i + j \in Nat /\ 0 \in Nat /\ Len(<<>>) = 2 * 0
      OBVIOUS
    <3> QED BY <1>2, <1>3, <3>1, <3>2
  <2> QED BY <2>1, <2>2
<1>6. w = IF Len(p) >= Scratch THEN [body |-> v.body \o p, buf |-> <<>>]
          ELSE [v EXCEPT !.buf = @ \o p]
  BY DEF Rec!Written
<1> SUFFICES /\ w.body \in Seq(Sample) /\ w.buf \in Seq(Sample)
             /\ Even(Len(w.body)) /\ Even(Len(w.buf)) /\ Len(w.buf) <= Scratch
             /\ w.body \o w.buf = (b \o u) \o p
  OBVIOUS
<1> HIDE DEF v, flushed, w
<1>7. PICK vb \in Seq(Sample), vu \in Seq(Sample), m \in Nat, l \in Nat :
        /\ v = [body |-> vb, buf |-> vu] /\ vb \o vu = b \o u
        /\ Len(vb) = 2 * m /\ Len(vu) = 2 * l
        /\ Len(vu) = 0 \/ Len(vu) + Len(p) <= Scratch
  BY <1>5
<1>8. CASE Len(p) >= Scratch
  <2>1. w.body = vb \o p /\ w.buf = <<>>
    <3>1. v.body = vb
      BY <1>7
    <3>2. w = [body |-> vb \o p, buf |-> <<>>]
      BY <1>6, <1>8, <3>1
    <3> QED BY <3>2
  <2>2. Len(vu) = 0
    BY <1>1, <1>4, <1>7, <1>8
  <2>3. vu = <<>>
    BY <1>7, <2>2, EmptySeq
  <2>4. vb = b \o u
    BY <1>7, <2>3, ConcatEmptySeq
  <2>5. vb \o p \in Seq(Sample) /\ Len(vb \o p) = 2 * (m + k) /\ m + k \in Nat
    <3>1. vb \o p \in Seq(Sample) /\ Len(vb \o p) = Len(vb) + Len(p)
      BY ConcatProperties
    <3> QED BY <1>1, <1>7, <3>1
  <2>6. (vb \o p) \o <<>> = vb \o p
    BY <2>5, ConcatEmptySeq
  <2>7. Len(<<>>) = 2 * 0 /\ 0 \in Nat /\ 0 <= Scratch
    BY <1>4
  <2> QED BY <1>3, <2>1, <2>4, <2>5, <2>6, <2>7 DEF Even
<1>9. CASE ~(Len(p) >= Scratch)
  <2>1. w.body = vb /\ w.buf = vu \o p
    BY <1>6, <1>7, <1>9
  <2>2. vu \o p \in Seq(Sample) /\ Len(vu \o p) = 2 * (l + k) /\ l + k \in Nat
    <3>1. vu \o p \in Seq(Sample) /\ Len(vu \o p) = Len(vu) + Len(p)
      BY ConcatProperties
    <3> QED BY <1>1, <1>7, <3>1
  <2>3. (vb \o vu) \o p = vb \o (vu \o p)
    <3>1. vb \in Seq(Sample) /\ vu \in Seq(Sample) /\ p \in Seq(Sample)
      BY <1>7
    <3> QED BY <3>1, JoinAgain
  <2>4. Len(vu \o p) <= Scratch
    BY <1>1, <1>7, <2>2
  <2> QED BY <1>7, <2>1, <2>2, <2>3, <2>4 DEF Even
<1> QED BY <1>8, <1>9

LEMMA Pieces ==
  ASSUME NEW X, NEW q \in Seq(X), NEW p \in Seq(X), NEW r \in Seq(X),
         Len(q) = Len(p) + Len(r),
         \A i \in 1..Len(p) : q[i] = p[i],
         \A i \in 1..Len(r) : q[Len(p) + i] = r[i]
  PROVE  p \o r = q
<1>1. PICK t \in Nat, m \in Nat : t = Len(p) /\ m = Len(r)
  OBVIOUS
<1>2. /\ p \o r \in Seq(X) /\ Len(p \o r) = Len(p) + Len(r)
      /\ \A i \in 1..Len(p) : (p \o r)[i] = p[i]
      /\ \A i \in 1..Len(r) : (p \o r)[Len(p) + i] = r[i]
  BY JoinedAre
<1>3. PICK c \in Seq(X) : /\ c = p \o r /\ Len(c) = t + m
                          /\ \A i \in 1..t : c[i] = p[i]
                          /\ \A i \in 1..m : c[t + i] = r[i]
  BY <1>1, <1>2, Zenon
<1>4. ASSUME NEW i \in 1..(t + m) PROVE c[i] = q[i]
  <2>1. CASE i <= t
    BY <1>1, <1>3, <2>1
  <2>2. CASE i > t
    <3>1. PICK k \in 1..m : i = t + k
      <4>1. i - t \in 1..m /\ i = t + (i - t)
        BY <2>2
      <4> QED BY <4>1
    <3> QED BY <1>1, <1>3, <3>1
  <2> QED BY <2>1, <2>2
<1>5. Len(c) = Len(q)
  BY <1>1, <1>3
<1>6. c = q
  BY <1>1, <1>3, <1>4, <1>5, SeqEqual
<1> QED BY <1>3, <1>6

LEMMA SplitIs ==
  ASSUME NEW X, NEW q \in Seq(X), NEW t \in 0..Len(q)
  PROVE  LET p == SubSeq(q, 1, t)
             r == SubSeq(q, t + 1, Len(q))
         IN /\ p \in Seq(X) /\ r \in Seq(X) /\ Len(p) = t /\ Len(r) = Len(q) - t
            /\ p \o r = q /\ \A i \in 1..t : p[i] = q[i]
<1> DEFINE p == SubSeq(q, 1, t)
           r == SubSeq(q, t + 1, Len(q))
<1>1. PICK n \in Nat : n = Len(q) /\ t \in 0..n
  OBVIOUS
<1>2. p \in Seq(X) /\ Len(p) = t /\ \A i \in 1..t : p[i] = q[i]
  BY <1>1
<1>3. r \in Seq(X) /\ Len(r) = n - t /\ \A i \in 1..(n - t) : r[i] = q[t + i]
  <2>1. r \in Seq(X) /\ Len(r) = n - t
    BY <1>1
  <2>2. ASSUME NEW i \in 1..(n - t) PROVE r[i] = q[t + i]
    <3>1. (t + 1) + i - 1 = t + i
      BY <1>1
    <3> QED BY <1>1, <2>1, <3>1
  <2> QED BY <2>1, <2>2
<1> HIDE DEF p, r
<1>4. Len(q) = Len(p) + Len(r)
  <2>1. n = t + (n - t)
    BY <1>1
  <2> QED BY <1>1, <1>2, <1>3, <2>1
<1>5. p \o r = q
  <2>1. \A i \in 1..Len(p) : q[i] = p[i]
    BY <1>2
  <2>2. \A i \in 1..Len(r) : q[Len(p) + i] = r[i]
    BY <1>1, <1>2, <1>3
  <2>3. p \in Seq(X) /\ r \in Seq(X)
    BY <1>2, <1>3
  <2> QED BY <1>4, <2>1, <2>2, <2>3, Pieces
<1> QED BY <1>1, <1>2, <1>3, <1>5 DEF p, r

LEMMA RecInit == Rec!Init => RecInv
<1> SUFFICES ASSUME Rec!Init PROVE RecInv
  OBVIOUS
<1>1. <<>> \in Seq(Sample) /\ <<>> \in Seq(Levels) /\ <<>> \in Seq(Line) /\ Len(<<>>) = 0 /\ 0 \in Nat
  OBVIOUS
<1>2. disk = [body |-> <<>>, torn |-> FALSE, data |-> 0, rate |-> OpenRate]
  BY DEF Rec!Init, Rec!EmptyFile
<1>3. RecType
  BY <1>1, <1>2, RecConstant DEF Rec!Init, RecType
<1>4. Rec!Recorded = <<>>
  BY <1>2 DEF Rec!Init, Rec!Recorded
<1>5. Even(0) /\ Paired(<<>>)
  <2>1. 0 = 2 * 0 /\ 0 \in Nat
    OBVIOUS
  <2> QED BY <2>1 DEF Even, Paired
<1>6. WholeFrames
  BY <1>1, <1>2, <1>4, <1>5 DEF Rec!Init, WholeFrames
<1>7. Header
  BY <1>2 DEF Rec!Init, Header
<1>8. wav_writer # "err"
  BY DEF Rec!Init
<1> QED BY <1>3, <1>6, <1>7, <1>8 DEF RecInv

(* What the writer has not lost is in order, whatever moves between the    *)
(* ring, its buffer and the file.                                          *)
LEMMA RecordedType ==
  ASSUME RecType
  PROVE  Rec!Recorded \in Seq(Sample) /\ disk.body \in Seq(Sample)
<1>1. disk.body \in Seq(Sample) /\ wav_buf \in Seq(Sample) /\ ring \in Seq(Sample)
  BY DEF RecType
<1> QED BY <1>1, ConcatProperties DEF Rec!Recorded

LEMMA RenderKeeps ==
  ASSUME RecInv, NEW n \in Nat, NEW block \in [1..n -> Levels], Rec!Render(block)
  PROVE  RecInv'
<1>1. /\ UNCHANGED <<audio, recorder, stop_flag, wav_writer, popped, disk, wav_buf, log_lines>>
      /\ rendered' = rendered \o block /\ audio
  BY DEF Rec!Render
<1>2. block \in Seq(Levels) /\ Len(block) = n
  OBVIOUS
<1>3. PICK l \in Nat : l = Len(rendered) /\ Len(rendered') = l + n /\ rendered' \in Seq(Levels)
  <2>1. rendered \in Seq(Levels)
    BY DEF RecInv, RecType
  <2>2. rendered \o block \in Seq(Levels) /\ Len(rendered \o block) = Len(rendered) + Len(block)
    BY <1>2, <2>1, ConcatProperties
  <2> QED BY <1>1, <1>2, <2>1, <2>2
<1>4. Header'
  BY <1>1 DEF RecInv, Header
<1>5. (wav_writer = "err" => Paired(disk.body))'
  BY <1>1 DEF RecInv, Paired
<1>6. CASE recorder = "none"
  <2>1. ring' = ring /\ dropped' = dropped
    BY <1>6 DEF Rec!Render
  <2>2. RecType'
    BY <1>1, <1>3, <2>1 DEF RecInv, RecType
  <2>3. Rec!Recorded' = Rec!Recorded
    BY <1>1, <2>1, Zenon DEF Rec!Recorded
  <2>4. WholeFrames'
    <3> SUFFICES ASSUME wav_writer # "err" PROVE WholeFrames'
      BY <1>1 DEF WholeFrames
    <3>1. PICK q \in Seq(Sample) : q = Rec!Recorded /\ q = Rec!Recorded'
      BY <2>3, RecordedType DEF RecInv
    <3>2. \A i \in 1..Len(q) : q[i].frame \in Nat /\ q[i].frame <= l
      <4>1. \A i \in 1..Len(q) : q[i].frame <= l
        BY <1>3, <3>1 DEF RecInv, WholeFrames
      <4>2. \A i \in 1..Len(q) : q[i] \in Sample
        OBVIOUS
      <4>3. \A i \in 1..Len(q) : q[i].frame \in Nat
        BY <4>2 DEF Sample
      <4> QED BY <4>1, <4>3
    <3>3. \A i \in 1..Len(q) : q[i].frame <= l + n
      BY <3>2
    <3>4. \A i \in 1..Len(Rec!Recorded') : Rec!Recorded'[i].frame <= Len(rendered')
      BY <1>3, <3>1, <3>3
    <3> QED BY <1>1, <1>6, <2>1, <2>3, <3>4 DEF RecInv, WholeFrames, Paired
  <2> QED BY <1>4, <1>5, <2>2, <2>4 DEF RecInv
<1>7. CASE recorder # "none"
  <2>1. PICK s, k, p : /\ s = Rec!Stereo(block, l + 1)
                       /\ k = IF Len(s) < Rec!Room THEN Len(s) ELSE Rec!Room
                       /\ p = SubSeq(s, 1, k)
    OBVIOUS
  <2>2. /\ s \in Seq(Sample) /\ Len(s) = 2 * n
        /\ \A i \in 1..Len(s) : s[i].left = (i % 2 = 1) /\ s[i].frame = (l + 1) + ((i - 1) \div 2)
    <3>1. PICK f \in Nat : f = l + 1
      OBVIOUS
    <3>2. s = Rec!Stereo(block, f)
      BY <2>1, <3>1
    <3>3. /\ s \in Seq(Sample) /\ Len(s) = 2 * Len(block)
          /\ \A i \in 1..Len(s) : s[i].left = (i % 2 = 1) /\ s[i].frame = f + ((i - 1) \div 2)
      BY <1>2, <3>2, StereoIs
    <3> QED BY <1>2, <3>1, <3>3
  <2>3. PICK room \in Nat : /\ room = Rec!Room /\ room = RING_CAPACITY_SAMPLES - Len(ring)
                            /\ Len(ring) \in Nat
    <3>1. Len(ring) \in Nat /\ Len(ring) <= RING_CAPACITY_SAMPLES
      BY DEF RecInv, RecType
    <3> QED BY <3>1, RecConstant DEF Rec!Room
  <2>4. k \in Nat /\ k <= 2 * n /\ k <= room /\ (k = 2 * n \/ k = room)
    <3>1. k = IF 2 * n < room THEN 2 * n ELSE room
      BY <2>1, <2>2, <2>3
    <3> QED BY <3>1
  <2>5. p \in Seq(Sample) /\ Len(p) = k /\ \A i \in 1..k : p[i] = s[i]
    BY <2>1, <2>2, <2>4
  <2>6. ring' = ring \o p /\ dropped' = dropped + ((2 * n - k) \div 2)
    <3>1. Rec!Fits(s) = p
      BY <2>1, Zenon DEF Rec!Fits
    <3>2. ring' = ring \o p /\ dropped' = dropped + Rec!DroppedNow(s)
      BY <1>3, <1>7, <2>1, <3>1 DEF Rec!Render
    <3>3. Rec!DroppedNow(s) = (2 * n - k) \div 2
      BY <2>2, <2>5, <3>1 DEF Rec!DroppedNow
    <3> QED BY <3>2, <3>3
  <2>7. (2 * n - k) \div 2 \in Nat
    BY <2>4
  <2>8. ring' \in Seq(Sample) /\ Len(ring') = Len(ring) + k /\ Len(ring') <= RING_CAPACITY_SAMPLES
    <3>1. ring \in Seq(Sample)
      BY DEF RecInv, RecType
    <3>2. ring \o p \in Seq(Sample) /\ Len(ring \o p) = Len(ring) + Len(p)
      BY <2>5, <3>1, ConcatProperties
    <3> QED BY <2>3, <2>4, <2>5, <2>6, <3>2, RecConstant
  <2>9. RecType'
    BY <1>1, <1>3, <2>6, <2>7, <2>8 DEF RecInv, RecType
  <2>10. ASSUME wav_writer # "err" PROVE WholeFrames'
    <3>1. PICK q \in Seq(Sample) : q = Rec!Recorded /\ Rec!Recorded' = q \o p
      <4>1. PICK b, u, r : b = disk.body /\ u = wav_buf /\ r = ring
        OBVIOUS
      <4>2. b \o u \in Seq(Sample) /\ r \in Seq(Sample)
        BY <4>1, ConcatProperties DEF RecInv, RecType
      <4>3. ((b \o u) \o r) \o p = (b \o u) \o (r \o p)
        BY <2>5, <4>2, JoinAgain
      <4>4. Rec!Recorded = (b \o u) \o r /\ Rec!Recorded' = (b \o u) \o (r \o p)
        BY <1>1, <2>6, <4>1, Zenon DEF Rec!Recorded
      <4> QED BY <4>3, <4>4, RecordedType DEF RecInv
    <3>2. /\ Paired(q) /\ Even(Len(ring)) /\ Even(Len(wav_buf)) /\ Even(Len(disk.body)) /\ ~disk.torn
          /\ \A i \in 1..Len(q) : q[i].frame <= l
          /\ Len(q) + 2 * dropped = 2 * l
      BY <1>3, <1>7, <2>10, <3>1 DEF RecInv, WholeFrames
    <3>3. Even(room) /\ Even(k)
      <4>1. PICK i \in Nat, j \in Nat : RING_CAPACITY_SAMPLES = 2 * i /\ Len(ring) = 2 * j
        BY <3>2, RecConstant DEF Even
      <4>2. i - j \in Nat /\ room = 2 * (i - j)
        BY <2>3, <4>1
      <4> QED BY <2>4, <4>2 DEF Even
    <3>4. PICK m \in Nat : k = 2 * m
      BY <3>3 DEF Even
    <3>5. Even(Len(q)) /\ dropped \in Nat
      <4>1. dropped \in Nat /\ Len(q) \in Nat
        BY <3>1 DEF RecInv, RecType
      <4>2. l - dropped \in Nat /\ Len(q) = 2 * (l - dropped)
        BY <3>2, <4>1
      <4> QED BY <4>1, <4>2 DEF Even
    <3>6. Paired(q \o p)
      <4>1. \A i \in 1..Len(p) : /\ p[i].left = (i % 2 = 1)
                                 /\ p[i].frame = l + 1 + ((i - 1) \div 2)
        <5>1. \A i \in 1..k : i \in 1..Len(s) /\ p[i] = s[i]
          BY <2>2, <2>4, <2>5
        <5> QED BY <2>2, <2>5, <5>1
      <4>2. p \in Seq(Sample)
        BY <2>5
      <4> QED BY <3>2, <3>5, <4>1, <4>2, PairedNext
    <3>7. \A i \in 1..Len(q \o p) : (q \o p)[i].frame <= l + n
      <4> SUFFICES ASSUME NEW i \in 1..Len(q \o p) PROVE (q \o p)[i].frame <= l + n
        OBVIOUS
      <4>1. Len(q \o p) = Len(q) + k /\ Len(q) \in Nat
        <5>1. p \in Seq(Sample) /\ Len(p) = k
          BY <2>5
        <5>2. Len(q \o p) = Len(q) + Len(p)
          BY <5>1, ConcatProperties
        <5> QED BY <5>1, <5>2
      <4>2. CASE i <= Len(q)
        <5>1. (q \o p)[i] = q[i] /\ q[i] \in Sample /\ q[i].frame <= l
          BY <2>5, <3>1, <3>2, <4>1, <4>2
        <5> QED BY <5>1 DEF Sample
      <4>3. CASE i > Len(q)
        <5>1. PICK j \in 1..k : i = Len(q) + j /\ (q \o p)[i] = p[j]
          <6>1. i - Len(q) \in 1..k /\ i = Len(q) + (i - Len(q)) /\ (q \o p)[i] = p[i - Len(q)]
            BY <2>5, <3>1, <4>1, <4>3
          <6> QED BY <6>1
        <5>2. j \in 1..Len(s) /\ p[j].frame = (l + 1) + ((j - 1) \div 2)
          BY <2>2, <2>4, <2>5
        <5>3. (j - 1) \div 2 <= n - 1 /\ (j - 1) \div 2 \in Nat
          BY <2>4
        <5> QED BY <5>1, <5>2, <5>3
      <4> QED BY <4>1, <4>2, <4>3
    <3>8. Len(q \o p) + 2 * dropped' = 2 * (l + n)
      <4>1. Len(q \o p) = Len(q) + k /\ Len(q) \in Nat
        <5>1. p \in Seq(Sample) /\ Len(p) = k
          BY <2>5
        <5>2. Len(q \o p) = Len(q) + Len(p)
          BY <5>1, ConcatProperties
        <5> QED BY <5>1, <5>2
      <4>2. (2 * n - k) \div 2 = n - m
        BY <3>4
      <4>3. dropped' = dropped + (n - m)
        BY <2>6, <4>2
      <4>4. PICK a \in Nat, c \in Nat : a = Len(q) /\ c = dropped /\ a + 2 * c = 2 * l
        BY <3>2, <3>5, <4>1
      <4>5. (a + 2 * m) + 2 * (c + (n - m)) = 2 * (l + n)
        BY <4>4
      <4> QED BY <3>4, <4>1, <4>3, <4>4, <4>5
    <3>9. Even(Len(ring'))
      BY <2>8, <3>2, <3>3, EvenSum
    <3>10. Rec!Recorded' = q \o p
      BY <3>1
    <3> QED BY <1>1, <1>3, <3>2, <3>6, <3>7, <3>8, <3>9, <3>10 DEF WholeFrames, Paired
  <2> QED BY <1>1, <1>4, <1>5, <2>9, <2>10 DEF RecInv, WholeFrames
<1> QED BY <1>6, <1>7

LEMMA TakenIs ==
  ASSUME RecType
  PROVE  /\ Rec!Taken \in 0..Len(ring) /\ Rec!Taken \in 0..Scratch
         /\ Even(Len(ring)) => Even(Rec!Taken) /\ Even(Len(ring) - Rec!Taken)
<1>0. PICK n \in Nat, m \in Nat : n = Len(ring) /\ m = Scratch
  BY RecConstant DEF RecType
<1>1. PICK t : n = Len(ring) /\ m = Scratch /\ t = Rec!Taken
  BY <1>0
<1>2. t = IF n < m THEN n ELSE m
  BY <1>1, Zenon DEF Rec!Taken
<1>3. t \in 0..n /\ t \in 0..m /\ (t = n \/ t = m)
  BY <1>2
<1>4. ASSUME Even(n) PROVE Even(t) /\ Even(n - t)
  <2>1. PICK i \in Nat, j \in Nat : n = 2 * i /\ m = 2 * j
    BY <1>1, <1>4, RecConstant DEF Even
  <2>2. CASE t = n
    <3>1. n - t = 2 * 0 /\ 0 \in Nat
      BY <2>2
    <3> QED BY <1>4, <2>2, <3>1 DEF Even
  <2>3. CASE t = m
    <3>1. n - t = 2 * (i - j) /\ i - j \in Nat
      BY <1>3, <2>1, <2>3
    <3> QED BY <2>1, <2>3, <3>1 DEF Even
  <2> QED BY <1>3, <2>2, <2>3
<1> QED BY <1>1, <1>3, <1>4

(* The writer takes a piece of the ring, or empties its buffer: nothing is *)
(* lost on the way.                                                        *)
LEMMA PopKeeps == ASSUME RecInv, Rec!WriterPop PROVE RecInv'
<1>1. /\ wav_writer = "drain" /\ wav_writer' = "look"
      /\ UNCHANGED <<audio, recorder, stop_flag, dropped, rendered, log_lines>>
  BY DEF Rec!WriterPop
<1>2. PICK b, u, r, t, p, s : /\ b = disk.body /\ u = wav_buf /\ r = ring /\ t = Rec!Taken
                              /\ p = SubSeq(r, 1, t) /\ s = SubSeq(r, t + 1, Len(r))
  OBVIOUS
<1>3. /\ b \in Seq(Sample) /\ u \in Seq(Sample) /\ r \in Seq(Sample)
      /\ t \in 0..Len(r) /\ t \in 0..Scratch /\ Len(u) <= Scratch /\ Len(r) <= RING_CAPACITY_SAMPLES
  BY <1>2, TakenIs DEF RecInv, RecType
<1>4. /\ p \in Seq(Sample) /\ s \in Seq(Sample) /\ Len(p) = t /\ Len(s) = Len(r) - t
      /\ r = p \o s
  BY <1>2, <1>3, SplitIs
<1>5. /\ Even(Len(b)) /\ Even(Len(u)) /\ Even(Len(r)) /\ ~disk.torn
      /\ Paired(Rec!Recorded)
      /\ \A i \in 1..Len(Rec!Recorded) : Rec!Recorded[i].frame <= Len(rendered)
      /\ recorder # "none" => Len(Rec!Recorded) + 2 * dropped = 2 * Len(rendered)
  BY <1>1, <1>2 DEF RecInv, WholeFrames
<1>6. Even(Len(p)) /\ Even(Len(s)) /\ Len(p) <= Scratch
  <2>1. RecType
    BY DEF RecInv
  <2>2. Even(t) /\ Even(Len(r) - t)
    BY <1>2, <1>5, <2>1, TakenIs
  <2> QED BY <1>3, <1>4, <2>2
<1>7. PICK w : w = Rec!Written([body |-> b, buf |-> u], p)
  OBVIOUS
<1>8. PICK x, y : x = w.body /\ y = w.buf
  OBVIOUS
<1>9. /\ x \in Seq(Sample) /\ y \in Seq(Sample) /\ Even(Len(x)) /\ Even(Len(y))
      /\ Len(y) <= Scratch /\ x \o y = (b \o u) \o p
  BY <1>3, <1>4, <1>5, <1>6, <1>7, <1>8, WrittenIs
<1>10. /\ disk' = [disk EXCEPT !.body = x] /\ wav_buf' = y /\ ring' = s /\ popped' = t
  BY <1>2, <1>7, <1>8 DEF Rec!WriterPop
<1>11. /\ disk'.body = x /\ disk'.torn = disk.torn /\ disk'.data = disk.data
       /\ disk' \in [body : Seq(Sample), torn : BOOLEAN, data : Nat, rate : {OpenRate}]
  BY <1>9, <1>10 DEF RecInv, RecType
<1>12. Rec!Recorded' = Rec!Recorded
  <2>1. (x \o y) \o s = (b \o u) \o r
    <3>1. PICK c \in Seq(Sample) : c = b \o u
      BY <1>3, ConcatProperties
    <3>2. p \in Seq(Sample) /\ s \in Seq(Sample)
      BY <1>4
    <3>3. (c \o p) \o s = c \o (p \o s)
      BY <3>2, JoinAgain
    <3> QED BY <1>4, <1>9, <3>1, <3>3, Zenon
  <2> QED BY <1>2, <1>10, <1>11, <2>1, Zenon DEF Rec!Recorded
<1>13. Len(s) <= RING_CAPACITY_SAMPLES
  <2>1. Len(r) \in Nat /\ RING_CAPACITY_SAMPLES \in Nat
    BY <1>3, RecConstant
  <2> QED BY <1>3, <1>4, <2>1
<1>14. RecType'
  BY <1>1, <1>3, <1>4, <1>9, <1>10, <1>11, <1>13 DEF RecInv, RecType
<1>15. WholeFrames'
  BY <1>1, <1>5, <1>6, <1>9, <1>10, <1>11, <1>12 DEF WholeFrames, Paired
<1>16. Header'
  BY <1>1, <1>11 DEF RecInv, Header
<1> QED BY <1>1, <1>14, <1>15, <1>16 DEF RecInv

LEMMA FlushKeeps == ASSUME RecInv, Rec!WriterFlush PROVE RecInv'
<1>1. /\ wav_writer = "flush" /\ wav_writer' = "ok"
      /\ UNCHANGED <<audio, recorder, stop_flag, popped, ring, dropped, rendered, log_lines>>
      /\ wav_buf' = <<>>
  BY DEF Rec!WriterFlush
<1>2. PICK b, u : b = disk.body /\ u = wav_buf
  OBVIOUS
<1>3. b \in Seq(Sample) /\ u \in Seq(Sample)
  BY <1>2 DEF RecInv, RecType
<1>4. b \o u \in Seq(Sample) /\ Len(b \o u) = Len(b) + Len(u) /\ (b \o u) \o <<>> = b \o u
  <2>1. b \o u \in Seq(Sample) /\ Len(b \o u) = Len(b) + Len(u)
    BY <1>3, ConcatProperties
  <2> QED BY <2>1, ConcatEmptySeq
<1>5. /\ Even(Len(b)) /\ Even(Len(u)) /\ Even(Len(ring)) /\ ~disk.torn
      /\ Paired(Rec!Recorded)
      /\ \A i \in 1..Len(Rec!Recorded) : Rec!Recorded[i].frame <= Len(rendered)
      /\ recorder # "none" => Len(Rec!Recorded) + 2 * dropped = 2 * Len(rendered)
  BY <1>1, <1>2 DEF RecInv, WholeFrames
<1>6. disk' = [disk EXCEPT !.body = b \o u]
  BY <1>2 DEF Rec!WriterFlush
<1>7. /\ disk'.body = b \o u /\ disk'.torn = disk.torn /\ disk'.data = disk.data
      /\ disk' \in [body : Seq(Sample), torn : BOOLEAN, data : Nat, rate : {OpenRate}]
  BY <1>4, <1>6 DEF RecInv, RecType
<1>8. Rec!Recorded' = Rec!Recorded
  BY <1>1, <1>2, <1>4, <1>7, Zenon DEF Rec!Recorded
<1>9. Even(Len(b \o u)) /\ Even(Len(<<>>))
  <2>1. Len(<<>>) = 2 * 0 /\ 0 \in Nat
    OBVIOUS
  <2> QED BY <1>4, <1>5, <2>1, EvenSum DEF Even
<1>10. RecType'
  <2>1. <<>> \in Seq(Sample) /\ Len(<<>>) <= Scratch
    BY RecConstant
  <2> QED BY <1>1, <1>7, <2>1 DEF RecInv, RecType
<1>11. WholeFrames'
  BY <1>1, <1>5, <1>7, <1>8, <1>9 DEF WholeFrames, Paired
<1>12. Header'
  BY <1>1, <1>7 DEF RecInv, Header
<1> QED BY <1>1, <1>10, <1>11, <1>12 DEF RecInv

(* A write that fails leaves the beginning of what was due.                *)
LEMMA FailsKeeps == ASSUME RecInv, Rec!WriterFails PROVE RecInv'
<1>1. /\ wav_writer \in {"drain", "flush"} /\ wav_writer' = "err" /\ wav_buf' = <<>>
      /\ UNCHANGED <<audio, recorder, stop_flag, popped, dropped, rendered, log_lines>>
  BY DEF Rec!WriterFails
<1>2. PICK b, u, r, t : b = disk.body /\ u = wav_buf /\ r = ring /\ t = Rec!Taken
  OBVIOUS
<1>3. /\ b \in Seq(Sample) /\ u \in Seq(Sample) /\ r \in Seq(Sample)
      /\ t \in 0..Len(r) /\ Len(r) <= RING_CAPACITY_SAMPLES
  BY <1>2, TakenIs DEF RecInv, RecType
<1>4. PICK p, s, due : /\ p = SubSeq(r, 1, t) /\ s = SubSeq(r, t + 1, Len(r))
                       /\ due = u \o (IF wav_writer = "drain" THEN p ELSE <<>>)
  OBVIOUS
<1>5. /\ p \in Seq(Sample) /\ s \in Seq(Sample) /\ Len(p) = t /\ Len(s) = Len(r) - t /\ r = p \o s
  BY <1>3, <1>4, SplitIs
<1>6. PICK k, cut :
        /\ k \in 0..(Len(due) - 1) /\ cut \in BOOLEAN
        /\ disk' = [disk EXCEPT !.body = b \o SubSeq(due, 1, k), !.torn = cut]
  <2>1. due = wav_buf \o (IF wav_writer = "drain" THEN SubSeq(ring, 1, Rec!Taken) ELSE <<>>)
    BY <1>2, <1>4, Zenon
  <2>2. \E k \in 0..(Len(due) - 1), cut \in BOOLEAN :
          disk' = [disk EXCEPT !.body = @ \o SubSeq(due, 1, k), !.torn = cut]
    BY <2>1, Zenon DEF Rec!WriterFails
  <2>3. PICK k \in 0..(Len(due) - 1), cut \in BOOLEAN :
          disk' = [disk EXCEPT !.body = @ \o SubSeq(due, 1, k), !.torn = cut]
    BY <2>2, Zenon
  <2>4. disk' = [disk EXCEPT !.body = b \o SubSeq(due, 1, k), !.torn = cut]
    BY <1>2, <2>3
  <2> QED BY <2>3, <2>4
<1>7. ring' = IF wav_writer = "drain" THEN s ELSE r
  BY <1>2, <1>4 DEF Rec!WriterFails
<1>8. \E z \in Seq(Sample) : due \in Seq(Sample) /\ u \o r = due \o z
  <2>1. CASE wav_writer = "drain"
    <3>1. due = u \o p /\ u \o p \in Seq(Sample)
      BY <1>3, <1>4, <1>5, <2>1, ConcatProperties
    <3>2. (u \o p) \o s = u \o (p \o s)
      BY <1>3, <1>5, JoinAgain
    <3> QED BY <1>5, <3>1, <3>2
  <2>2. CASE wav_writer = "flush"
    <3>1. due = u \o <<>> /\ u \o <<>> = u
      BY <1>3, <1>4, <2>2, ConcatEmptySeq
    <3> QED BY <1>3, <3>1
  <2> QED BY <1>1, <2>1, <2>2
<1>9. PICK z \in Seq(Sample) : due \in Seq(Sample) /\ u \o r = due \o z
  BY <1>8
<1>10. PICK a, d : a = SubSeq(due, 1, k) /\ d = SubSeq(due, k + 1, Len(due))
  OBVIOUS
<1>11. /\ a \in Seq(Sample) /\ d \in Seq(Sample) /\ due = a \o d
  <2>1. k \in 0..Len(due)
    BY <1>6, <1>9
  <2>2. /\ SubSeq(due, 1, k) \in Seq(Sample) /\ SubSeq(due, k + 1, Len(due)) \in Seq(Sample)
        /\ SubSeq(due, 1, k) \o SubSeq(due, k + 1, Len(due)) = due
    BY <1>9, <2>1, SplitIs
  <2> QED BY <1>10, <2>2, Zenon
<1>12. Begins(b \o a, Rec!Recorded) /\ b \o a \in Seq(Sample)
  <2>1. b \o a \in Seq(Sample) /\ d \o z \in Seq(Sample) /\ a \o d \in Seq(Sample)
        /\ u \o r \in Seq(Sample)
    BY <1>3, <1>9, <1>11, ConcatProperties
  <2>2. (b \o u) \o r = b \o (u \o r)
    BY <1>3, JoinAgain
  <2>3. (a \o d) \o z = a \o (d \o z)
    BY <1>9, <1>11, JoinAgain
  <2>4. (b \o a) \o (d \o z) = b \o (a \o (d \o z))
    <3>1. PICK f \in Seq(Sample) : f = d \o z
      BY <2>1
    <3>3. a \in Seq(Sample) /\ b \in Seq(Sample)
      BY <1>3, <1>11
    <3>2. (b \o a) \o f = b \o (a \o f)
      BY <3>3, JoinAgain
    <3> QED BY <3>1, <3>2, Zenon
  <2>5. Rec!Recorded = (b \o a) \o (d \o z)
    BY <1>2, <1>9, <1>11, <2>2, <2>3, <2>4, Zenon DEF Rec!Recorded
  <2>6. PICK e \in Seq(Sample), f \in Seq(Sample) : e = b \o a /\ f = d \o z
    BY <2>1
  <2>7. Begins(e, e \o f)
    <3>1. Len(e \o f) = Len(e) + Len(f) /\ \A i \in 1..Len(e) : (e \o f)[i] = e[i]
      BY JoinedAre
    <3>2. Len(e) \in Nat /\ Len(f) \in Nat
      OBVIOUS
    <3> QED BY <3>1, <3>2 DEF Begins
  <2> QED BY <2>1, <2>5, <2>6, <2>7, Zenon
<1>13. Paired(b \o a)
  <2>1. Paired(Rec!Recorded) /\ Rec!Recorded \in Seq(Sample)
    BY <1>1, RecordedType DEF RecInv, WholeFrames
  <2> QED BY <1>12, <2>1, BeginsPaired
<1>14. /\ disk'.body = b \o a /\ disk'.data = disk.data
       /\ disk' \in [body : Seq(Sample), torn : BOOLEAN, data : Nat, rate : {OpenRate}]
  BY <1>6, <1>10, <1>12 DEF RecInv, RecType
<1>15. ring' \in Seq(Sample) /\ Len(ring') <= RING_CAPACITY_SAMPLES
  <2>1. Len(r) \in Nat /\ RING_CAPACITY_SAMPLES \in Nat
    BY <1>3, RecConstant
  <2>2. Len(s) <= RING_CAPACITY_SAMPLES
    BY <1>3, <1>5, <2>1
  <2> QED BY <1>3, <1>5, <1>7, <2>2
<1>16. RecType'
  <2>1. <<>> \in Seq(Sample) /\ Len(<<>>) <= Scratch
    BY RecConstant
  <2> QED BY <1>1, <1>14, <1>15, <2>1 DEF RecInv, RecType
<1>17. Header'
  BY <1>1, <1>14 DEF RecInv, Header
<1>18. Paired(disk'.body)
  BY <1>13, <1>14
<1> QED BY <1>1, <1>16, <1>17, <1>18 DEF RecInv, WholeFrames, Paired

LEMMA RestKeeps ==
  ASSUME RecInv,
         \/ Rec!WriterLook \/ Rec!DropStream \/ Rec!Stop \/ Rec!Join
         \/ \E load \in BOOLEAN : Rec!LogEvent(load)
         \/ UNCHANGED wav_vars
  PROVE  RecInv'
<1>1. CASE Rec!Join
  <2>1. /\ UNCHANGED <<audio, stop_flag, wav_writer, popped, ring, wav_buf, dropped, rendered,
                       log_lines>>
        /\ recorder = "stopping"
    BY <1>1 DEF Rec!Join
  <2>2. \/ disk' = disk /\ recorder' = "failed"
        \/ /\ disk' = [disk EXCEPT !.data = Len(disk.body)] /\ recorder' = "finished"
           /\ wav_writer = "ok"
    BY <1>1 DEF Rec!Join
  <2>3. /\ disk'.body = disk.body /\ disk'.torn = disk.torn
        /\ disk' \in [body : Seq(Sample), torn : BOOLEAN, data : Nat, rate : {OpenRate}]
        /\ disk'.data = IF recorder' = "finished" THEN Len(disk.body) ELSE disk.data
    <3>1. Len(disk.body) \in Nat
      BY DEF RecInv, RecType
    <3> QED BY <2>2, <3>1 DEF RecInv, RecType
  <2>4. Rec!Recorded' = Rec!Recorded
    BY <2>1, <2>3, Zenon DEF Rec!Recorded
  <2>5. RecType'
    BY <2>1, <2>2, <2>3 DEF RecInv, RecType
  <2>6. WholeFrames'
    BY <2>1, <2>2, <2>3, <2>4 DEF RecInv, WholeFrames, Paired
  <2>7. Header'
    BY <2>1, <2>2, <2>3 DEF RecInv, Header
  <2>8. (wav_writer = "err" => Paired(disk.body))'
    BY <2>1, <2>3 DEF RecInv, Paired
  <2> QED BY <2>5, <2>6, <2>7, <2>8 DEF RecInv
<1>2. CASE ~Rec!Join
  <2>1. UNCHANGED <<popped, ring, wav_buf, dropped, rendered, disk>>
    <3>1. Rec!WriterLook \/ Rec!DropStream \/ Rec!Stop =>
            UNCHANGED <<popped, ring, wav_buf, dropped, rendered, disk>>
      BY DEF Rec!WriterLook, Rec!DropStream, Rec!Stop
    <3>2. ASSUME NEW load \in BOOLEAN, Rec!LogEvent(load)
          PROVE  UNCHANGED <<popped, ring, wav_buf, dropped, rendered, disk>>
      BY <3>2 DEF Rec!LogEvent
    <3>3. UNCHANGED wav_vars => UNCHANGED <<popped, ring, wav_buf, dropped, rendered, disk>>
      BY DEF wav_vars
    <3> QED BY <1>2, <3>1, <3>2, <3>3
  <2>2. /\ \/ wav_writer' = wav_writer
           \/ wav_writer = "look" /\ wav_writer' \in {"drain", "flush"}
        /\ audio' \in {audio, FALSE}
        /\ recorder' = recorder \/ (~audio' /\ recorder = "open" /\ recorder' = "stopping")
    <3>1. CASE Rec!WriterLook
      BY <3>1 DEF Rec!WriterLook
    <3>2. CASE Rec!DropStream
      BY <3>2 DEF Rec!DropStream
    <3>5. CASE Rec!Stop
      <4>1. ~audio /\ audio' = audio /\ recorder = "open" /\ recorder' = "stopping"
            /\ wav_writer' = wav_writer
        BY <3>5, Zenon DEF Rec!Stop
      <4>2. ~audio'
        BY <4>1, Zenon
      <4> QED BY <4>1, <4>2
    <3>3. ASSUME NEW load \in BOOLEAN, Rec!LogEvent(load)
          PROVE  UNCHANGED <<audio, recorder, wav_writer>>
      BY <3>3 DEF Rec!LogEvent
    <3>4. UNCHANGED wav_vars => UNCHANGED <<audio, recorder, wav_writer>>
      BY DEF wav_vars
    <3> QED BY <1>2, <3>1, <3>2, <3>3, <3>4, <3>5
  <2>3. log_lines' \in Seq(Line)
    <3>1. CASE log_lines' = log_lines
      BY <3>1 DEF RecInv, RecType
    <3>2. ASSUME NEW load \in BOOLEAN, Rec!LogEvent(load) PROVE log_lines' \in Seq(Line)
      <4>1. PICK e : e = [ts |-> Rec!Micros(Len(rendered), DeviceRate), load |-> load]
        OBVIOUS
      <4>2. Rec!Micros(Len(rendered), DeviceRate) \in Int
        <5>1. PICK l \in Nat, d \in Nat \ {0} : l = Len(rendered) /\ d = DeviceRate
          BY RecConstant DEF RecInv, RecType
        <5>2. l * 1000000 \in Nat
          BY <5>1
        <5>3. PICK n \in Nat : n = l * 1000000
          BY <5>2
        <5>4. RoundDiv(n, d) \in Nat
          BY DivNat
        <5> QED BY <5>1, <5>3, <5>4 DEF Rec!Micros, Rec!RoundDiv, RoundDiv
      <4>3. e \in Line
        BY <4>1, <4>2 DEF Line
      <4>4. log_lines' = Append(log_lines, e)
        BY <3>2, <4>1 DEF Rec!LogEvent
      <4> QED BY <4>3, <4>4 DEF RecInv, RecType
    <3> QED BY <1>2, <3>1, <3>2 DEF Rec!WriterLook, Rec!DropStream, Rec!Stop, wav_vars
  <2>4. Rec!Recorded' = Rec!Recorded
    BY <2>1, Zenon DEF Rec!Recorded
  <2>5. RecType'
    <3>1. /\ audio' \in BOOLEAN /\ wav_writer' \in {"drain", "look", "flush", "ok", "err"}
          /\ recorder' \in {"none", "open", "stopping", "finished", "failed", "crashed"}
      BY <2>2 DEF RecInv, RecType
    <3> QED BY <2>1, <2>3, <3>1 DEF RecInv, RecType
  <2>6. WholeFrames'
    BY <2>1, <2>2, <2>4 DEF RecInv, WholeFrames, Paired
  <2>7. Header'
    <3>1. CASE recorder' = recorder
      <4>1. audio' => audio
        BY <2>2, Zenon
      <4> QED BY <2>1, <2>2, <3>1, <4>1 DEF RecInv, Header
    <3>2. CASE ~audio' /\ recorder = "open" /\ recorder' = "stopping"
      BY <2>1, <3>2 DEF RecInv, Header
    <3> QED BY <2>2, <3>1, <3>2
  <2>8. (wav_writer = "err" => Paired(disk.body))'
    BY <2>1, <2>2 DEF RecInv, Paired
  <2> QED BY <2>5, <2>6, <2>7, <2>8 DEF RecInv
<1> QED BY <1>1, <1>2

LEMMA CrashKeeps == ASSUME RecInv, Rec!Crash PROVE RecInv'
<1>1. /\ audio /\ audio' = FALSE /\ recorder' = "crashed" /\ wav_writer' = "err"
      /\ ring' = <<>> /\ wav_buf' = <<>>
      /\ UNCHANGED <<stop_flag, popped, disk, dropped, rendered, log_lines>>
  BY DEF Rec!Crash
<1>2. Paired(disk.body)
  <2>1. CASE wav_writer = "err"
    BY <2>1 DEF RecInv
  <2>2. CASE wav_writer # "err"
    <3>1. PICK b, u, r : b = disk.body /\ u = wav_buf /\ r = ring
      OBVIOUS
    <3>2. b \in Seq(Sample) /\ u \in Seq(Sample) /\ r \in Seq(Sample)
      BY <3>1 DEF RecInv, RecType
    <3>3. PICK c \in Seq(Sample) : c = u \o r
      BY <3>2, ConcatProperties
    <3>4. (b \o u) \o r = b \o c
      <4>1. (b \o u) \o r = b \o (u \o r)
        BY <3>2, JoinAgain
      <4> QED BY <3>3, <4>1
    <3>5. Begins(b, b \o c)
      <4>1. Len(b \o c) = Len(b) + Len(c) /\ \A i \in 1..Len(b) : (b \o c)[i] = b[i]
        BY <3>2, JoinedAre
      <4>2. Len(b) \in Nat /\ Len(c) \in Nat
        BY <3>2
      <4> QED BY <4>1, <4>2 DEF Begins
    <3>6. Rec!Recorded = b \o c /\ Rec!Recorded \in Seq(Sample) /\ Paired(Rec!Recorded)
      BY <2>2, <3>1, <3>4, RecordedType DEF RecInv, WholeFrames, Rec!Recorded
    <3>7. Begins(b, Rec!Recorded)
      BY <3>5, <3>6, Zenon
    <3>8. Paired(b)
      BY <3>2, <3>6, <3>7, BeginsPaired
    <3> QED BY <3>1, <3>8
  <2> QED BY <2>1, <2>2
<1>3. <<>> \in Seq(Sample) /\ Len(<<>>) <= Scratch /\ Len(<<>>) <= RING_CAPACITY_SAMPLES
  BY RecConstant
<1>4. RecType'
  BY <1>1, <1>3 DEF RecInv, RecType
<1>5. Header'
  BY <1>1 DEF RecInv, Header
<1> QED BY <1>1, <1>2, <1>4, <1>5 DEF RecInv, WholeFrames, Paired
-----------------------------------------------------------------------------
(* A placeholder is taken for the length that is there, a patched header   *)
(* says it.                                                                *)
LEMMA ReadsBack ==
  ASSUME RecType, Header
  PROVE  ~disk.torn => Rec!read_wav_pcm_f32(disk) = disk.body
<1> SUFFICES ASSUME ~disk.torn PROVE Rec!read_wav_pcm_f32(disk) = disk.body
  OBVIOUS
<1>1. PICK b \in Seq(Sample) : b = disk.body
  BY DEF RecType
<1>2. disk.data = 0 \/ disk.data = Len(b)
  BY <1>1 DEF Header
<1>3. SubSeq(b, 1, Len(b)) = b
  OBVIOUS
<1> QED BY <1>1, <1>2, <1>3, Zenon DEF Rec!read_wav_pcm_f32

(* How long a recording begins in silence. *)
LEMMA GreatestNat ==
  ASSUME NEW n \in Nat, NEW S, S \subseteq 0..n, S # {}
  PROVE  Rec!Max(S) \in S /\ \A i \in S : i <= Rec!Max(S)
<1> DEFINE T == {n - i : i \in S}
<1>1. T \subseteq Nat /\ T # {}
  <2>1. \A i \in S : n - i \in Nat
    OBVIOUS
  <2>2. PICK i : i \in S
    OBVIOUS
  <2>3. n - i \in T
    BY <2>2
  <2> QED BY <2>1, <2>3
<1> HIDE DEF T
<1>2. PICK m \in T : \A j \in T : m <= j
  BY <1>1, LeastNat
<1>3. PICK k \in S : m = n - k
  BY <1>2 DEF T
<1>4. \A i \in S : k >= i
  <2> SUFFICES ASSUME NEW i \in S PROVE k >= i
    OBVIOUS
  <2>1. n - k <= n - i /\ i \in 0..n /\ k \in 0..n
    BY <1>2, <1>3 DEF T
  <2> QED BY <2>1
<1>5. /\ Rec!Max(S) \in S /\ \A i \in S : Rec!Max(S) >= i
  BY <1>4, Zenon DEF Rec!Max
<1>6. \A i \in S : i \in Int
  OBVIOUS
<1> QED BY <1>5, <1>6

LEMMA LeastOf ==
  ASSUME NEW S, S \subseteq Nat, S # {}
  PROVE  Rec!Min(S) \in S /\ \A i \in S : Rec!Min(S) <= i
<1>1. \E i \in S : \A j \in S : i <= j
  BY LeastNat
<1> QED BY <1>1, Zenon DEF Rec!Min

LEMMA LeadingRunIs ==
  ASSUME NEW q, Len(q) \in Nat
  PROVE  LET k == Rec!LeadingRun(q)
         IN /\ k \in 0..Len(q) /\ \A i \in 1..k : q[i]
            /\ k < Len(q) => ~q[k + 1]
<1> DEFINE S == {k \in 0..Len(q) : \A i \in 1..k : q[i]}
           k == Rec!LeadingRun(q)
<1>1. k = Rec!Max(S)
  BY Zenon DEF Rec!LeadingRun
<1>2. S \subseteq 0..Len(q) /\ 0 \in S
  OBVIOUS
<1>3. k \in S /\ \A i \in S : i <= k
  <2> HIDE DEF S, k
  <2> QED BY <1>1, <1>2, GreatestNat
<1> HIDE DEF k
<1>4. k \in 0..Len(q) /\ \A i \in 1..k : q[i]
  BY <1>3
<1>5. ASSUME k < Len(q), q[k + 1] PROVE FALSE
  <2>1. k + 1 \in 0..Len(q) /\ ~(k + 1 <= k)
    BY <1>4, <1>5
  <2>2. \A i \in 1..(k + 1) : q[i]
    <3> SUFFICES ASSUME NEW i \in 1..(k + 1) PROVE q[i]
      OBVIOUS
    <3>1. i \in 1..k \/ i = k + 1
      BY <1>4
    <3> QED BY <1>4, <1>5, <3>1
  <2>3. k + 1 \in S
    BY <2>1, <2>2
  <2> QED BY <1>3, <2>1, <2>3
<1> QED BY <1>4, <1>5 DEF k

LEMMA SustainedIs ==
  ASSUME NEW run \in Nat, NEW size \in Nat
  PROVE  /\ Rec!SustainedFrames(run, size) \in {0, run * size}
         /\ run >= MinSilentBlocks => Rec!SustainedFrames(run, size) = run * size
         /\ Rec!SustainedFrames(run, size) > 0 => Rec!SustainedFrames(run, size) >= MinSilentBlocks * size
         /\ run * size \in Nat
<1>0. PICK m \in Nat : m = MinSilentBlocks
  BY RecConstant
<1>1. PICK p, t : m = MinSilentBlocks /\ p = m * size /\ t = run * size
  BY <1>0
<1>2. p \in Nat /\ t \in Nat
  BY <1>1, ProductNat
<1>3. run >= m => t >= p
  <2> SUFFICES ASSUME run >= m PROVE t >= p
    OBVIOUS
  <2>1. PICK d \in Nat : run = m + d
    <3>1. run - m \in Nat /\ run = m + (run - m)
      OBVIOUS
    <3> QED BY <3>1
  <2>2. t = p + d * size
    BY <1>1, <2>1
  <2>3. d * size \in Nat
    BY ProductNat
  <2> QED BY <1>2, <2>2, <2>3
<1>4. Rec!SustainedFrames(run, size) = IF run >= m THEN t ELSE 0
  BY <1>1, Zenon DEF Rec!SustainedFrames
<1>5. run >= m \/ ~(run >= m)
  OBVIOUS
<1>6. CASE run >= m
  BY <1>1, <1>2, <1>3, <1>4, <1>6
<1>7. CASE ~(run >= m)
  BY <1>1, <1>2, <1>4, <1>7
<1> QED BY <1>6, <1>7
-----------------------------------------------------------------------------
(* What an export is made of.  A file it refuses has none. *)
IsTrim(body, size, n, silent, head) ==
  /\ Rec!Exported.frames = Rec!Frames(body) /\ Len(Rec!Frames(body)) = n
  /\ \A b \in 1..(n \div size) : silent[b] = Rec!window_is_silent(Rec!Frames(body), size, b)
  /\ size = Rec!block_frames(disk.rate)
  /\ Len(silent) = n \div size
  /\ head = Rec!SustainedFrames(Rec!LeadingRun(silent), size)
  /\ Rec!Exported.head = head

IsCut(kept, head) ==
  LET length == Rec!Micros(kept, OpenRate)
      starts == Rec!build_chapters(log_lines, Rec!Micros(head, OpenRate), length)
      total == Rec!RoundDiv(length, 1000)
  IN /\ kept > 0
     /\ Rec!Exported.total = total
     /\ Rec!Exported.chapters =
          [i \in DOMAIN starts |->
             [start |-> starts[i], end |-> Rec!ChapterEnd(starts, i, total)]]

IsExport(body, size, n, silent, head, tail) ==
  IsTrim(body, size, n, silent, head) /\ IsCut(n - head - tail, head)

LEMMA ExportIs ==
  ASSUME RecType, Rec!Exported # None
  PROVE  \E silent, body :
           \E size \in Nat \ {0}, n \in Nat, head \in Nat, tail \in Nat :
              IsExport(body, size, n, silent, head, tail)
<1> DEFINE body == Rec!read_wav_pcm_f32(disk)
           f == Rec!Frames(body)
           size == Rec!block_frames(disk.rate)
           silent == [b \in 1..(Len(f) \div size) |-> Rec!window_is_silent(f, size, b)]
           head == Rec!SustainedFrames(Rec!LeadingRun(silent), size)
           tail == Rec!SustainedFrames(Rec!LeadingRun(Rec!Reverse(silent)), size)
           kept == Len(f) - head - tail
           length == Rec!Micros(kept, disk.rate)
           starts == Rec!build_chapters(log_lines, Rec!Micros(head, disk.rate), length)
           total == Rec!RoundDiv(length, 1000)
           e == [head |-> head, tail |-> tail, frames |-> f, total |-> total,
                 chapters |-> [i \in DOMAIN starts |->
                           [start |-> starts[i], end |-> Rec!ChapterEnd(starts, i, total)]]]
<1>1. /\ Rec!Exported = e /\ body # None
      /\ ~(kept <= 0)
  <2>1. Rec!Exported = Rec!export_session(disk, log_lines, SizeLimit)
    BY Zenon DEF Rec!Exported
  <2>2. Rec!detect_silence_trim(f, disk.rate) = [head |-> head, tail |-> tail]
    BY Zenon DEF Rec!detect_silence_trim
  <2>3. /\ Rec!detect_silence_trim(f, disk.rate).head = head
        /\ Rec!detect_silence_trim(f, disk.rate).tail = tail
    BY <2>2
  <2> DEFINE C(h, t) ==
        LET k == Len(f) - h - t
            l == Rec!Micros(k, disk.rate)
            q == Rec!build_chapters(log_lines, Rec!Micros(h, disk.rate), l)
            m == Rec!RoundDiv(l, 1000)
        IN IF body = None \/ body = <<>> THEN None
           ELSE IF k <= 0 \/ 2 * k > SizeLimit THEN None
           ELSE [head |-> h, tail |-> t, frames |-> f, total |-> m,
                 chapters |-> [i \in DOMAIN q |->
                           [start |-> q[i], end |-> Rec!ChapterEnd(q, i, m)]]]
  <2>4. Rec!Exported = C(Rec!detect_silence_trim(f, disk.rate).head,
                         Rec!detect_silence_trim(f, disk.rate).tail)
    BY <2>1, Zenon DEF Rec!export_session
  <2>5. Rec!Exported = C(head, tail)
    <3> HIDE DEF C, f, head, tail
    <3> QED BY <2>3, <2>4, Zenon
  <2>6. C(head, tail) = IF body = None \/ body = <<>> THEN None
                       ELSE IF kept <= 0 \/ 2 * kept > SizeLimit THEN None
                       ELSE e
    BY Zenon
  <2> HIDE DEF body, kept, e, C
  <2> QED BY <2>5, <2>6, Zenon
<1>2. disk.rate = OpenRate /\ OpenRate \in Nat \ {0}
  BY RecConstant DEF RecType
<1>3. body \in Seq(Sample)
  <2>1. PICK b \in Seq(Sample), d \in Nat : b = disk.body /\ d = disk.data
    BY DEF RecType
  <2>2. body = IF disk.torn THEN None
               ELSE IF d = 0 \/ d > Len(b) THEN b ELSE SubSeq(b, 1, d)
    BY <2>1, Zenon DEF Rec!read_wav_pcm_f32
  <2>3. ~(d > Len(b)) => SubSeq(b, 1, d) \in Seq(Sample)
    BY <2>1
  <2>4. body # None
    BY <1>1
  <2> HIDE DEF body
  <2>5. body = b \/ (~(d > Len(b)) /\ body = SubSeq(b, 1, d))
    BY <2>2, <2>4, Zenon
  <2> QED BY <2>3, <2>5
<1>4. PICK n \in Nat : n = Len(f)
  <2>1. PICK b \in Seq(Sample), l \in Nat : b = body /\ l = Len(b) \div 2
    <3>1. PICK b \in Seq(Sample) : b = body
      BY <1>3
    <3>2. Len(b) \div 2 \in Nat
      OBVIOUS
    <3> QED BY <3>1, <3>2
  <2>2. f = [i \in 1..l |-> (b[2*i - 1].level + b[2*i].level) \div 2]
    BY <2>1, Zenon DEF Rec!Frames
  <2> HIDE DEF f
  <2>3. Len(f) = l
    BY <2>1, <2>2
  <2> QED BY <2>1, <2>3
<1>5. size \in Nat \ {0}
  <2>1. PICK k \in Nat : k = OpenRate \div 10
    BY <1>2
  <2>2. size = IF k > 1 THEN k ELSE 1
    BY <1>2, <2>1, Zenon DEF Rec!block_frames
  <2> HIDE DEF size
  <2> QED BY <2>1, <2>2
<1>6. n \div size \in Nat
  <2>1. PICK s \in Nat \ {0} : s = size
    BY <1>5
  <2>2. n \div s \in Nat
    OBVIOUS
  <2> HIDE DEF size
  <2> QED BY <2>1, <2>2
<1>7. PICK m \in Nat : m = n \div size
  BY <1>6
<1>8. /\ Len(silent) = m
      /\ \A b \in 1..m : silent[b] = Rec!window_is_silent(f, size, b)
      /\ Len(Rec!Reverse(silent)) = m
  <2>1. silent = [b \in 1..m |-> Rec!window_is_silent(f, size, b)]
    BY <1>4, <1>7
  <2> DEFINE g(b) == Rec!window_is_silent(f, size, b)
  <2> HIDE DEF silent, g
  <2>2. silent = [b \in 1..m |-> g(b)]
    BY <2>1 DEF g
  <2>3. Len(silent) = m /\ \A b \in 1..m : silent[b] = g(b)
    BY <2>2
  <2>4. Rec!Reverse(silent) = [i \in 1..m |-> silent[(m - i) + 1]]
    BY <2>3, Zenon DEF Rec!Reverse
  <2>5. Len(Rec!Reverse(silent)) = m
    <3>1. PICK r : r = [i \in 1..m |-> silent[(m - i) + 1]]
      OBVIOUS
    <3>2. Len(r) = m
      BY <3>1
    <3> QED BY <2>4, <3>1, <3>2
  <2> QED BY <2>3, <2>5 DEF g
<1>9. head \in Nat /\ tail \in Nat
  <2>1. PICK h \in Nat, t \in Nat : h = Rec!LeadingRun(silent) /\ t = Rec!LeadingRun(Rec!Reverse(silent))
    <3>1. PICK q, r : q = silent /\ r = Rec!Reverse(silent)
      OBVIOUS
    <3>2. Len(q) = m /\ Len(r) = m
      BY <1>8, <3>1
    <3>4. Len(q) \in Nat /\ Len(r) \in Nat
      BY <3>2
    <3>5. Rec!LeadingRun(q) \in 0..Len(q) /\ Rec!LeadingRun(r) \in 0..Len(r)
      BY <3>4, LeadingRunIs, Zenon
    <3>3. Rec!LeadingRun(q) \in Nat /\ Rec!LeadingRun(r) \in Nat
      BY <3>4, <3>5
    <3> QED BY <3>1, <3>3
  <2>2. PICK s \in Nat : s = size
    BY <1>5
  <2>3. Rec!SustainedFrames(h, s) \in Nat /\ Rec!SustainedFrames(t, s) \in Nat
    BY SustainedIs
  <2> QED BY <2>1, <2>2, <2>3
<1>10. kept > 0 /\ kept = n - head - tail
  <2> HIDE DEF head, tail, f
  <2> QED BY <1>1, <1>4, <1>9
<1>11. /\ Rec!Exported.frames = f /\ Rec!Exported.head = head /\ Rec!Exported.total = total
       /\ Rec!Exported.chapters = [i \in DOMAIN starts |->
                         [start |-> starts[i], end |-> Rec!ChapterEnd(starts, i, total)]]
  <2> HIDE DEF head, tail, f, total, starts
  <2> QED BY <1>1
<1>12. IsExport(body, size, n, silent, head, tail)
  <2> HIDE DEF f, body, silent, head, tail, total, starts
  <2>1. Len(silent) = n \div size /\ n - head - tail > 0 /\ disk.rate = OpenRate
    BY <1>2, <1>7, <1>8, <1>10
  <2>2. \A b \in 1..(n \div size) : silent[b] = Rec!window_is_silent(f, size, b)
    BY <1>7, <1>8, Zenon
  <2>8. length = Rec!Micros(n - head - tail, OpenRate)
    BY <1>2, <1>10, Zenon
  <2> HIDE DEF length
  <2>3. starts = Rec!build_chapters(log_lines, Rec!Micros(head, OpenRate), length)
    BY <1>2, Zenon DEF starts
  <2>4. total = Rec!RoundDiv(length, 1000)
    BY Zenon DEF total
  <2>5. /\ Rec!Exported.total = total
        /\ Rec!Exported.chapters =
             [i \in DOMAIN starts |->
                [start |-> starts[i], end |-> Rec!ChapterEnd(starts, i, total)]]
    BY <1>11, Zenon
  <2>6. Rec!Exported.frames = f /\ f = Rec!Frames(body) /\ Len(f) = n /\ Rec!Exported.head = head
    BY <1>4, <1>11, Zenon DEF f
  <2>7. head = Rec!SustainedFrames(Rec!LeadingRun(silent), size)
    BY Zenon DEF head
  <2>9. LET l == Rec!Micros(n - head - tail, OpenRate)
            q == Rec!build_chapters(log_lines, Rec!Micros(head, OpenRate), l)
            u == Rec!RoundDiv(l, 1000)
        IN /\ Rec!Exported.total = u
           /\ Rec!Exported.chapters =
                [i \in DOMAIN q |-> [start |-> q[i], end |-> Rec!ChapterEnd(q, i, u)]]
    <3> DEFINE l == Rec!Micros(n - head - tail, OpenRate)
               q == Rec!build_chapters(log_lines, Rec!Micros(head, OpenRate), l)
               u == Rec!RoundDiv(l, 1000)
               Made(z, y) == [i \in DOMAIN z |-> [start |-> z[i], end |-> Rec!ChapterEnd(z, i, y)]]
    <3>1. starts = q /\ total = u
      BY <2>3, <2>4, <2>8, Zenon
    <3>2. Rec!Exported.chapters = Made(starts, total)
      BY <2>5, Zenon
    <3>3. Rec!Exported.chapters = Made(q, u) /\ Rec!Exported.total = u
      <4> HIDE DEF q, u, Made
      <4> QED BY <2>5, <3>1, <3>2, Zenon
    <3> QED BY <3>3, Zenon
  <2> HIDE DEF size
  <2>10. size = Rec!block_frames(disk.rate)
    BY Zenon DEF size
  <2>11. IsTrim(body, size, n, silent, head)
    <3> DEFINE g == Rec!Frames(body)
    <3>1. f = g
      BY <2>6, Zenon
    <3> HIDE DEF g
    <3>2. /\ Rec!Exported.frames = g /\ Len(g) = n
          /\ \A b \in 1..(n \div size) : silent[b] = Rec!window_is_silent(g, size, b)
      BY <2>2, <2>6, <3>1, Zenon
    <3> QED BY <2>1, <2>6, <2>7, <2>10, <3>2, Zenon DEF IsTrim, g
  <2>12. IsCut(n - head - tail, head)
    BY <2>1, <2>9, Zenon DEF IsCut
  <2> QED BY <2>11, <2>12 DEF IsExport
<1> HIDE DEF body, size, silent, tail, head
<1> QED BY <1>5, <1>9, <1>12, Zenon
-----------------------------------------------------------------------------
(* The head ends where the run of silent blocks does, or is left.          *)
LEMMA TrimmedHead == ASSUME RecType PROVE Rec!HeadTrimmedToFirstSound
<1> DEFINE e == Rec!Exported
           z == Rec!block_frames(disk.rate)
           loud == {b \in 1..(Len(e.frames) \div z) : ~Rec!window_is_silent(e.frames, z, b)}
<1> SUFFICES ASSUME e # None
             PROVE  /\ loud # {} => e.head <= (Rec!Min(loud) - 1) * z
                    /\ e.head > 0 => e.head >= MinSilentBlocks * z
                    /\ loud # {} /\ Rec!Min(loud) > MinSilentBlocks =>
                         e.head = (Rec!Min(loud) - 1) * z
  BY Zenon DEF Rec!HeadTrimmedToFirstSound
<1>1. PICK silent, body :
        \E size \in Nat \ {0}, n \in Nat, head \in Nat, tail \in Nat :
           IsExport(body, size, n, silent, head, tail)
  BY ExportIs
<1>2. PICK size \in Nat \ {0}, n \in Nat, head \in Nat, tail \in Nat :
         IsExport(body, size, n, silent, head, tail)
  BY <1>1
<1>3. PICK f : f = Rec!Frames(body)
  OBVIOUS
<1>4. /\ e.frames = f /\ Len(f) = n /\ size = z /\ e.head = head
      /\ head = Rec!SustainedFrames(Rec!LeadingRun(silent), size)
      /\ Len(silent) = n \div size
      /\ \A b \in 1..(n \div size) : silent[b] = Rec!window_is_silent(f, size, b)
  <2>1. IsTrim(body, size, n, silent, head)
    BY <1>2 DEF IsExport
  <2> QED BY <1>3, <2>1, Zenon DEF IsTrim
<1>5. PICK m \in Nat : m = n \div size
  <2>1. n \div size \in Nat
    OBVIOUS
  <2> QED BY <2>1
<1>6. PICK run \in 0..m : run = Rec!LeadingRun(silent) /\ (\A i \in 1..run : silent[i])
                          /\ (run < m => ~silent[run + 1])
  <2>1. Len(silent) = m /\ m \in Nat
    BY <1>4, <1>5
  <2>2. LET k == Rec!LeadingRun(silent)
        IN /\ k \in 0..Len(silent) /\ \A i \in 1..k : silent[i]
           /\ k < Len(silent) => ~silent[k + 1]
    BY <2>1, LeadingRunIs
  <2>3. PICK k : k = Rec!LeadingRun(silent)
    OBVIOUS
  <2>4. k \in 0..m /\ (\A i \in 1..k : silent[i]) /\ (k < m => ~silent[k + 1])
    BY <2>1, <2>2, <2>3
  <2> QED BY <2>3, <2>4
<1>7. /\ head \in {0, run * size} /\ run * size \in Nat
      /\ run >= MinSilentBlocks => head = run * size
      /\ head > 0 => head >= MinSilentBlocks * size
  <2>1. run \in Nat /\ size \in Nat
    BY <1>6
  <2> QED BY <1>4, <1>6, <2>1, SustainedIs
<1>8. loud = {b \in 1..m : ~silent[b]}
  <2>1. loud = {b \in 1..m : ~Rec!window_is_silent(f, size, b)}
    BY <1>4, <1>5
  <2>2. \A b \in 1..m : silent[b] = Rec!window_is_silent(f, size, b)
    BY <1>4, <1>5, Zenon
  <2> HIDE DEF loud
  <2> QED BY <2>1, <2>2
<1>9. loud # {} => Rec!Min(loud) - 1 = run /\ Rec!Min(loud) = run + 1
  <2> SUFFICES ASSUME loud # {} PROVE Rec!Min(loud) = run + 1
    BY <1>6
  <2>1. loud \subseteq Nat
    BY <1>8
  <2>2. PICK k \in Nat : k = Rec!Min(loud) /\ k \in loud /\ \A i \in loud : k <= i
    <3> HIDE DEF loud
    <3>1. Rec!Min(loud) \in loud /\ \A i \in loud : Rec!Min(loud) <= i
      BY <2>1, LeastOf
    <3>2. PICK k : k = Rec!Min(loud)
      OBVIOUS
    <3> QED BY <2>1, <3>1, <3>2
  <2>3. k \in 1..m /\ ~silent[k]
    BY <1>8, <2>2
  <2>4. ~(k <= run)
    BY <1>6, <2>3
  <2>5. run < m
    BY <1>6, <2>3, <2>4
  <2>6. run + 1 \in loud
    BY <1>6, <1>8, <2>5
  <2>7. k <= run + 1
    BY <2>2, <2>6
  <2>8. k = run + 1
    BY <1>6, <2>3, <2>4, <2>7
  <2> QED BY <2>2, <2>8
<1> HIDE DEF loud, e, z
<1>10. MinSilentBlocks \in Nat
  BY RecConstant
<1>11. loud # {} => e.head <= (Rec!Min(loud) - 1) * z
  <2> SUFFICES ASSUME loud # {} PROVE e.head <= run * size
    BY <1>4, <1>9
  <2>1. PICK t \in Nat : t = run * size
    BY <1>7
  <2> QED BY <1>4, <1>7, <2>1
<1>12. e.head > 0 => e.head >= MinSilentBlocks * z
  BY <1>4, <1>7
<1>13. loud # {} /\ Rec!Min(loud) > MinSilentBlocks => e.head = (Rec!Min(loud) - 1) * z
  <2> SUFFICES ASSUME loud # {}, Rec!Min(loud) > MinSilentBlocks PROVE e.head = run * size
    BY <1>4, <1>9
  <2>1. run + 1 > MinSilentBlocks
    BY <1>9
  <2>2. run >= MinSilentBlocks
    BY <1>6, <1>10, <2>1
  <2> QED BY <1>4, <1>7, <2>2
<1> QED BY <1>11, <1>12, <1>13

-----------------------------------------------------------------------------
(* Rounding never swaps. *)
LEMMA RoundMonotone ==
  ASSUME NEW a \in Nat, NEW b \in Nat, a <= b
  PROVE  Rec!RoundDiv(a, 1000) <= Rec!RoundDiv(b, 1000)
BY DEF Rec!RoundDiv

LEMMA RecDivNat ==
  ASSUME NEW a \in Nat, NEW b \in Nat \ {0}
  PROVE  Rec!RoundDiv(a, b) \in Nat
BY DivNat DEF Rec!RoundDiv, RoundDiv

LEMMA MicrosNat ==
  ASSUME NEW n \in Nat
  PROVE  Rec!Micros(n, OpenRate) \in Nat
<1>1. PICK m \in Nat : m = n * 1000000
  <2>1. n * 1000000 \in Nat
    OBVIOUS
  <2> QED BY <2>1
<1>2. Rec!RoundDiv(m, OpenRate) \in Nat
  BY RecConstant, RecDivNat
<1> QED BY <1>1, <1>2 DEF Rec!Micros

LEMMA ClampStartIs ==
  ASSUME NEW x \in Int, NEW length \in Nat, x <= length
  PROVE  Rec!ClampStart(x) \in Nat /\ Rec!ClampStart(x) <= Rec!RoundDiv(length, 1000)
<1>1. Rec!RoundDiv(length, 1000) \in Nat
  BY RecDivNat
<1>2. CASE x < 0
  BY <1>1, <1>2 DEF Rec!ClampStart
<1>3. CASE ~(x < 0)
  <2>1. x \in Nat
    BY <1>3
  <2>2. Rec!RoundDiv(x, 1000) \in Nat /\ Rec!RoundDiv(x, 1000) <= Rec!RoundDiv(length, 1000)
    BY <2>1, RecDivNat, RoundMonotone
  <2> QED BY <1>3, <2>2 DEF Rec!ClampStart
<1> QED BY <1>2, <1>3

\* Chapter starts.
Ascends(q, n, top) ==
  /\ q \in [1..n -> Nat]
  /\ \A i, j \in 1..n : i < j => q[i] < q[j]
  /\ \A i \in 1..n : q[i] <= top

LEMMA ChaptersAre ==
  ASSUME RecType, NEW head \in Int, NEW length \in Nat
  PROVE  \E n \in Nat :
           Ascends(Rec!build_chapters(log_lines, head, length), n, Rec!RoundDiv(length, 1000))
<1>1. log_lines \in Seq(Line) /\ Len(log_lines) \in Nat
  BY DEF RecType
<1> DEFINE offset(e) == (e.ts - log_lines[1].ts) - head
           loads == {i \in DOMAIN log_lines : log_lines[i].load /\ offset(log_lines[i]) <= length}
           starts == {Rec!ClampStart(offset(log_lines[i])) : i \in loads}
           q == Rec!build_chapters(log_lines, head, length)
<1>2. q = CHOOSE l \in [1..Cardinality(starts) -> starts] : \A i, j \in DOMAIN l : i < j => l[i] < l[j]
  <2>1. \A S : Rec!Cardinality(S) = Cardinality(S)
    BY DEF Rec!Cardinality, Cardinality
  <2>2. q = CHOOSE l \in [1..Rec!Cardinality(starts) -> starts] :
              \A i, j \in DOMAIN l : i < j => l[i] < l[j]
    BY Zenon DEF Rec!build_chapters
  <2> HIDE DEF starts, q
  <2> QED BY <2>1, <2>2, Zenon
<1>3. ASSUME NEW i \in loads PROVE offset(log_lines[i]) \in Int /\ offset(log_lines[i]) <= length
  <2>1. i \in DOMAIN log_lines /\ 1 \in DOMAIN log_lines
    BY <1>1
  <2>2. log_lines[i] \in Line /\ log_lines[1] \in Line
    BY <1>1, <2>1
  <2> QED BY <2>2 DEF Line
<1>4. \A s \in starts : s \in Nat /\ s <= Rec!RoundDiv(length, 1000)
  <2> SUFFICES ASSUME NEW i \in loads, NEW s, s = Rec!ClampStart(offset(log_lines[i]))
               PROVE  s \in Nat /\ s <= Rec!RoundDiv(length, 1000)
    OBVIOUS
  <2>1. PICK x : x = offset(log_lines[i])
    OBVIOUS
  <2>2. x \in Int /\ x <= length
    BY <1>3, <2>1
  <2> QED BY <2>1, <2>2, ClampStartIs
<1>5. IsFiniteSet(starts)
  <2>1. DOMAIN log_lines = 1..Len(log_lines)
    BY <1>1
  <2>2. IsFiniteSet(1..Len(log_lines))
    BY <1>1, FS_Interval
  <2>3. loads \subseteq 1..Len(log_lines)
    BY <2>1
  <2>4. IsFiniteSet(loads)
    <3> HIDE DEF loads
    <3> QED BY <2>2, <2>3, FS_Subset
  <2> DEFINE g == [i \in loads |-> Rec!ClampStart(offset(log_lines[i]))]
  <2>5. IsFiniteSet({Rec!ClampStart(offset(log_lines[i])) : i \in loads})
    <3>1. starts = {g[i] : i \in loads}
      OBVIOUS
    <3>2. g \in Surjection(loads, starts)
      <4>1. g \in [loads -> starts] /\ \A s \in starts : \E i \in loads : g[i] = s
        BY <3>1
      <4> HIDE DEF g, starts, loads
      <4> QED BY <4>1 DEF Surjection
    <3> HIDE DEF g, loads
    <3> QED BY <2>4, <3>2, FS_Surjection
  <2> QED BY <2>5
<1>6. PICK n \in Nat : n = Cardinality(starts)
  BY <1>5, FS_CardinalityType
<1> HIDE DEF q, starts
<1>7. \E l \in [1..n -> starts] : \A i, j \in DOMAIN l : i < j => l[i] < l[j]
  <2> DEFINE R == {p \in starts \X starts : p[1] < p[2]}
  <2>1. \A a, b \in starts : <<a, b>> \in R <=> a < b
    OBVIOUS
  <2> HIDE DEF R
  <2>2. TotalOrder(R, starts)
    BY <1>4, <2>1 DEF TotalOrder
  <2>3. PICK l : InOrder(l, R, starts)
    BY <1>5, <2>2, OrderExists
  <2>4. l \in [1..n -> starts] /\ DOMAIN l = 1..n
    BY <1>6, <2>3 DEF InOrder
  <2>5. \A i, j \in DOMAIN l : i < j => l[i] < l[j]
    BY <1>6, <2>1, <2>3, <2>4 DEF InOrder
  <2> QED BY <2>4, <2>5
<1>8. q \in [1..n -> starts] /\ \A i, j \in DOMAIN q : i < j => q[i] < q[j]
  <2>1. q = CHOOSE l \in [1..n -> starts] : \A i, j \in DOMAIN l : i < j => l[i] < l[j]
    BY <1>2, <1>6, Zenon
  <2> QED BY <1>7, <2>1, Zenon
<1>9. q \in [1..n -> Nat] /\ \A i \in 1..n : q[i] <= Rec!RoundDiv(length, 1000)
  BY <1>4, <1>8
<1>10. \A i, j \in 1..n : i < j => q[i] < q[j]
  BY <1>8
<1>11. Ascends(q, n, Rec!RoundDiv(length, 1000))
  BY <1>9, <1>10 DEF Ascends
<1> QED BY <1>11 DEF q

LEMMA OrderedChapters == ASSUME RecType PROVE Rec!ChaptersAreOrdered
<1> SUFFICES ASSUME Rec!Exported # None
             PROVE  \A i \in DOMAIN Rec!Exported.chapters :
                      LET c == Rec!Exported.chapters[i]
                      IN /\ 0 <= c.start /\ c.start < c.end
                         /\ i < Len(Rec!Exported.chapters) => c.end = Rec!Exported.chapters[i+1].start
                         /\ c.start <= Rec!Exported.total
  BY Zenon DEF Rec!ChaptersAreOrdered
<1>1. PICK silent, body :
        \E size \in Nat \ {0}, n \in Nat, head \in Nat, tail \in Nat :
           IsExport(body, size, n, silent, head, tail)
  BY ExportIs
<1>2. PICK size \in Nat \ {0}, n \in Nat, head \in Nat, tail \in Nat :
         IsExport(body, size, n, silent, head, tail)
  BY <1>1
<1>3. PICK length, h, q, total :
        /\ length = Rec!Micros(n - head - tail, OpenRate) /\ h = Rec!Micros(head, OpenRate)
        /\ q = Rec!build_chapters(log_lines, h, length)
        /\ total = Rec!RoundDiv(length, 1000)
  OBVIOUS
<1>4. /\ n - head - tail > 0 /\ Rec!Exported.total = total
      /\ Rec!Exported.chapters =
           [i \in DOMAIN q |-> [start |-> q[i], end |-> Rec!ChapterEnd(q, i, total)]]
  <2>1. IsCut(n - head - tail, head)
    BY <1>2 DEF IsExport
  <2> QED BY <1>3, <2>1 DEF IsCut
<1>5. length \in Nat /\ h \in Nat /\ total \in Nat
  <2>1. n - head - tail \in Nat
    BY <1>4
  <2> QED BY <1>3, <2>1, MicrosNat, RecDivNat
<1>6. PICK k \in Nat : /\ q \in [1..k -> Nat]
                       /\ \A i, j \in 1..k : i < j => q[i] < q[j]
                       /\ \A i \in 1..k : q[i] <= total
  <2>1. h \in Int
    BY <1>5
  <2>2. \E k \in Nat :
          Ascends(Rec!build_chapters(log_lines, h, length), k, Rec!RoundDiv(length, 1000))
    BY <1>5, <2>1, ChaptersAre
  <2>3. PICK k \in Nat : Ascends(q, k, total)
    BY <1>3, <2>2
  <2> QED BY <2>3 DEF Ascends
<1>7. PICK c : c = Rec!Exported.chapters
  OBVIOUS
<1>8. c = [i \in 1..k |-> [start |-> q[i], end |-> Rec!ChapterEnd(q, i, total)]]
  BY <1>4, <1>6, <1>7
<1>9. Len(c) = k /\ Len(q) = k /\ DOMAIN c = 1..k
  BY <1>6, <1>8
<1>10. \A i \in 1..k : c[i].start = q[i] /\ c[i].end = Rec!ChapterEnd(q, i, total)
  BY <1>8
<1> SUFFICES ASSUME NEW i \in 1..k
             PROVE  /\ 0 <= c[i].start /\ c[i].start < c[i].end
                    /\ i < k => c[i].end = c[i+1].start
                    /\ c[i].start <= total
  BY <1>4, <1>7, <1>9, Zenon
<1>11. q[i] \in Nat /\ q[i] <= total /\ (i < k => i + 1 \in 1..k /\ q[i+1] \in Nat /\ q[i] < q[i+1])
  <2>1. i < k => i + 1 \in 1..k
    OBVIOUS
  <2> QED BY <1>6, <2>1
<1>12. c[i].end = IF i < k THEN q[i+1] ELSE IF total > q[i] THEN total ELSE q[i] + 1
  BY <1>9, <1>10, Zenon DEF Rec!ChapterEnd
<1> QED BY <1>5, <1>10, <1>11, <1>12
-----------------------------------------------------------------------------
(* The invariant of the recorder, and what follows of it. *)
LEMMA RecNextInv == RecInv /\ [Rec!Next]_wav_vars => RecInv'
<1> SUFFICES ASSUME RecInv, [Rec!Next]_wav_vars PROVE RecInv'
  OBVIOUS
<1>1. ASSUME NEW n \in Blocks, NEW block \in [1..n -> Levels], Rec!Render(block) PROVE RecInv'
  <2>1. n \in Nat
    BY RecConstant
  <2> QED BY <1>1, <2>1, RenderKeeps
<1>2. CASE Rec!WriterPop
  BY <1>2, PopKeeps
<1>3. CASE Rec!WriterFlush
  BY <1>3, FlushKeeps
<1>4. CASE Rec!WriterFails
  BY <1>4, FailsKeeps
<1>5. CASE Rec!Crash
  BY <1>5, CrashKeeps
<1>6. CASE \/ Rec!WriterLook \/ Rec!DropStream \/ Rec!Stop \/ Rec!Join
           \/ \E load \in BOOLEAN : Rec!LogEvent(load)
           \/ UNCHANGED wav_vars
  BY <1>6, RestKeeps
<1> QED BY <1>1, <1>2, <1>3, <1>4, <1>5, <1>6 DEF Rec!Next, Rec!WriterNext

(* What the writer's end leaves behind.  Samples are in the ring only of a *)
(* recorder that is there; once the thread has taken its last look the     *)
(* flag is up and nothing is pushed, so that the ring is as its last pop   *)
(* left it, unless that pop found nothing.                                 *)
RingLength == Len(disk.body) + Len(wav_buf) + Len(ring)

CountInv ==
  /\ recorder = "none" =>
       /\ wav_writer = "ok" /\ ring = <<>> /\ wav_buf = <<>> /\ disk.body = <<>> /\ dropped = 0
  /\ recorder # "none" /\ wav_writer = "err" => RingLength + 2 * dropped <= 2 * Len(rendered)
  /\ stop_flag => ~audio
  /\ recorder # "none" /\ wav_writer \in {"flush", "ok"} =>
       stop_flag /\ (ring # <<>> => popped = 0)
  /\ wav_writer = "ok" => wav_buf = <<>>

LEMMA RecordedLength == RecType => Len(Rec!Recorded) = RingLength /\ RingLength \in Nat
<1> SUFFICES ASSUME RecType PROVE Len(Rec!Recorded) = RingLength /\ RingLength \in Nat
  OBVIOUS
<1>1. PICK b, u, r : b = disk.body /\ u = wav_buf /\ r = ring
  OBVIOUS
<1>2. b \in Seq(Sample) /\ u \in Seq(Sample) /\ r \in Seq(Sample)
  BY <1>1 DEF RecType
<1>3. b \o u \in Seq(Sample) /\ Len(b \o u) = Len(b) + Len(u)
  BY <1>2, JoinedAre
<1>4. Len((b \o u) \o r) = Len(b) + Len(u) + Len(r)
  BY <1>2, <1>3, JoinedAre
<1>5. Len(b) \in Nat /\ Len(u) \in Nat /\ Len(r) \in Nat
  BY <1>2
<1> QED BY <1>1, <1>4, <1>5 DEF Rec!Recorded, RingLength

LEMMA CountInit == Rec!Init => CountInv
<1> SUFFICES ASSUME Rec!Init PROVE CountInv
  OBVIOUS
<1>1. disk.body = <<>> /\ wav_buf = <<>> /\ ring = <<>> /\ rendered = <<>> /\ dropped = 0 /\ popped = 0
      /\ recorder \in {"none", "open"} /\ ~stop_flag
      /\ wav_writer = (IF recorder = "open" THEN "drain" ELSE "ok")
  BY DEF Rec!Init, Rec!EmptyFile
<1> QED BY <1>1 DEF CountInv

(* While the writer is well the count is exact.                            *)
LEMMA CountedWhenWell ==
  ASSUME RecInv, wav_writer # "err", recorder # "none"
  PROVE  RingLength + 2 * dropped = 2 * Len(rendered)
BY RecordedLength DEF RecInv, WholeFrames

LEMMA CountRender ==
  ASSUME RecInv, CountInv, NEW n \in Nat, NEW block \in [1..n -> Levels], Rec!Render(block)
  PROVE  CountInv'
<1>1. /\ UNCHANGED <<audio, recorder, stop_flag, wav_writer, popped, disk, wav_buf>> /\ audio
      /\ rendered' = rendered \o block
      /\ recorder = "none" => UNCHANGED <<ring, dropped>>
  BY DEF Rec!Render
<1>2. ~stop_flag
  BY <1>1 DEF CountInv
<1>3. ASSUME recorder # "none", wav_writer = "err"
      PROVE  (RingLength + 2 * dropped <= 2 * Len(rendered))'
  <2>1. PICK l \in Nat : l = Len(rendered) /\ Len(rendered') = l + n
    <3>1. block \in Seq(Levels) /\ Len(block) = n
      OBVIOUS
    <3>2. rendered \in Seq(Levels) /\ Len(rendered) \in Nat
      BY DEF RecInv, RecType
    <3>3. Len(rendered \o block) = Len(rendered) + Len(block)
      BY <3>1, <3>2, JoinedAre
    <3> QED BY <1>1, <3>1, <3>2, <3>3
  <2>2. PICK s, k, p : /\ s = Rec!Stereo(block, l + 1)
                       /\ k = IF Len(s) < Rec!Room THEN Len(s) ELSE Rec!Room
                       /\ p = SubSeq(s, 1, k)
    OBVIOUS
  <2>3. s \in Seq(Sample) /\ Len(s) = 2 * n
    <3>1. PICK f \in Nat : f = l + 1
      OBVIOUS
    <3>2. block \in Seq(Levels) /\ Len(block) = n
      OBVIOUS
    <3>3. s = Rec!Stereo(block, f)
      BY <2>2, <3>1
    <3> QED BY <3>2, <3>3, StereoIs
  <2>4. ring \in Seq(Sample) /\ Len(ring) \in Nat /\ Rec!Room \in Nat
    BY RecConstant DEF RecInv, RecType, Rec!Room
  <2>5. k \in 0..(2 * n) /\ p \in Seq(Sample) /\ Len(p) = k
    <3>1. k \in 0..(2 * n)
      BY <2>2, <2>3, <2>4
    <3> QED BY <2>2, <2>3, <3>1
  <2>6. ring' = ring \o p /\ dropped' = dropped + ((2 * n - k) \div 2)
    <3>1. Rec!Fits(s) = p
      BY <2>2, Zenon DEF Rec!Fits
    <3>2. ring' = ring \o p /\ dropped' = dropped + Rec!DroppedNow(s)
      BY <1>3, <2>1, <2>2, <3>1 DEF Rec!Render
    <3>3. Rec!DroppedNow(s) = (2 * n - k) \div 2
      BY <2>3, <2>5, <3>1 DEF Rec!DroppedNow
    <3> QED BY <3>2, <3>3
  <2>7. Len(ring') = Len(ring) + k
    BY <2>4, <2>5, <2>6, JoinedAre
  <2>8. PICK d \in Nat : d = (2 * n - k) \div 2 /\ 2 * d <= 2 * n - k
    BY <2>5
  <2>9. RingLength' = RingLength + k
    <3>1. Len(disk.body) \in Nat /\ Len(wav_buf) \in Nat
      BY DEF RecInv, RecType
    <3>2. RingLength' = Len(disk.body) + Len(wav_buf) + Len(ring')
      BY <1>1, Zenon DEF RingLength
    <3>3. k \in Nat
      BY <2>5
    <3>4. RingLength = Len(disk.body) + Len(wav_buf) + Len(ring)
      BY DEF RingLength
    <3>5. PICK a, b, c : a = Len(disk.body) /\ b = Len(wav_buf) /\ c = Len(ring)
      OBVIOUS
    <3>6. a \in Nat /\ b \in Nat /\ c \in Nat
      BY <2>4, <3>1, <3>5
    <3>7. RingLength' = a + b + (c + k) /\ RingLength = a + b + c
      BY <2>7, <3>2, <3>4, <3>5, Zenon
    <3> QED BY <3>3, <3>6, <3>7
  <2>10. RingLength + 2 * dropped <= 2 * l /\ RingLength \in Nat /\ dropped \in Nat
    BY <1>3, <2>1, RecordedLength DEF CountInv, RecInv, RecType
  <2>11. dropped' = dropped + d
    BY <2>6, <2>8
  <2> QED BY <2>1, <2>5, <2>8, <2>9, <2>10, <2>11
<1> QED BY <1>1, <1>2, <1>3 DEF CountInv

LEMMA CountFails == ASSUME RecInv, CountInv, Rec!WriterFails PROVE CountInv'
<1>1. /\ wav_writer \in {"drain", "flush"} /\ wav_writer' = "err" /\ wav_buf' = <<>>
      /\ UNCHANGED <<audio, recorder, stop_flag, popped, dropped, rendered>>
  BY DEF Rec!WriterFails
<1>2. recorder # "none" /\ RingLength + 2 * dropped = 2 * Len(rendered)
  BY <1>1, CountedWhenWell DEF CountInv
<1>3. PICK b, u, r, t : b = disk.body /\ u = wav_buf /\ r = ring /\ t = Rec!Taken
  OBVIOUS
<1>4. /\ b \in Seq(Sample) /\ u \in Seq(Sample) /\ r \in Seq(Sample) /\ t \in 0..Len(r)
  BY <1>3, TakenIs DEF RecInv, RecType
<1>5. PICK p, s, due : /\ p = SubSeq(r, 1, t) /\ s = SubSeq(r, t + 1, Len(r))
                       /\ due = u \o (IF wav_writer = "drain" THEN p ELSE <<>>)
  OBVIOUS
<1>6. /\ p \in Seq(Sample) /\ s \in Seq(Sample) /\ Len(p) = t /\ Len(s) = Len(r) - t
  BY <1>4, <1>5, SplitIs
<1>7. PICK k : k \in 0..(Len(due) - 1) /\ disk'.body = b \o SubSeq(due, 1, k)
  <2>1. due = wav_buf \o (IF wav_writer = "drain" THEN SubSeq(ring, 1, Rec!Taken) ELSE <<>>)
    BY <1>3, <1>5, Zenon
  <2>2. \E k \in 0..(Len(due) - 1), cut \in BOOLEAN :
          disk' = [disk EXCEPT !.body = @ \o SubSeq(due, 1, k), !.torn = cut]
    BY <2>1, Zenon DEF Rec!WriterFails
  <2>3. PICK k \in 0..(Len(due) - 1), cut \in BOOLEAN :
          disk' = [disk EXCEPT !.body = @ \o SubSeq(due, 1, k), !.torn = cut]
    BY <2>2, Zenon
  <2>4. disk'.body = b \o SubSeq(due, 1, k)
    BY <1>3, <2>3 DEF RecInv, RecType
  <2> QED BY <2>3, <2>4
<1>8. ring' = IF wav_writer = "drain" THEN s ELSE r
  BY <1>3, <1>5 DEF Rec!WriterFails
<1>9. due \in Seq(Sample) /\ Len(due) + Len(ring') = Len(u) + Len(r)
  <2>1. CASE wav_writer = "drain"
    <3>1. due = u \o p
      BY <1>5, <2>1
    <3>2. due \in Seq(Sample) /\ Len(due) = Len(u) + Len(p)
      BY <1>4, <1>6, <3>1, JoinedAre
    <3>3. Len(ring') = Len(r) - t /\ Len(due) = Len(u) + t
      BY <1>6, <1>8, <2>1, <3>2
    <3>4. Len(u) \in Nat /\ Len(r) \in Nat /\ t \in Nat
      BY <1>4
    <3> QED BY <3>2, <3>3, <3>4
  <2>2. CASE wav_writer = "flush"
    <3>1. due = u
      BY <1>4, <1>5, <2>2, ConcatEmptySeq
    <3> QED BY <1>4, <1>8, <2>2, <3>1
  <2> QED BY <1>1, <2>1, <2>2
<1>10. Len(disk'.body) = Len(b) + k /\ Len(b) \in Nat
  <2>1. SubSeq(due, 1, k) \in Seq(Sample) /\ Len(SubSeq(due, 1, k)) = k
    BY <1>7, <1>9
  <2> QED BY <1>4, <1>7, <2>1, JoinedAre
<1>11. (RingLength + 2 * dropped <= 2 * Len(rendered))'
  <2>1. RingLength' = Len(b) + k + Len(ring')
    <3>1. Len(wav_buf') = 0 /\ Len(ring') \in Nat
      BY <1>1, <1>4, <1>6, <1>8
    <3> QED BY <1>7, <1>10, <3>1 DEF RingLength
  <2>2. RingLength = Len(b) + Len(due) + Len(ring')
    <3>1. Len(u) \in Nat /\ Len(r) \in Nat /\ Len(due) \in Nat /\ Len(ring') \in Nat
      BY <1>4, <1>6, <1>8, <1>9
    <3>2. RingLength = Len(b) + Len(u) + Len(r)
      BY <1>3 DEF RingLength
    <3> QED BY <1>9, <1>10, <3>1, <3>2
  <2>3. Len(ring') \in Nat /\ Len(due) \in Nat /\ dropped \in Nat /\ Len(rendered) \in Nat
    BY <1>4, <1>6, <1>8, <1>9 DEF RecInv, RecType
  <2> QED BY <1>1, <1>2, <1>7, <1>10, <2>1, <2>2, <2>3
<1> QED BY <1>1, <1>2, <1>11 DEF CountInv

LEMMA CountCrash == ASSUME RecInv, CountInv, Rec!Crash PROVE CountInv'
<1>1. /\ audio' = FALSE /\ recorder' = "crashed" /\ wav_writer' = "err"
      /\ ring' = <<>> /\ wav_buf' = <<>>
      /\ UNCHANGED <<stop_flag, popped, disk, dropped, rendered>>
  BY DEF Rec!Crash
<1>2. /\ Len(disk.body) \in Nat /\ Len(wav_buf) \in Nat /\ Len(ring) \in Nat
      /\ dropped \in Nat /\ Len(rendered) \in Nat
  BY DEF RecInv, RecType
<1>3. RingLength + 2 * dropped <= 2 * Len(rendered)
  <2>1. CASE recorder = "none"
    BY <1>2, <2>1 DEF CountInv, RingLength
  <2>2. CASE recorder # "none" /\ wav_writer = "err"
    BY <2>2 DEF CountInv
  <2>3. CASE recorder # "none" /\ wav_writer # "err"
    <3>1. RingLength + 2 * dropped = 2 * Len(rendered)
      BY <2>3, CountedWhenWell
    <3>2. RingLength \in Nat
      BY <1>2 DEF RingLength
    <3> QED BY <1>2, <3>1, <3>2
  <2> QED BY <2>1, <2>2, <2>3
<1>4. RingLength' <= RingLength /\ RingLength' \in Nat /\ RingLength \in Nat
  BY <1>1, <1>2 DEF RingLength
<1> QED BY <1>1, <1>2, <1>3, <1>4 DEF CountInv

LEMMA CountStep == ASSUME RecInv, CountInv, [Rec!Next]_wav_vars PROVE CountInv'
<1>1. ASSUME NEW n \in Blocks, NEW block \in [1..n -> Levels], Rec!Render(block) PROVE CountInv'
  <2>1. n \in Nat
    BY RecConstant
  <2> QED BY <1>1, <2>1, CountRender
<1>2. CASE Rec!WriterPop
  <2>1. /\ wav_writer = "drain" /\ wav_writer' = "look"
        /\ UNCHANGED <<audio, recorder, stop_flag, dropped, rendered>>
    BY <1>2 DEF Rec!WriterPop
  <2> QED BY <2>1 DEF CountInv
<1>3. CASE Rec!WriterLook
  <2>1. /\ wav_writer = "look"
        /\ \/ wav_writer' = "flush" /\ stop_flag /\ (popped = 0 \/ ring = <<>>)
           \/ wav_writer' = "drain"
        /\ UNCHANGED <<audio, recorder, stop_flag, popped, ring, disk, wav_buf, dropped, rendered>>
    BY <1>3, Zenon DEF Rec!WriterLook, Rec!LooksDone
  <2> QED BY <2>1 DEF CountInv
<1>4. CASE Rec!WriterFlush
  <2>1. /\ wav_writer = "flush" /\ wav_writer' = "ok" /\ wav_buf' = <<>>
        /\ UNCHANGED <<audio, recorder, stop_flag, popped, ring, dropped, rendered>>
    BY <1>4 DEF Rec!WriterFlush
  <2> QED BY <2>1 DEF CountInv
<1>5. CASE Rec!WriterFails \/ Rec!Crash
  BY <1>5, CountFails, CountCrash
<1>6. CASE Rec!DropStream
  <2>1. /\ ~audio'
        /\ UNCHANGED <<recorder, stop_flag, wav_writer, popped, ring, disk, wav_buf, dropped, rendered>>
    BY <1>6 DEF Rec!DropStream
  <2> QED BY <2>1 DEF CountInv, RingLength
<1>7. CASE Rec!Stop
  <2>1. /\ ~audio' /\ recorder = "open" /\ recorder' = "stopping" /\ stop_flag'
        /\ UNCHANGED <<wav_writer, popped, ring, disk, wav_buf, dropped, rendered>>
    BY <1>7 DEF Rec!Stop
  <2> QED BY <2>1 DEF CountInv, RingLength
<1>8. CASE Rec!Join
  <2>1. /\ recorder = "stopping" /\ recorder' # "none" /\ disk'.body = disk.body
        /\ UNCHANGED <<audio, stop_flag, wav_writer, popped, ring, wav_buf, dropped, rendered>>
    BY <1>8 DEF Rec!Join, RecInv, RecType
  <2> QED BY <2>1 DEF CountInv, RingLength
<1>9. ASSUME \/ \E load \in BOOLEAN : Rec!LogEvent(load)
             \/ UNCHANGED wav_vars
      PROVE  CountInv'
  <2>1. UNCHANGED <<audio, recorder, stop_flag, wav_writer, popped, ring, disk, wav_buf, dropped, rendered>>
    BY <1>9 DEF Rec!LogEvent, wav_vars
  <2> QED BY <2>1 DEF CountInv, RingLength
<1> QED BY <1>1, <1>2, <1>3, <1>4, <1>5, <1>6, <1>7, <1>8, <1>9 DEF Rec!Next, Rec!WriterNext

LEMMA CountHolds == RecInv /\ CountInv => Rec!DropsAccounted
<1> SUFFICES ASSUME RecInv, CountInv, recorder # "none"
             PROVE  /\ Len(Rec!Recorded) + 2 * dropped <= 2 * Len(rendered)
                    /\ wav_writer # "err" => Len(Rec!Recorded) + 2 * dropped = 2 * Len(rendered)
                    /\ recorder = "finished" =>
                         Len(disk.body) + Len(ring) + 2 * dropped = 2 * Len(rendered)
                    /\ wav_writer = "ok" /\ ring # <<>> => popped = 0
  BY DEF Rec!DropsAccounted
<1>1. Len(Rec!Recorded) = RingLength /\ RingLength \in Nat /\ dropped \in Nat /\ Len(rendered) \in Nat
  BY RecordedLength DEF RecInv, RecType
<1>2. wav_writer # "err" => RingLength + 2 * dropped = 2 * Len(rendered)
  BY CountedWhenWell
<1>3. RingLength + 2 * dropped <= 2 * Len(rendered)
  BY <1>1, <1>2 DEF CountInv
<1>4. recorder = "finished" => wav_writer # "err" /\ RingLength = Len(disk.body) + Len(ring)
  <2>1. recorder = "finished" => wav_writer = "ok" /\ Len(wav_buf) = 0
    BY DEF RecInv, Header, CountInv
  <2>2. Len(disk.body) \in Nat /\ Len(ring) \in Nat
    BY DEF RecInv, RecType
  <2> QED BY <2>1, <2>2 DEF RingLength
<1>5. wav_writer = "ok" /\ ring # <<>> => popped = 0
  BY DEF CountInv
<1> QED BY <1>1, <1>2, <1>3, <1>4, <1>5

LEMMA RecordingHolds == RecInv /\ CountInv => RecordingIsTrue
<1> SUFFICES ASSUME RecInv, CountInv PROVE RecordingIsTrue
  OBVIOUS
<1>1. RecType /\ WholeFrames /\ Header /\ (wav_writer = "err" => Paired(disk.body))
  BY DEF RecInv
<1>2. PICK b \in Seq(Sample) : b = disk.body
  BY <1>1 DEF RecType
<1>3. Rec!RecTypeOK
  <2>1. disk.data \in 0..Len(disk.body)
    <3>1. disk.data = 0 \/ disk.data = Len(b)
      BY <1>1, <1>2 DEF Header
    <3>2. Len(b) \in Nat
      OBVIOUS
    <3> QED BY <1>2, <3>1, <3>2
  <2> QED BY <1>1, <2>1 DEF RecType, Rec!RecTypeOK
<1>4. Rec!ChannelsStayPaired
  <2>1. Paired(IF wav_writer = "err" THEN disk.body ELSE Rec!Recorded)
    BY <1>1 DEF WholeFrames
  <2> QED BY <2>1, Zenon DEF Paired, Rec!ChannelsStayPaired
<1>5. Rec!DropsAccounted
  BY CountHolds
<1>6. Rec!FinishedFileReadsBack
  <2>1. recorder = "finished" => disk.data = Len(disk.body) /\ ~disk.torn
    BY <1>1 DEF Header, WholeFrames
  <2> QED BY <1>1, <2>1, ReadsBack DEF Rec!FinishedFileReadsBack
<1> QED BY <1>1, <1>3, <1>4, <1>5, <1>6, TrimmedHead, OrderedChapters DEF RecordingIsTrue

(* What a recording holds of a session is true whatever the ring, the      *)
(* buffer and the blocks hold, whenever a write fails and whenever the     *)
(* process is killed: channels stay paired, the count of dropped frames is *)
(* never too high and, while no write has failed, short only of what the   *)
(* writer's last look missed; a finished file is read back whole; and what *)
(* is exported of it is trimmed and cut into chapters as it should be      *)
(* (recording/mod.rs, recording/export.rs).                                *)
THEOREM RecordingCorrect == Rec!Spec => []RecordingIsTrue
<1>1. Rec!Init => RecInv /\ CountInv
  BY RecInit, CountInit
<1>2. RecInv /\ CountInv /\ [Rec!Next]_Rec!rec_vars => RecInv' /\ CountInv'
  BY RecNextInv, CountStep DEF Rec!rec_vars, wav_vars
<1>3. RecInv /\ CountInv => RecordingIsTrue
  BY RecordingHolds
<1> QED BY <1>1, <1>2, <1>3, PTL DEF Rec!Spec
=============================================================================
