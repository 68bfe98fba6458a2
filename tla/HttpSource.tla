------------------------------ MODULE HttpSource ------------------------------
(***************************************************************************)
(* engine/src/audio/http_source.rs: a track on an HTTP server as a file    *)
(* the decoder reads and seeks in, fetched in ranges and kept in a small   *)
(* cache of pages.  Byte k of the track is the number k, so a page's bytes *)
(* are the numbers from `from`; it is right when that is where it starts.  *)
(***************************************************************************)
EXTENDS Integers, Sequences, FiniteSets, SequencesExt

CONSTANTS
  PAGE_SIZE,
  MAX_CACHED_PAGES,
  FetchPages,      \* pages in PREFETCH_BYTES and in a later fetch, 4
  Servers,         \* how servers treat ranges and lengths, and their track's size
  Reads,           \* sizes of the decoder's buffer
  Seeks,           \* distances the decoder seeks by
  MaxPos,          \* bound: where the cursor stands when a call is made
  None

HttpSourceConstants ==
  /\ PAGE_SIZE \in Nat \ {0} /\ FetchPages \in Nat \ {0}
  /\ MAX_CACHED_PAGES \in Nat /\ MAX_CACHED_PAGES >= FetchPages
  /\ Servers \subseteq [ranges : BOOLEAN, length : BOOLEAN, size : Nat]
  /\ Reads \subseteq Nat \ {0} /\ Seeks \subseteq Int /\ MaxPos \in Nat /\ None \notin Int

VARIABLES
  server,
  source,         \* closed, open, or failed to open
  pos,
  total_len,      \* what the server said, or None
  accept_ranges,
  pages,          \* least recently used first
  last_read,      \* history: what the last call returned
  broken          \* history: a request of that call failed on the network

vars == <<server, source, pos, total_len, accept_ranges, pages, last_read, broken>>

Min2(a, b) == IF a < b THEN a ELSE b
NonNegative(n) == IF n < 0 THEN 0 ELSE n

Idle == [call |-> "none"]
Failed == [call |-> "error"]

(* The server: a range past the end is refused, ranges it does not know    *)
(* are answered with the whole track.                                      *)
ranged_get(lo, hi) ==
  IF ~server.ranges THEN [status |-> 200, from |-> 0, size |-> server.size]
  ELSE IF lo >= server.size THEN [status |-> 416, from |-> lo, size |-> 0]
  ELSE [status |-> 206, from |-> lo, size |-> Min2(hi + 1, server.size) - lo]

parse_total_length(resp) == IF server.length THEN server.size ELSE None

\* The body in pages from `start` on, the last one short.
BodyPages(start, resp) ==
  LET count == (resp.size + PAGE_SIZE - 1) \div PAGE_SIZE
  IN [i \in 1..count |->
        LET at == (i - 1) * PAGE_SIZE
        IN [start |-> start + at, from |-> resp.from + at, size |-> Min2(PAGE_SIZE, resp.size - at)]]

\* A page fetched again replaces its older copy, and is the last used.
PushPage(cache, page) ==
  LET copy == SelectInSeq(cache, LAMBDA p : p.start = page.start)
  IN Append(IF copy = 0 THEN cache ELSE RemoveAt(cache, copy), page)

slice_into_pages(start, resp, cache) == FoldLeft(PushPage, cache, BodyPages(start, resp))

Holds(page, offset) == page.start <= offset /\ offset < page.start + page.size
HitIndex(cache, offset) == SelectInSeq(cache, LAMBDA p : Holds(p, offset))

Init ==
  /\ server \in Servers
  /\ source = "closed" /\ pos = 0 /\ total_len = None /\ accept_ranges = FALSE
  /\ pages = <<>> /\ last_read = Idle /\ broken = FALSE

\* HttpMediaSource::open: the prefetch decides length and seekability.
Open ==
  /\ source = "closed"
  /\ UNCHANGED <<server, pos>>
  /\ \/ /\ source' = "failed" /\ last_read' = Failed /\ broken' = TRUE
        /\ UNCHANGED <<total_len, accept_ranges, pages>>
     \/ LET resp == ranged_get(0, FetchPages * PAGE_SIZE - 1)
        IN IF resp.status = 416
           THEN /\ source' = "failed" /\ last_read' = Failed /\ broken' = FALSE
                /\ UNCHANGED <<total_len, accept_ranges, pages>>
           ELSE /\ source' = "open" /\ last_read' = Idle /\ broken' = FALSE
                /\ total_len' = parse_total_length(resp)
                /\ accept_ranges' = server.ranges
                /\ pages' = slice_into_pages(0, resp, <<>>)

Trim(cache) ==
  IF Len(cache) <= MAX_CACHED_PAGES THEN cache
  ELSE SubSeq(cache, Len(cache) - MAX_CACHED_PAGES + 1, Len(cache))

\* Copy what the page has, at most the buffer.
Copied(page, n) ==
  LET within == pos - page.start
      len    == Min2(page.size - within, n)
  IN /\ last_read' = [call |-> "read", at |-> pos, from |-> page.from + within, len |-> len]
     /\ pos' = pos + len

AtEnd == total_len # None /\ pos >= total_len

ReadEof(n) ==
  /\ AtEnd
  /\ last_read' = [call |-> "read", at |-> pos, from |-> pos, len |-> 0] /\ broken' = FALSE
  /\ UNCHANGED <<server, source, pos, total_len, accept_ranges, pages>>

\* cache_lookup: the page that was hit becomes the most recently used.
ReadHit(n) ==
  /\ ~AtEnd /\ HitIndex(pages, pos) # 0
  /\ LET hit == HitIndex(pages, pos)
     IN /\ pages' = Append(RemoveAt(pages, hit), pages[hit])
        /\ Copied(pages[hit], n)
  /\ broken' = FALSE
  /\ UNCHANGED <<server, source, total_len, accept_ranges>>

PageStart == (pos \div PAGE_SIZE) * PAGE_SIZE

\* Mutant: the chunk ends a byte short of the end of the track.
ChunkEnd_short ==
  LET end == PageStart + FetchPages * PAGE_SIZE - 1
  IN IF total_len # None /\ total_len > 0 THEN Min2(end, total_len - 2) ELSE end

ChunkEnd ==
  LET end == PageStart + FetchPages * PAGE_SIZE - 1
  IN IF total_len # None /\ total_len > 0 THEN Min2(end, total_len - 1) ELSE end

\* fetch_around: an aligned chunk, and the page of it the cursor is in.
ReadFetch(n) ==
  /\ ~AtEnd /\ HitIndex(pages, pos) = 0
  /\ LET resp    == ranged_get(PageStart, ChunkEnd)
         fetched == Trim(slice_into_pages(PageStart, resp, pages))
         found   == HitIndex(fetched, pos)
     IN \/ /\ last_read' = Failed /\ broken' = TRUE
           /\ UNCHANGED <<pos, total_len, pages>>
        \/ /\ ChunkEnd < PageStart \/ resp.status = 416
           /\ last_read' = Failed /\ broken' = FALSE
           /\ UNCHANGED <<pos, total_len, pages>>
        \/ /\ ChunkEnd >= PageStart /\ resp.status # 416
           /\ total_len' = IF total_len = None THEN parse_total_length(resp) ELSE total_len
           /\ pages' = fetched /\ broken' = FALSE
           /\ IF found = 0 THEN last_read' = Failed /\ UNCHANGED pos ELSE Copied(fetched[found], n)
  /\ UNCHANGED <<server, source, accept_ranges>>

Read(n) == source = "open" /\ pos <= MaxPos /\ (ReadEof(n) \/ ReadHit(n) \/ ReadFetch(n))

\* Seek: nothing is fetched; a cursor may stand past the end.  The demuxer
\* seeks only in a source that says it can (is_seekable).
Seek(to) ==
  /\ source = "open" /\ accept_ranges
  /\ pos' = NonNegative(to)
  /\ last_read' = [call |-> "seek"] /\ broken' = FALSE
  /\ UNCHANGED <<server, source, total_len, accept_ranges, pages>>

Next ==
  \/ Open
  \/ \E n \in Reads : Read(n)
  \/ \E d \in Seeks :
       \/ d >= 0 /\ Seek(d)
       \/ pos <= MaxPos /\ Seek(pos + d)
       \/ total_len # None /\ Seek(total_len + d)

Spec == Init /\ [][Next]_vars
-----------------------------------------------------------------------------
(* What a read returns is what the track has at the cursor, through every  *)
(* mix of hits, refetches, evictions and seeks back; but a server that     *)
(* knows neither ranges nor lengths sends the track again and again        *)
(* (http_source.rs, read and fetch_around).                                *)
ReadsAreTheTrack ==
  last_read.call = "read" /\ last_read.len > 0 /\ (server.ranges \/ server.length) =>
    last_read.from = last_read.at /\ last_read.at + last_read.len <= server.size

(* The end is reported at the end and nowhere else, and from a server that *)
(* gives a length a read fails only when the network does: the last, short *)
(* page and the ends of chunks cost no byte (read and fetch_around).       *)
EndsOnlyAtTheEnd ==
  /\ last_read.call = "read" /\ last_read.len = 0 => last_read.at >= server.size
  /\ source = "open" /\ last_read = Failed /\ server.length => broken
=============================================================================
