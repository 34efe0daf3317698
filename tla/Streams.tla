-------------------------------- MODULE Streams --------------------------------
(***************************************************************************)
(* Stream and the blobs built on it.  A stream is a list of segments; only *)
(* the last may have free room (`room').  `read', when not empty, is the   *)
(* rest of a list of segments from which the next read starts, and `readN' *)
(* the bytes before it (consecutiveRead): a read remembers where it ended. *)
(* A byte is any value; a hex digit is <<byte, 1>> or <<byte, 2>>; Wild is  *)
(* what memory holds that nobody wrote.                                    *)
(***************************************************************************)
EXTENDS Naturals, Integers, SequencesExt, FiniteSetsExt

CONSTANT PieceLength       \* DEFAULT_BLOB_BUFFER_LENGTH
ASSUME PieceLengthEven == PieceLength \in Nat \ {0} /\ PieceLength % 2 = 0

Wild == <<"wild", 0>>
Least2(a, b) == IF a < b THEN a ELSE b
Most2(a, b)  == IF a > b THEN a ELSE b

Empty(minimum) == [segments |-> << >>, room |-> 0, minimum |-> minimum,
                   read |-> << >>, readN |-> 0]
TotalLength(s) == Len(FlattenSeq(s.segments))
Clear(s) == Empty(s.minimum)

\* putSegment that copies: the room of the last segment first, then a segment of its own.
PutSegment(s, data) ==
  LET fill == Least2(s.room, Len(data))
      rest == SubSeq(data, fill + 1, Len(data))
      k    == Len(s.segments)
      grown == IF fill = 0 THEN s.segments
               ELSE [s.segments EXCEPT ![k] = @ \o SubSeq(data, 1, fill)]
  IN  IF rest = << >> /\ k > 0 THEN [s EXCEPT !.segments = grown, !.room = @ - fill]
      ELSE [s EXCEPT !.segments = Append(grown, rest),
                     !.room = Most2(Len(rest), s.minimum) - Len(rest)]

\* Pieces of at most n elements, in order.
Cut(data, n) ==
  [i \in 1..((Len(data) + n - 1) \div n) |-> SubSeq(data, (i - 1) * n + 1, Least2(i * n, Len(data)))]
PutLongSegment(s, data) == FoldLeft(PutSegment, s, Cut(data, PieceLength))

(***************************************************************************)
(* getSegment, getSegmentToHexStr: `wanted' bytes from `offset' on.  A      *)
(* segment that was read from its first to its last byte is left behind,    *)
(* unless the read turned it into hex digits, whose loop counts its length  *)
(* down (`hex').  A read from before the remembered place goes wild.        *)
(***************************************************************************)
\* One segment: list[i], before which there are r.n bytes.
ReadStep(list, hex, r, i) ==
  LET seg == list[i]
      off == r.offset - r.n
      l   == Least2(r.wanted, Len(seg) - off)
      got == [j \in 1..l |-> IF off + j < 1 THEN Wild ELSE seg[off + j]]
      whole == l = Len(seg) /\ ~hex
      more == [r EXCEPT !.data = @ \o got, !.wanted = @ - l, !.offset = @ + l, !.n = @ + Len(seg)]
      last == [r EXCEPT !.data = @ \o got, !.wanted = 0, !.done = TRUE,
                        !.read = SubSeq(list, IF whole THEN i + 1 ELSE i, Len(list)),
                        !.readN = r.n + IF whole THEN Len(seg) ELSE 0]
  IN  IF r.done THEN r
      ELSE IF r.n + Len(seg) <= r.offset THEN [r EXCEPT !.n = @ + Len(seg)]
      ELSE IF l < r.wanted THEN more ELSE last
GetSegment(s, offset, wanted, hex) ==
  LET list == IF s.read # << >> THEN s.read ELSE s.segments
      start == [data |-> << >>, wanted |-> wanted, offset |-> offset, done |-> FALSE,
                n |-> IF s.read # << >> THEN s.readN ELSE 0, read |-> s.read, readN |-> s.readN]
      r == FoldLeftDomain(LAMBDA x, i : ReadStep(list, hex, x, i), start, list)
  IN  [data   |-> r.data \o [j \in 1..r.wanted |-> Wild],     \* nobody looks at the count
       stream |-> [s EXCEPT !.read = r.read, !.readN = r.readN]]

\* Stream::attach: the segments of the other, but not where it was read last.
Attach(s, other) ==
  [s EXCEPT !.segments = other.segments, !.room = other.room, !.minimum = other.minimum]

\* getSegmentLength and getSegment at a position: the rest of the segment there.
Keep(segments, seg) == IF seg = << >> THEN segments ELSE Append(segments, seg)
NotEmpty(segments) == FoldLeft(Keep, << >>, segments)
SegmentsFrom(s) == NotEmpty(s.segments)

-----------------------------------------------------------------------------
(* Hex digits.                                                             *)
ToHex(bytes) == [i \in 1..2 * Len(bytes) |-> <<bytes[(i + 1) \div 2], 2 - (i % 2)>>]
\* convStrHexToBinary: digits that do not belong together make a byte nobody meant.
FromHex(digits) ==
  [i \in 1..Len(digits) \div 2 |->
     LET a == digits[2 * i - 1] b == digits[2 * i]
     IN  IF a[1] = b[1] /\ a[2] = 1 /\ b[2] = 2 THEN a[1] ELSE Wild]

\* What reaches the server, as its segments.
WriteBlob(s) == SegmentsFrom(s)
BugWriteHex(s) == <<FromHex(FlattenSeq(Tail(SegmentsFrom(s))))>>
WriteStreamHexToBlob(s) == [i \in 1..Len(SegmentsFrom(s)) |-> FromHex(SegmentsFrom(s)[i])]
WriteData(data) == Cut(data, PieceLength)           \* writeBlob(sqldata, data, length), directWriteBlob
WriteStringHexToBlob(digits) == WriteData(FromHex(digits))

\* fetchBlob: the server's segments, cut to the buffer, are added one by one.
FetchInto(s, server) ==
  FoldLeft(PutSegment, s, FlattenSeq([i \in 1..Len(server) |-> Cut(server[i], PieceLength)]))
=============================================================================
