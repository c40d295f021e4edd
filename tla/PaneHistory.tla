---------------------------- MODULE PaneHistory ----------------------------
(***************************************************************************)
(* The history of a terminal surface (terminal/terminal.go): segments, one *)
(* for each stretch of one program on one kind of screen, the last of them *)
(* open, and the queries that read them back.                              *)
(*                                                                         *)
(* A row of text is a number.  A segment of kind "lines" has rows, one of  *)
(* kind "frames" has frames, which are sequences of rows.                  *)
(***************************************************************************)
EXTENDS Integers, Sequences, SequencesExt

CONSTANTS
  LineCap,   \* the rows a segment keeps
  FrameCap,  \* the frames a segment keeps
  DiffCap    \* the rows that are shown of a difference

ASSUME CapsAssumption ==
  LineCap \in Nat \ {0} /\ FrameCap \in Nat \ {0} /\ DiffCap \in Nat \ {0}

\* What a query prints between rows that are not neighbours, above what it
\* leaves out, and above what a difference leaves out: none is a row of text.
Gap == -1
Elided == -2
Omitted == -3

Newest(s, n) == SubSeq(s, IF Len(s) > n THEN Len(s) - n + 1 ELSE 1, Len(s))
Oldest(s, n) == SubSeq(s, 1, IF Len(s) > n THEN n ELSE Len(s))

Segment(prog, kind) ==
  [prog |-> prog, kind |-> kind, rows |-> << >>, frames |-> << >>]

OpenOf(h) == h[Len(h)]

\* AppendLine, once for each of the rows.
AppendLines(h, rows) ==
  IF h = << >> \/ OpenOf(h).kind # "lines" THEN h
  ELSE [h EXCEPT ![Len(h)].rows = Newest(@ \o rows, LineCap)]

AppendLine(h, row) == AppendLines(h, <<row>>)

\* Mutant: every capture is stored.
AppendFrameAlways(h, frame) ==
  IF h = << >> \/ OpenOf(h).kind # "frames" THEN h
  ELSE [h EXCEPT ![Len(h)].frames = Newest(Append(@, frame), FrameCap)]

\* A frame equal to the last one is not stored.
AppendFrame(h, frame) ==
  IF h = << >> \/ OpenOf(h).kind # "frames" THEN h
  ELSE LET fs == OpenOf(h).frames IN
       IF fs # << >> /\ Last(fs) = frame THEN h
       ELSE [h EXCEPT ![Len(h)].frames = Newest(Append(@, frame), FrameCap)]

ProgramChanged(h, prog, kind) ==
  IF OpenOf(h).prog = prog /\ OpenOf(h).kind = kind THEN h
  ELSE Append(h, Segment(prog, kind))

(***************************************************************************)
(* DiffFrames: the rows of b between what it begins with and what it ends  *)
(* with in common with a; of a long difference the last ones, with a row   *)
(* that says so.                                                           *)
(***************************************************************************)
SharedPrefix(a, b) ==
  LET most == IF Len(a) < Len(b) THEN Len(a) ELSE Len(b) IN
    CHOOSE n \in 0 .. most :
      /\ \A i \in 1 .. n : a[i] = b[i]
      /\ n < most => a[n + 1] # b[n + 1]

SharedSuffix(a, b) == SharedPrefix(Reverse(a), Reverse(b))

\* Mutant: the first row that differs at the end counts as shared.
ChangedRowsShort(a, b) ==
  LET lo == SharedPrefix(a, b)
      a1 == SubSeq(a, lo + 1, Len(a))
      b1 == SubSeq(b, lo + 1, Len(b))
      hi == SharedSuffix(a1, b1)
  IN SubSeq(b1, 1, Len(b1) - hi - 1)

ChangedRows(a, b) ==
  LET lo == SharedPrefix(a, b)
      a1 == SubSeq(a, lo + 1, Len(a))
      b1 == SubSeq(b, lo + 1, Len(b))
      hi == SharedSuffix(a1, b1)
  IN SubSeq(b1, 1, Len(b1) - hi)

DiffFrames(a, b) ==
  LET rows == ChangedRows(a, b) IN
  IF Len(rows) > DiffCap THEN <<Omitted>> \o Newest(rows, DiffCap) ELSE rows

\* The first frame a segment still has is shown whole.
Diff(seg, i) ==
  IF i = 1 THEN seg.frames[1] ELSE DiffFrames(seg.frames[i - 1], seg.frames[i])

RenderSegment(seg) ==
  IF seg.kind = "lines" THEN seg.rows
  ELSE FlattenSeq([i \in DOMAIN seg.frames |-> Diff(seg, i)])

(***************************************************************************)
(* tailFrames and headFrames: whole segments, and a part of the one that   *)
(* crosses the boundary.                                                   *)
(***************************************************************************)
AllFrames(segs) == FlattenSeq([i \in DOMAIN segs |-> segs[i].frames])

FrameCount(segs) == Len(AllFrames(segs))

\* The frames left to take when a segment is reached from one of the ends.
Left(n, passed) == IF FrameCount(passed) < n THEN n - FrameCount(passed) ELSE 0

\* Mutant: what has been taken from later segments is not counted.
TailFramesAnew(segs, n) ==
  [i \in DOMAIN segs |-> [segs[i] EXCEPT !.frames = Newest(@, n)]]

\* Segments before the one that crosses the boundary are left out; here they
\* are left in without frames.
TailFrames(segs, n) ==
  [i \in DOMAIN segs |->
    [segs[i] EXCEPT !.frames =
      Newest(@, Left(n, SubSeq(segs, i + 1, Len(segs))))]]

HeadFrames(segs, n) ==
  [i \in DOMAIN segs |->
    [segs[i] EXCEPT !.frames = Oldest(@, Left(n, SubSeq(segs, 1, i - 1)))]]

(***************************************************************************)
(* Searching and capping what a query returns (grepLines, capJoin).        *)
(***************************************************************************)
Rendered(segs) == FlattenSeq([i \in DOMAIN segs |-> RenderSegment(segs[i])])

\* A row is printed if it matches or has a match within ctx rows of it.
Marked(rows, pat, ctx) ==
  LET hits == {j \in DOMAIN rows : rows[j] = pat}
  IN {i \in DOMAIN rows : \E j \in hits : j <= i + ctx /\ i <= j + ctx}

\* Mutant: the runs of rows are not told apart.
GrepLinesJoined(rows, pat, ctx) ==
  LET marked == Marked(rows, pat, ctx)
  IN FlattenSeq([i \in DOMAIN rows |->
       IF i \in marked THEN <<rows[i]>> ELSE << >>])

GrepLines(rows, pat, ctx) ==
  LET marked == Marked(rows, pat, ctx)
      parted(i) == i - 1 \notin marked /\ \E k \in marked : k < i
  IN FlattenSeq([i \in DOMAIN rows |->
       IF i \notin marked THEN << >>
       ELSE IF parted(i) THEN <<Gap, rows[i]>> ELSE <<rows[i]>>])

CapJoin(rows, limit) ==
  IF Len(rows) > limit THEN <<Elided>> \o Newest(rows, limit) ELSE rows

\* The query for the rows around those that match.
QueryGrep(h, pat, ctx, limit) == CapJoin(GrepLines(Rendered(h), pat, ctx), limit)
=============================================================================
