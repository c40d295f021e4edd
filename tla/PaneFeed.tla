------------------------------ MODULE PaneFeed ------------------------------
(***************************************************************************)
(* How the history of a tmux pane is collected (tmux/tmux.go): a poller    *)
(* (PollPane, once per tick of the tool that runs it) and a stream         *)
(* (Stream, one goroutine) both feed the pane's session.  A pane with a    *)
(* normal screen is tailed with a watermark, the number of rows captured   *)
(* so far; one with an alternate screen is captured frame by frame.        *)
(*                                                                         *)
(* The pane is not part of the repository: it prints lines, 1, 2, ..., has *)
(* a scrollback of which a capture returns the newest Cap rows and a       *)
(* viewport of VP rows; a full-screen program repaints the screen; the     *)
(* scrollback may be cleared and the pane may go.                          *)
(***************************************************************************)
EXTENDS PaneHistory, FiniteSets

CONSTANTS
  VP, Cap,     \* the rows of the viewport and of the deepest capture
  Frames,      \* what the full-screen program paints
  MaxLines, MaxEvents, MaxStreams  \* bounds: lines, what befalls the screen, streams

ASSUME ScreenAssumption == VP \in Nat \ {0} /\ Cap \in Nat /\ VP <= Cap

ASSUME BoundsAssumption == MaxLines \in Nat /\ MaxEvents \in Nat /\ MaxStreams \in Nat

\* A screen has a row and no more than fit; what it shows are no printed lines.
ASSUME FramesAssumption ==
  /\ Frames # {}
  /\ \A f \in Frames :
       /\ f \in Seq(Nat) /\ Len(f) \in 1 .. VP
       /\ \A i \in 1 .. Len(f) : f[i] > MaxLines

VARIABLES
  pane,       \* [alive, prog, lo, hi, frame]: rows lo .. hi are on the grid
  flips, paints, clears, streams,   \* how often each has happened
  hist,       \* the pane's session: its segments; << >> when there is none
  gen,        \* which session of the pane it is
  wm,         \* the watermark; 0 when there is none
  deep,       \* whether a row had scrolled away at a first sight of the pane
  streaming,  \* the flag that keeps the poller from capturing frames
  poll,       \* the poller
  strm        \* the stream

counts == <<flips, paints, clears, streams>>
session == <<hist, gen, wm, deep>>
vars == <<pane, counts, session, streaming, poll, strm>>

\* An empty capture has one empty row; a capture of a pane that is gone fails,
\* and where the error is ignored its text is taken for a frame.
Blank == 0
ErrText == <<99>>

Sh == [prog |-> "sh", kind |-> "lines"]
Vi == [prog |-> "vi", kind |-> "frames"]

Rows(lo, hi) == [i \in 1 .. (hi + 1 - lo) |-> lo + i - 1]
OrBlank(rows) == IF rows = << >> THEN <<Blank>> ELSE rows

\* capture-pane -p
Viewport ==
  IF pane.prog = "vi" THEN pane.frame
  ELSE OrBlank(Newest(Rows(pane.lo, pane.hi), VP))

\* capture-pane -p -S -5000: the screen of a full-screen program has the
\* scrollback of the shell above it.
Scrollback ==
  IF pane.prog = "vi"
  THEN Newest(Rows(pane.lo, IF pane.hi > VP THEN pane.hi - VP ELSE 0), Cap - VP)
       \o pane.frame
  ELSE OrBlank(Newest(Rows(pane.lo, pane.hi), Cap))

Snapshot == IF pane.prog = "vi" THEN Vi ELSE Sh

PollIdle == [pc |-> "idle", p |-> Sh, gen |-> 0, rows |-> << >>, seen |-> 0]
\* base: the newest line when the stream began; sent: the rows it has sent.
StrmIdle == [pc |-> "idle", p |-> Sh, cancelled |-> FALSE, gen |-> 0, seen |-> 0,
             rest |-> << >>, prev |-> << >>, pending |-> << >>, base |-> 0,
             sent |-> << >>]

Init ==
  /\ pane \in [alive : {TRUE}, prog : {"sh", "vi"}, lo : {1}, hi : {0},
               frame : {CHOOSE f \in Frames : TRUE}]
  /\ flips = 0 /\ paints = 0 /\ clears = 0 /\ streams = 0
  /\ hist = << >> /\ gen = 0 /\ wm = 0 /\ deep = FALSE
  /\ streaming = FALSE
  /\ poll = PollIdle /\ strm = StrmIdle

(***************************************************************************)
(* The pane.                                                               *)
(***************************************************************************)
PaneOnly == UNCHANGED <<session, streaming, poll, strm, streams>>

Eventful ==
  flips + paints + clears + (IF pane.alive THEN 0 ELSE 1) < MaxEvents

Output ==
  /\ pane.alive /\ pane.prog = "sh" /\ pane.hi < MaxLines
  /\ pane' = [pane EXCEPT !.hi = @ + 1]
  /\ UNCHANGED <<flips, paints, clears>> /\ PaneOnly

Paint ==
  /\ pane.alive /\ pane.prog = "vi" /\ Eventful
  /\ \E f \in Frames \ {pane.frame} : pane' = [pane EXCEPT !.frame = f]
  /\ paints' = paints + 1
  /\ UNCHANGED <<flips, clears>> /\ PaneOnly

Flip ==
  /\ pane.alive /\ Eventful
  /\ pane' = [pane EXCEPT !.prog = IF @ = "sh" THEN "vi" ELSE "sh"]
  /\ flips' = flips + 1
  /\ UNCHANGED <<paints, clears>> /\ PaneOnly

\* The scrollback and the screen are cleared.
Clear ==
  /\ pane.alive /\ pane.prog = "sh" /\ Eventful
  /\ pane' = [pane EXCEPT !.lo = pane.hi + 1]
  /\ clears' = clears + 1
  /\ UNCHANGED <<flips, paints>> /\ PaneOnly

End ==
  /\ pane.alive /\ Eventful
  /\ pane' = [pane EXCEPT !.alive = FALSE]
  /\ UNCHANGED <<flips, paints, clears>> /\ PaneOnly

(***************************************************************************)
(* SessionFor, under the lock: the first sight of a pane seeds its history *)
(* with what is on the screen, and the watermark with the rows of it.      *)
(***************************************************************************)
\* Mutant: the seed is not counted.
SeedUncounted(p, ok) ==
  LET s == <<Segment(p.prog, p.kind)>> IN
  [hist |-> IF ~ok THEN s
            ELSE IF p.kind = "lines" THEN AppendLines(s, Viewport)
            ELSE AppendFrame(s, Viewport),
   wm |-> IF ok /\ p.kind = "lines" THEN wm + 1 ELSE wm]

Seed(p, ok) ==
  LET s == <<Segment(p.prog, p.kind)>> IN
  [hist |-> IF ~ok THEN s
            ELSE IF p.kind = "lines" THEN AppendLines(s, Viewport)
            ELSE AppendFrame(s, Viewport),
   wm |-> IF ok /\ p.kind = "lines" THEN wm + Len(Viewport) ELSE wm]

\* The session that a caller gets: what is there, or a new one.
SessionFor(p, ok) ==
  IF hist # << >> THEN [hist |-> hist, gen |-> gen, wm |-> wm, deep |-> deep]
  ELSE [hist |-> Seed(p, ok).hist, gen |-> gen + 1, wm |-> Seed(p, ok).wm,
        deep |-> deep \/ pane.hi >= pane.lo + VP]

\* What is appended to a session that has been dropped is lost with it.
Feed(g, h) == hist' = IF hist # << >> /\ g = gen THEN h ELSE hist

Drop == hist' = << >> /\ wm' = 0 /\ UNCHANGED <<gen, deep>>

(***************************************************************************)
(* PollPane, with a pane record from an earlier Scan.                      *)
(***************************************************************************)
PollOnly == UNCHANGED <<pane, counts, streaming, strm>>

PollScan ==
  /\ poll.pc = "idle" /\ pane.alive
  /\ poll' = [poll EXCEPT !.pc = "segment", !.p = Snapshot]
  /\ UNCHANGED session /\ PollOnly

PollSegment ==
  /\ poll.pc = "segment"
  /\ LET s == SessionFor(poll.p, pane.alive) IN
       /\ hist' = ProgramChanged(s.hist, poll.p.prog, poll.p.kind)
       /\ gen' = s.gen /\ wm' = s.wm /\ deep' = s.deep
       /\ poll' = [poll EXCEPT !.gen = s.gen,
                     !.pc = IF poll.p.kind = "lines" THEN "capture" ELSE "frame"]
  /\ PollOnly

\* feedLines
PollCapture ==
  /\ poll.pc = "capture"
  /\ poll' = IF pane.alive
             THEN [poll EXCEPT !.pc = "append", !.rows = Scrollback]
             ELSE PollIdle
  /\ UNCHANGED session /\ PollOnly

PollAppend ==
  /\ poll.pc = "append"
  /\ LET n == Len(poll.rows)
         seen == IF wm = 0 THEN n ELSE wm
     IN /\ Feed(poll.gen, AppendLines(hist, SubSeq(poll.rows, seen + 1, n)))
        /\ poll' = [poll EXCEPT !.pc = "save", !.rows = << >>,
                                !.seen = IF n > seen THEN n ELSE seen]
  /\ UNCHANGED <<gen, deep, wm>> /\ PollOnly

PollSave ==
  /\ poll.pc = "save"
  /\ wm' = poll.seen
  /\ poll' = PollIdle
  /\ UNCHANGED <<hist, gen, deep>> /\ PollOnly

PollFrame ==
  /\ poll.pc = "frame"
  /\ IF streaming THEN UNCHANGED hist
     ELSE Feed(poll.gen, AppendFrame(hist, IF pane.alive THEN Viewport ELSE ErrText))
  /\ poll' = PollIdle
  /\ UNCHANGED <<gen, deep, wm>> /\ PollOnly

(***************************************************************************)
(* Stream.  A capture fails when the pane is gone, and when the context of *)
(* the stream is cancelled.                                                *)
(***************************************************************************)
Fails == ~pane.alive \/ strm.cancelled

StreamOnly == UNCHANGED <<pane, flips, paints, clears, poll>>

StreamOpen ==
  /\ strm.pc = "idle" /\ pane.alive /\ streams < MaxStreams
  /\ strm' = [StrmIdle EXCEPT !.pc = "start", !.p = Snapshot]
  /\ streaming' = TRUE
  /\ streams' = streams + 1
  /\ UNCHANGED session /\ StreamOnly

StreamCancel ==
  /\ strm.pc # "idle" /\ ~strm.cancelled
  /\ strm' = [strm EXCEPT !.cancelled = TRUE]
  /\ UNCHANGED <<session, streaming, streams>> /\ StreamOnly

\* The goroutine takes the flag away before it begins.
StreamStart ==
  /\ strm.pc = "start"
  /\ streaming' = FALSE
  /\ LET s == SessionFor(strm.p, ~Fails) IN
       /\ hist' = s.hist /\ gen' = s.gen /\ wm' = s.wm /\ deep' = s.deep
       /\ strm' = [strm EXCEPT !.pc = "base", !.gen = s.gen]
  /\ UNCHANGED streams /\ StreamOnly

\* Mutant: the stream of lines begins at the watermark of the seed.
StreamBaseAtSeed ==
  /\ strm.pc = "base" /\ strm.p.kind = "lines"
  /\ IF Fails THEN Drop /\ strm' = StrmIdle
     ELSE /\ strm' = [strm EXCEPT !.pc = "tick", !.seen = wm, !.base = pane.hi]
          /\ UNCHANGED session
  /\ UNCHANGED <<streaming, streams>> /\ StreamOnly

StreamBase ==
  /\ strm.pc = "base" /\ strm.p.kind = "lines"
  /\ IF Fails THEN Drop /\ strm' = StrmIdle
     ELSE LET n == Len(Scrollback) IN
          /\ strm' = [strm EXCEPT !.pc = "tick", !.seen = n, !.base = pane.hi]
          /\ wm' = n
          /\ UNCHANGED <<hist, gen, deep>>
  /\ UNCHANGED <<streaming, streams>> /\ StreamOnly

TickLines ==
  /\ strm.pc = "tick" /\ strm.p.kind = "lines"
  /\ IF Fails THEN Drop /\ strm' = StrmIdle
     ELSE LET n == Len(Scrollback) IN
          IF n > strm.seen
          THEN /\ strm' = [strm EXCEPT !.pc = "emit", !.seen = n,
                             !.rest = SubSeq(Scrollback, strm.seen + 1, n)]
               /\ UNCHANGED session
          ELSE wm' = strm.seen /\ UNCHANGED <<hist, gen, deep, strm>>
  /\ UNCHANGED <<streaming, streams>> /\ StreamOnly

\* A row is stored, then sent; a stream that is cancelled may end in between.
\* An empty row is stored and not sent.
EmitLine ==
  /\ strm.pc = "emit"
  /\ LET row == Head(strm.rest)
         rest == Tail(strm.rest)
     IN /\ Feed(strm.gen, AppendLine(hist, row))
        /\ \/ /\ strm' = [strm EXCEPT !.rest = rest,
                            !.sent = IF row = Blank THEN @ ELSE Append(@, row),
                            !.pc = IF rest = << >> THEN "save" ELSE "emit"]
           \/ /\ strm.cancelled /\ row # Blank
              /\ strm' = StrmIdle
  /\ UNCHANGED <<gen, deep, wm, streaming, streams>> /\ StreamOnly

StreamSave ==
  /\ strm.pc = "save"
  /\ wm' = strm.seen
  /\ strm' = [strm EXCEPT !.pc = "tick"]
  /\ UNCHANGED <<hist, gen, deep, streaming, streams>> /\ StreamOnly

StreamBaseFrames ==
  /\ strm.pc = "base" /\ strm.p.kind = "frames"
  /\ strm' = [strm EXCEPT !.pc = "tick", !.base = pane.hi,
                !.prev = IF strm.cancelled THEN << >>
                         ELSE IF pane.alive THEN Viewport ELSE ErrText]
  /\ UNCHANGED <<session, streaming, streams>> /\ StreamOnly

\* A frame that differs is sent at once and stored when it has been on the
\* screen for the settle window, at this tick or a later one.
TickFrames ==
  /\ strm.pc = "tick" /\ strm.p.kind = "frames"
  /\ LET frame == IF pane.alive THEN Viewport ELSE ErrText IN
     \/ /\ strm.cancelled
        /\ Drop /\ strm' = StrmIdle
     \/ /\ ~strm.cancelled /\ frame # strm.prev
        /\ strm' = [strm EXCEPT !.pending = frame, !.prev = frame]
        /\ UNCHANGED session
     \/ /\ ~strm.cancelled /\ frame = strm.prev /\ strm.pending # << >>
        /\ Feed(strm.gen, AppendFrame(hist, strm.pending))
        /\ strm' = [strm EXCEPT !.pending = << >>]
        /\ UNCHANGED <<gen, deep, wm>>
  /\ UNCHANGED <<streaming, streams>> /\ StreamOnly

StreamStop ==
  /\ strm.pc = "tick" /\ strm.cancelled
  /\ strm' = StrmIdle
  /\ UNCHANGED <<session, streaming, streams>> /\ StreamOnly

Next ==
  \/ Output \/ Paint \/ Flip \/ Clear \/ End
  \/ PollScan \/ PollSegment \/ PollCapture \/ PollAppend \/ PollSave \/ PollFrame
  \/ StreamOpen \/ StreamCancel \/ StreamStart \/ StreamBase \/ TickLines
  \/ EmitLine \/ StreamSave \/ StreamBaseFrames \/ TickFrames \/ StreamStop

Spec == Init /\ [][Next]_vars

(***************************************************************************)
(* Properties.                                                             *)
(***************************************************************************)
\* A segment has rows or frames, by its kind, and no more than it keeps; two
\* segments in a row differ; a session is never without an open segment.
TypeOK ==
  /\ wm \in Nat /\ gen \in 0 .. MaxStreams + 1
  /\ \A i \in DOMAIN hist :
       LET seg == hist[i] IN
         /\ IF seg.kind = "lines"
            THEN seg.frames = << >> /\ Len(seg.rows) <= LineCap
            ELSE seg.rows = << >> /\ Len(seg.frames) <= FrameCap
         /\ \A j \in 1 .. Len(seg.frames) - 1 : seg.frames[j] # seg.frames[j + 1]
         /\ i > 1 => <<seg.prog, seg.kind>> # <<hist[i-1].prog, hist[i-1].kind>>
  /\ poll.pc \in {"idle", "segment", "capture", "append", "save", "frame"}
  /\ strm.pc \in {"idle", "start", "base", "tick", "emit", "save"}
  /\ pane.hi \in 0 .. MaxLines /\ streams \in 0 .. MaxStreams

IsLine(row) == row \in 1 .. MaxLines

\* Of two lines of the history the one stored first was printed first.
LinesInOrder(h) ==
  \A i, k \in DOMAIN h :
    \A j \in DOMAIN h[i].rows, l \in DOMAIN h[k].rows :
      (i < k \/ (i = k /\ j < l)) /\ IsLine(h[i].rows[j]) /\ IsLine(h[k].rows[l])
      => h[i].rows[j] < h[k].rows[l]

\* A poller alone stores every line at most once and in the order printed,
\* through changes of program, a cleared or a full scrollback and captures that
\* meet another screen than the scan did, if at first sight the whole
\* scrollback was on the screen (PollPane, feedLines, SessionFor).
StoredOnce ==
  streams = 0 /\ ~deep => LinesInOrder(hist)

\* A stream sends every line at most once, in order; unless a full-screen
\* program comes and goes, none that was there when it began; and as long as
\* the capture also reaches back to the first row, it skips none (streamLines).
SentOnce ==
  LET sent == strm.sent IN
  /\ \A i, j \in DOMAIN sent :
       i < j /\ IsLine(sent[i]) /\ IsLine(sent[j]) => sent[i] < sent[j]
  /\ flips = 0 => \A i \in DOMAIN sent : IsLine(sent[i]) => sent[i] > strm.base
  /\ flips = 0 /\ clears = 0 /\ pane.hi <= Cap /\ strm.base > 0
     => \A i \in DOMAIN sent : sent[i] = strm.base + i

\* Every row that a stored frame shows is found when the history is read back
\* as differences, also after the oldest frames have been given up: the row has
\* been on the screen since a frame whose difference has it, or says that it
\* leaves rows out (renderSegment, diff, DiffFrames).
ShownIsFound ==
  \A i \in DOMAIN hist :
    LET frames == hist[i].frames IN
    \A j \in DOMAIN frames : \A row \in ToSet(frames[j]) :
      \E k \in 1 .. j :
        LET told == ToSet(Diff(hist[i], k)) IN
        /\ \A l \in k .. j : row \in ToSet(frames[l])
        /\ {row, Omitted} \cap told # {}
        /\ told \subseteq ToSet(RenderSegment(hist[i]))

\* The query for the last n frames gives the last n of the whole session, and
\* the one for the first n the first n, wherever the segments end
\* (tailFrames, headFrames).
EndsOfHistory ==
  \A n \in 1 .. 3 :
    /\ AllFrames(TailFrames(hist, n)) = Newest(AllFrames(hist), n)
    /\ AllFrames(HeadFrames(hist, n)) = Oldest(AllFrames(hist), n)

Times(rows, row) == Cardinality({i \in DOMAIN rows : rows[i] = row})

\* A search of the history gives every match as often as the history has it,
\* although the rows around two matches may overlap, and puts rows next to each
\* other only if they are neighbours in the history; a limit takes away from
\* the oldest end only (grepLines, capJoin).  It is asked while nobody feeds.
SearchIsWhole ==
  poll.pc = "idle" /\ strm.pc = "idle" =>
    LET rows == Rendered(hist)
        pairs == {<<rows[j], rows[j + 1]>> : j \in 1 .. Len(rows) - 1}
    IN \A pat \in ToSet(rows), ctx \in {0, 1} :
         LET out == QueryGrep(hist, pat, ctx, 4 * Len(rows)) IN
         /\ Times(out, pat) = Times(rows, pat)
         /\ \A i \in 1 .. Len(out) - 1 :
              Gap \in {out[i], out[i + 1]} \/ <<out[i], out[i + 1]>> \in pairs
         /\ Last(QueryGrep(hist, pat, ctx, 2)) = Last(out)
=============================================================================
