--------------------------- MODULE PaneFeedProofs ---------------------------
(***************************************************************************)
(* Proofs that the history of a terminal stores and sends every line once  *)
(* and in order, that its head and tail are its ends, and that what was    *)
(* shown is found and printed, for any caps, frames, and number of lines,  *)
(* streams and changes of the program.                                     *)
(***************************************************************************)
EXTENDS PaneFeed, SequenceLemmas, FiniteSetTheorems

\* The programs of a pane; what the segments, the pane and the two feeders are
\* made of.
Progs == {"sh", "vi"}

SegType == [prog : Progs, kind : {"lines", "frames"}, rows : Seq(Nat),
            frames : Seq(Seq(Nat))]

\* A segment as TypeOK has it.
Shaped(seg) ==
  /\ IF seg.kind = "lines"
     THEN seg.frames = << >> /\ Len(seg.rows) <= LineCap
     ELSE seg.rows = << >> /\ Len(seg.frames) <= FrameCap
  /\ \A j \in 1 .. Len(seg.frames) - 1 : seg.frames[j] # seg.frames[j + 1]

\* TypeOK of a history, with the types of its segments.
HistoryOK(h) ==
  /\ h \in Seq(SegType)
  /\ \A i \in 1 .. Len(h) : Shaped(h[i])
  /\ \A i \in 1 .. Len(h) :
       i > 1 => <<h[i].prog, h[i].kind>> # <<h[i-1].prog, h[i-1].kind>>

PaneType ==
  /\ pane \in [alive : BOOLEAN, prog : Progs, lo : Nat, hi : Nat, frame : Frames]
  /\ pane.lo >= 1 /\ pane.lo <= pane.hi + 1 /\ pane.hi <= MaxLines

PollPcs == {"idle", "segment", "capture", "append", "save", "frame"}
StrmPcs == {"idle", "start", "base", "tick", "emit", "save"}

PollType ==
  poll \in [pc : PollPcs, p : {Sh, Vi}, gen : Nat, rows : Seq(Nat), seen : Nat]

StrmType ==
  /\ strm \in [pc : StrmPcs, p : {Sh, Vi}, cancelled : BOOLEAN, gen : Nat,
               seen : Nat, rest : Seq(Nat), prev : Seq(Nat), pending : Seq(Nat),
               base : Nat, sent : Seq(Nat)]
  /\ strm.pc = "emit" <=> strm.rest # << >>
  /\ strm.pc \in {"idle", "start", "base"} => strm.sent = << >>
  /\ strm.pc \in {"emit", "save"} => strm.p = Sh
  /\ strm.p = Vi => strm.sent = << >>

\* A session is opened by a stream or, if there is none, by the poller: the
\* generations are counted by the streams.
One(b) == IF b THEN 1 ELSE 0

CountType ==
  /\ flips \in Nat /\ paints \in Nat /\ clears \in Nat
  /\ streams \in Nat /\ streams <= MaxStreams
  /\ gen \in Nat /\ wm \in Nat /\ deep \in BOOLEAN /\ streaming \in BOOLEAN
  /\ gen + One(hist = << >>) + One(strm.pc # "idle") <= streams + 1

\* The inductive invariant of the types.
TInv == HistoryOK(hist) /\ PaneType /\ PollType /\ StrmType /\ CountType

\* No row of a capture beyond the first w is the line L or an older one.
Below(p, L, w) ==
  \/ L <= p.lo - 1 + w
  \/ w >= Cap - VP /\ L <= p.hi - VP
  \/ w >= Cap

\* A row is in the history; the lines among some rows are in order.
Has(h, row) == \E i \in DOMAIN h : \E j \in DOMAIN h[i].rows : h[i].rows[j] = row

Ascending(rows) ==
  \A i, j \in DOMAIN rows :
    i < j /\ IsLine(rows[i]) /\ IsLine(rows[j]) => rows[i] < rows[j]

\* The watermark, also when it has been computed and not been saved yet.
Covered == IF poll.pc = "save" THEN poll.seen ELSE wm

\* The lines of a history are in order, and no row of a capture beyond the first
\* w is one of them or an older one.
StoredUpto(p, h, w) ==
  /\ LinesInOrder(h)
  /\ \A L \in Nat : IsLine(L) /\ Has(h, L) => Below(p, L, w)

\* The same of a capture that has not been fed yet, to a history fed up to w.
Captured(p, h, w, rows) ==
  /\ Ascending(rows)
  /\ \A i \in DOMAIN rows :
       IsLine(rows[i]) =>
         /\ Below(p, rows[i], Len(rows))
         /\ w # 0 /\ i > w => \A L \in Nat : IsLine(L) /\ Has(h, L) => L < rows[i]

\* A poller alone has stored every line up to the watermark, and what it is about
\* to append is newer.
StoreInv ==
  /\ streams = 0 => strm.pc = "idle"
  /\ streams = 0 /\ ~deep =>
       /\ StoredUpto(pane, hist, Covered)
       /\ poll.pc = "append" => Captured(pane, hist, wm, poll.rows)

\* Every line of s is older than every line of t.
Older(s, t) ==
  \A i \in DOMAIN s, j \in DOMAIN t : IsLine(s[i]) /\ IsLine(t[j]) => s[i] < t[j]

\* No row of a capture beyond the first w is a line of rows or an older one.
RowsUpto(p, rows, w) == \A i \in DOMAIN rows : IsLine(rows[i]) => Below(p, rows[i], w)

After(base, rows) == \A i \in DOMAIN rows : IsLine(rows[i]) => rows[i] > base

\* The rows are the lines that follow base.
Follow(base, rows) == \A i \in DOMAIN rows : rows[i] = base + i

\* The stream has missed nothing so far.
Exact == flips = 0 /\ clears = 0 /\ pane.hi <= Cap /\ strm.base > 0

\* What a stream of lines has sent, and what it has captured and not sent yet.
Sending ==
  /\ RowsUpto(pane, strm.sent, strm.seen) /\ RowsUpto(pane, strm.rest, strm.seen)
  /\ flips = 0 =>
       /\ Below(pane, strm.base, strm.seen)
       /\ After(strm.base, strm.sent) /\ After(strm.base, strm.rest)
  /\ Exact =>
       /\ strm.seen = strm.base + Len(strm.sent) + Len(strm.rest)
       /\ Follow(strm.base, strm.sent)
       /\ Follow(strm.base + Len(strm.sent), strm.rest)

Screened ==
  /\ flips = 0 /\ strm.pc # "idle" => strm.p.prog = pane.prog
  /\ clears = 0 => pane.lo = 1
  /\ strm.base <= pane.hi

Started == strm.pc \in {"tick", "emit", "save"}

\* What has been sent, then what is about to be sent, is in order and is newer than
\* what was there when the stream began.
SendInv ==
  /\ Ascending(strm.sent) /\ Ascending(strm.rest) /\ Older(strm.sent, strm.rest)
  /\ Started /\ strm.p = Sh => Sending
  /\ Screened

\* The last n elements.
LEMMA NewestIs ==
  ASSUME NEW T, NEW s \in Seq(T), NEW n \in Nat
  PROVE  /\ Newest(s, n) \in Seq(T)
         /\ Len(Newest(s, n)) = IF Len(s) > n THEN n ELSE Len(s)
         /\ \A i \in 1 .. Len(Newest(s, n)) :
              Newest(s, n)[i] = s[Len(s) - Len(Newest(s, n)) + i]
<1> DEFINE m == IF Len(s) > n THEN Len(s) - n + 1 ELSE 1
<1>1. Len(s) \in Nat /\ m \in Nat /\ m >= 1 /\ m <= Len(s) + 1
      /\ Len(s) - m + 1 = (IF Len(s) > n THEN n ELSE Len(s)) /\ m \in Int
  OBVIOUS
<1>2. Newest(s, n) = SubSeq(s, m, Len(s))
  BY DEF Newest
<1> HIDE DEF m
<1>3. \A i \in m .. Len(s) : s[i] \in T
  BY <1>1
<1>4. /\ Newest(s, n) \in Seq(T)
      /\ Len(Newest(s, n)) = IF m <= Len(s) THEN Len(s) - m + 1 ELSE 0
      /\ \A i \in 1 .. Len(s) - m + 1 : Newest(s, n)[i] = s[m + i - 1]
  BY <1>1, <1>2, <1>3, SubSeqProperties
<1>5. Len(Newest(s, n)) = Len(s) - m + 1
  BY <1>1, <1>4
<1>6. \A i \in 1 .. Len(s) - m + 1 : m + i - 1 = Len(s) - (Len(s) - m + 1) + i
  BY <1>1
<1> QED BY <1>1, <1>4, <1>5, <1>6

\* The first n elements.
LEMMA OldestIs ==
  ASSUME NEW T, NEW s \in Seq(T), NEW n \in Nat
  PROVE  /\ Oldest(s, n) \in Seq(T)
         /\ Len(Oldest(s, n)) = IF Len(s) > n THEN n ELSE Len(s)
         /\ \A i \in 1 .. Len(Oldest(s, n)) : Oldest(s, n)[i] = s[i]
<1> DEFINE m == IF Len(s) > n THEN n ELSE Len(s)
<1>1. Len(s) \in Nat /\ m \in Nat /\ m <= Len(s) /\ m \in Int
  OBVIOUS
<1>2. Oldest(s, n) = SubSeq(s, 1, m)
  BY DEF Oldest
<1>3. \A i \in 1 .. m : s[i] \in T
  BY <1>1
<1>4. Len(Oldest(s, n)) = m
  <2> HIDE DEF m
  <2> QED BY <1>1, <1>2, <1>3, SubSeqProperties
<1>5. Oldest(s, n) \in Seq(T) /\ \A i \in 1 .. m : Oldest(s, n)[i] = s[1 + i - 1]
  <2> HIDE DEF m
  <2> QED BY <1>1, <1>2, <1>3, SubSeqProperties
<1> HIDE DEF m
<1>6. \A i \in 1 .. m : 1 + i - 1 = i
  BY <1>1
<1> QED BY <1>4, <1>5, <1>6 DEF m

\* The lines from lo to hi.
LEMMA RowsIs ==
  ASSUME NEW lo \in Nat, NEW hi \in Nat, lo >= 1
  PROVE  /\ Rows(lo, hi) \in Seq(Nat)
         /\ Len(Rows(lo, hi)) = IF hi + 1 >= lo THEN hi + 1 - lo ELSE 0
         /\ \A i \in 1 .. Len(Rows(lo, hi)) : Rows(lo, hi)[i] = lo - 1 + i
<1> DEFINE n == IF hi + 1 >= lo THEN hi + 1 - lo ELSE 0
<1>1. n \in Nat /\ 1 .. n = 1 .. (hi + 1 - lo)
  OBVIOUS
<1>2. Rows(lo, hi) = [i \in 1 .. n |-> lo + i - 1]
  BY <1>1 DEF Rows
<1> HIDE DEF n
<1>3. \A i \in 1 .. n : lo + i - 1 \in Nat /\ lo + i - 1 = lo - 1 + i
  BY <1>1
<1>4. [i \in 1 .. n |-> lo + i - 1] \in Seq(Nat)
  BY <1>1, <1>3
<1>5. Len([i \in 1 .. n |-> lo + i - 1]) = n
  BY <1>1
<1> QED BY <1>2, <1>3, <1>4, <1>5 DEF n

(***************************************************************************)
(* What a capture shows.                                                   *)
(***************************************************************************)
\* The line before the one in the first row of a capture.
Above == IF pane.hi + 1 - pane.lo > Cap THEN pane.hi - Cap ELSE pane.lo - 1

\* A frame has no lines of output in it.
LEMMA FrameRows ==
  ASSUME PaneType
  PROVE  /\ pane.frame \in Seq(Nat) /\ Len(pane.frame) \in 1 .. VP
         /\ \A i \in 1 .. Len(pane.frame) : ~IsLine(pane.frame[i])
<1>1. pane.frame \in Frames
  BY DEF PaneType
<1>2. /\ pane.frame \in Seq(Nat) /\ Len(pane.frame) \in 1 .. VP
      /\ \A i \in 1 .. Len(pane.frame) : pane.frame[i] > MaxLines
  BY <1>1, FramesAssumption
<1> QED BY <1>2, BoundsAssumption DEF IsLine

\* Neither has the blank row.
LEMMA BlankRow ==
  <<Blank>> \in Seq(Nat) /\ Len(<<Blank>>) = 1 /\ ~IsLine(<<Blank>>[1])
BY BoundsAssumption DEF Blank, IsLine

\* A capture of the shell's screen.
ShellScreen(n) == OrBlank(Newest(Rows(pane.lo, pane.hi), n))

ShowsShell(s, n) ==
  /\ s \in Seq(Nat) /\ Len(s) \in 1 .. n
  /\ pane.hi < pane.lo => s = <<Blank>>
  /\ pane.hi >= pane.lo =>
       /\ Len(s) = IF pane.hi + 1 - pane.lo > n THEN n ELSE pane.hi + 1 - pane.lo
       /\ \A i \in 1 .. Len(s) : s[i] = pane.hi - Len(s) + i

\* What a shell shows: the newest n lines.
LEMMA ShellRows ==
  ASSUME PaneType, NEW n \in Nat, n >= 1
  PROVE  ShowsShell(ShellScreen(n), n)
<1> DEFINE s == ShellScreen(n)
<1> SUFFICES ShowsShell(s, n) OBVIOUS
<1> DEFINE all == Rows(pane.lo, pane.hi)
           new == Newest(all, n)
<1>1. pane.lo \in Nat /\ pane.hi \in Nat /\ pane.lo >= 1 /\ pane.lo <= pane.hi + 1
  BY DEF PaneType
<1>2. /\ all \in Seq(Nat) /\ Len(all) = pane.hi + 1 - pane.lo
      /\ \A i \in 1 .. Len(all) : all[i] = pane.lo - 1 + i
  BY <1>1, RowsIs
<1> HIDE DEF s, all
<1>3. /\ new \in Seq(Nat)
      /\ Len(new) = IF Len(all) > n THEN n ELSE Len(all)
      /\ \A i \in 1 .. Len(new) : new[i] = all[Len(all) - Len(new) + i]
  BY <1>2, NewestIs
<1> HIDE DEF new
<1>4. s = IF new = << >> THEN <<Blank>> ELSE new
  BY DEF OrBlank, new, all, s, ShellScreen
<1>5. CASE pane.hi < pane.lo
  <2>1. Len(new) = 0
    BY <1>1, <1>2, <1>3, <1>5
  <2>2. new = << >>
    BY <1>3, <2>1
  <2> QED BY <1>1, <1>4, <1>5, <2>2, BlankRow DEF ShowsShell
<1>6. CASE pane.hi >= pane.lo
  <2>1. Len(new) \in 1 .. n /\ Len(new) <= Len(all)
    BY <1>1, <1>2, <1>3, <1>6
  <2>2. new # << >>
    BY <2>1
  <2>3. s = new
    BY <1>4, <2>2
  <2>4. \A i \in 1 .. Len(new) : new[i] = pane.hi - Len(new) + i
    <3> SUFFICES ASSUME NEW i \in 1 .. Len(new)
                 PROVE  new[i] = pane.hi - Len(new) + i
      OBVIOUS
    <3>1. Len(all) - Len(new) + i \in 1 .. Len(all)
      BY <1>2, <1>3, <2>1
    <3>2. new[i] = pane.lo - 1 + (Len(all) - Len(new) + i)
      BY <1>2, <1>3, <3>1
    <3>3. Len(all) = pane.hi + 1 - pane.lo /\ Len(new) \in Nat
      BY <1>2, <2>1
    <3> DEFINE lo == pane.lo
               hi == pane.hi
               a == Len(all)
               b == Len(new)
               x == new[i]
    <3>4. /\ lo \in Nat /\ hi \in Nat /\ b \in Nat /\ i \in Nat
          /\ x = lo - 1 + (a - b + i) /\ a = hi + 1 - lo
      BY <1>1, <3>2, <3>3
    <3> HIDE DEF lo, hi, a, b, x
    <3>5. x = hi - b + i
      BY <3>4
    <3> QED BY <3>5 DEF x, hi, b
  <2>5. Len(new) = IF pane.hi + 1 - pane.lo > n THEN n ELSE pane.hi + 1 - pane.lo
    BY <1>2, <1>3
  <2>6. ~ (pane.hi < pane.lo)
    BY <1>1, <1>6
  <2>7. new \in Seq(Nat) /\ Len(new) \in 1 .. n
    BY <1>3, <2>1
  <2> QED BY <2>3, <2>4, <2>5, <2>6, <2>7 DEF ShowsShell
<1> QED BY <1>1, <1>5, <1>6

\* A capture with a full-screen program: old rows, and its screen.
OldRows ==
  Newest(Rows(pane.lo, IF pane.hi > VP THEN pane.hi - VP ELSE 0), Cap - VP)

ProgramScreen == OldRows \o pane.frame

\* What a program shows: the rows that had scrolled out, and its frame.
LEMMA ProgramRows ==
  ASSUME PaneType, NEW old, NEW s, old = OldRows, s = ProgramScreen
  PROVE  /\ s \in Seq(Nat) /\ Len(s) \in 1 .. Cap /\ old \in Seq(Nat)
         /\ Len(old) <= Cap - VP /\ Len(s) = Len(old) + Len(pane.frame)
         /\ pane.hi + 1 - pane.lo > Cap => Len(old) = Cap - VP
         /\ \A i \in 1 .. Len(s) :
              IsLine(s[i]) => i <= Len(old) /\ s[i] = Above + i /\ s[i] <= pane.hi - VP
<1> DEFINE last == IF pane.hi > VP THEN pane.hi - VP ELSE 0
           all == Rows(pane.lo, last)
           la == Len(all)
           lo == Len(old)
           m == Cap - VP
<1>1. pane.lo \in Nat /\ pane.hi \in Nat /\ pane.lo >= 1 /\ pane.lo <= pane.hi + 1
  BY DEF PaneType
<1>2. VP \in Nat /\ VP >= 1 /\ Cap \in Nat /\ VP <= Cap /\ m \in Nat /\ m = Cap - VP
  BY ScreenAssumption
<1>3. last \in Nat /\ (last > 0 => last = pane.hi - VP) /\ (last = 0 => pane.hi <= VP)
  BY <1>1, <1>2
<1>5. old = Newest(all, m)
  BY Zenon DEF OldRows
<1> HIDE DEF last, m
<1>4. /\ all \in Seq(Nat)
      /\ la = IF last + 1 >= pane.lo THEN last + 1 - pane.lo ELSE 0
      /\ \A i \in 1 .. la : all[i] = pane.lo - 1 + i
  BY <1>1, <1>3, RowsIs
<1> HIDE DEF all
<1>6. /\ old \in Seq(Nat)
      /\ lo = IF la > m THEN m ELSE la
      /\ \A i \in 1 .. lo : old[i] = all[la - lo + i]
  <2>1. all \in Seq(Nat) /\ m \in Nat
    BY <1>2, <1>4
  <2>2. /\ Newest(all, m) \in Seq(Nat)
        /\ Len(Newest(all, m)) = IF Len(all) > m THEN m ELSE Len(all)
        /\ \A i \in 1 .. Len(Newest(all, m)) :
              Newest(all, m)[i] = all[Len(all) - Len(Newest(all, m)) + i]
    BY <2>1, NewestIs
  <2> QED BY <1>5, <2>2, Zenon
<1>7. pane.frame \in Seq(Nat) /\ Len(pane.frame) \in 1 .. VP
      /\ \A i \in 1 .. Len(pane.frame) : ~IsLine(pane.frame[i])
  BY FrameRows
<1>8. /\ s \in Seq(Nat) /\ Len(s) = lo + Len(pane.frame)
      /\ \A i \in 1 .. Len(s) :
           s[i] = IF i <= lo THEN old[i] ELSE pane.frame[i - lo]
  <2>1. pane.frame \in Seq(Nat) /\ old \in Seq(Nat)
    BY <1>6, <1>7
  <2>2. s = old \o pane.frame
    BY DEF ProgramScreen
  <2> QED BY <2>1, <2>2, ConcatProperties
<1>9. la \in Nat /\ lo \in Nat
  BY <1>4, <1>6
<1> HIDE DEF la, lo
<1>10. lo <= m /\ Len(s) \in 1 .. Cap
  <2>1. lo <= m
    BY <1>2, <1>6, <1>9
  <2>2. Len(pane.frame) \in 1 .. VP
    BY <1>7
  <2> QED BY <1>2, <1>8, <1>9, <2>1, <2>2
<1>11. pane.hi + 1 - pane.lo > Cap => lo = m
  <2>1. la = IF last + 1 >= pane.lo THEN last + 1 - pane.lo ELSE 0
    BY <1>4
  <2>2. lo = IF la > m THEN m ELSE la
    BY <1>6
  <2> QED BY <1>1, <1>2, <1>3, <1>9, <2>1, <2>2
<1>12. ASSUME NEW i, i \in 1 .. Len(s), IsLine(s[i])
       PROVE  i <= lo /\ s[i] = Above + i /\ s[i] <= pane.hi - VP
  <2>0. i \in Nat /\ i >= 1 /\ i <= Len(s)
    BY <1>10, <1>12
  <2>1. i <= lo
    <3> SUFFICES ASSUME i > lo PROVE FALSE
      BY <1>9, <2>0
    <3>1. i - lo \in 1 .. Len(pane.frame)
      <4>1. Len(pane.frame) \in Nat /\ Len(s) = lo + Len(pane.frame)
        BY <1>7, <1>8
      <4> QED BY <1>9, <2>0, <4>1
    <3>2. s[i] = pane.frame[i - lo]
      BY <1>8, <1>9, <2>0
    <3> QED BY <1>7, <1>12, <3>1, <3>2, Zenon
  <2>2. la - lo + i \in 1 .. la /\ i \in 1 .. lo
    BY <1>2, <1>6, <1>9, <2>0, <2>1
  <2>3. s[i] = old[i]
    BY <1>8, <1>12, <2>1
  <2>4. s[i] = pane.lo - 1 + (la - lo + i)
    BY <1>4, <1>6, <2>2, <2>3
  <2>5. last > 0 /\ la = last + 1 - pane.lo
    BY <1>1, <1>3, <1>4, <1>9, <2>2
  <2>6. lo = (IF la > m THEN m ELSE la) /\ last = pane.hi - VP
    BY <1>3, <1>6, <2>5
  <2>9. last \in Nat /\ la \in Nat /\ lo \in Nat /\ i \in Nat /\ pane.lo \in Nat
    BY <1>1, <1>3, <1>9, <2>0
  <2>10. s[i] = last - lo + i
    BY <2>4, <2>5, <2>9
  <2>7. s[i] <= pane.hi - VP
    BY <2>9, <2>10, <2>1, <2>6, <1>1, <1>2
  <2>8. s[i] = Above + i
    BY <2>9, <2>10, <2>5, <2>6, <1>1, <1>2 DEF Above
  <2> QED BY <2>1, <2>7, <2>8
<1> QED BY <1>2, <1>6, <1>8, <1>10, <1>11, <1>12, Zenon DEF lo

\* The deepest capture: a line i rows down is the i-th after Above.
LEMMA ScrollbackIs ==
  ASSUME PaneType
  PROVE  /\ Scrollback \in Seq(Nat) /\ Len(Scrollback) \in 1 .. Cap
         /\ \A i \in 1 .. Len(Scrollback) :
              IsLine(Scrollback[i]) =>
                /\ Scrollback[i] = Above + i
                /\ \/ pane.prog = "vi" /\ i <= Cap - VP /\ Scrollback[i] <= pane.hi - VP
                   \/ pane.prog # "vi"
         /\ pane.hi + 1 - pane.lo > Cap => Len(Scrollback) >= Cap - VP
         /\ pane.prog # "vi" /\ pane.hi + 1 - pane.lo > Cap => Len(Scrollback) = Cap
         /\ pane.prog # "vi" /\ pane.hi >= pane.lo =>
              /\ Len(Scrollback) = pane.hi - Above
              /\ \A i \in 1 .. Len(Scrollback) : Scrollback[i] = Above + i
         /\ pane.prog # "vi" /\ pane.hi < pane.lo => Scrollback = <<Blank>>
<1>1. pane.lo \in Nat /\ pane.hi \in Nat /\ pane.lo >= 1 /\ pane.lo <= pane.hi + 1
  BY DEF PaneType
<1>2. VP \in Nat /\ VP >= 1 /\ Cap \in Nat /\ VP <= Cap /\ Cap >= 1
  BY ScreenAssumption
<1>3. CASE pane.prog = "vi"
  <2>1. Scrollback = ProgramScreen
    BY <1>3 DEF Scrollback, ProgramScreen, OldRows
  <2>2. /\ Scrollback \in Seq(Nat) /\ Len(Scrollback) \in 1 .. Cap
        /\ Len(OldRows) <= Cap - VP /\ Len(OldRows) \in Nat
        /\ Len(Scrollback) = Len(OldRows) + Len(pane.frame)
        /\ pane.hi + 1 - pane.lo > Cap => Len(OldRows) = Cap - VP
        /\ \A i \in 1 .. Len(Scrollback) :
             IsLine(Scrollback[i]) => /\ i <= Len(OldRows) /\ Scrollback[i] = Above + i
                                      /\ Scrollback[i] <= pane.hi - VP
    <3>1. OldRows \in Seq(Nat)
      BY ProgramRows
    <3>2. Len(OldRows) \in Nat
      BY <3>1
    <3> QED BY <2>1, <3>2, ProgramRows, Zenon
  <2>3. Len(pane.frame) \in Nat
    BY FrameRows
  <2>4. ASSUME NEW i, i \in 1 .. Len(Scrollback), IsLine(Scrollback[i])
        PROVE  /\ Scrollback[i] = Above + i
               /\ i <= Cap - VP /\ Scrollback[i] <= pane.hi - VP
    <3>1. /\ i <= Len(OldRows) /\ Scrollback[i] = Above + i
          /\ Scrollback[i] <= pane.hi - VP
      BY <2>2, <2>4
    <3>2. i \in Nat
      BY <2>2, <2>4
    <3> QED BY <1>2, <2>2, <3>1, <3>2
  <2>5. pane.hi + 1 - pane.lo > Cap => Len(Scrollback) >= Cap - VP
    BY <1>2, <2>2, <2>3
  <2> QED BY <1>3, <2>2, <2>4, <2>5, Zenon
<1>4. CASE pane.prog # "vi"
  <2>1. Scrollback = ShellScreen(Cap)
    BY <1>4 DEF Scrollback, ShellScreen
  <2>2. /\ Scrollback \in Seq(Nat) /\ Len(Scrollback) \in 1 .. Cap
        /\ pane.hi < pane.lo => Scrollback = <<Blank>>
        /\ pane.hi >= pane.lo =>
             /\ Len(Scrollback) = IF pane.hi + 1 - pane.lo > Cap THEN Cap
                                  ELSE pane.hi + 1 - pane.lo
             /\ \A i \in 1 .. Len(Scrollback) : Scrollback[i] = pane.hi - Len(Scrollback) + i
    BY <1>2, <2>1, ShellRows, Zenon DEF ShowsShell
  <2>3. pane.hi >= pane.lo =>
             Len(Scrollback) = IF pane.hi + 1 - pane.lo > Cap THEN Cap
                                  ELSE pane.hi + 1 - pane.lo
    BY <2>2
  <2>4. CASE pane.hi < pane.lo
    <3>1. Scrollback = <<Blank>>
      BY <2>2, <2>4
    <3>2. \A i \in 1 .. Len(Scrollback) : ~IsLine(Scrollback[i])
      BY <3>1, BlankRow
    <3>3. ~(pane.hi + 1 - pane.lo > Cap) /\ ~(pane.hi >= pane.lo)
      BY <1>1, <1>2, <2>4
    <3> QED BY <2>2, <3>1, <3>2, <3>3, <1>4, Zenon
  <2>5. CASE pane.hi >= pane.lo
    <3>1. Len(Scrollback) = pane.hi - Above
      BY <1>1, <1>2, <2>3, <2>5 DEF Above
    <3>2. Above \in Int /\ pane.hi - (pane.hi - Above) = Above
      BY <1>1, <1>2 DEF Above
    <3>3. \A i \in 1 .. Len(Scrollback) : Scrollback[i] = Above + i
      BY <2>2, <2>5, <3>1, <3>2
    <3>4. pane.hi + 1 - pane.lo > Cap => Len(Scrollback) >= Cap - VP
      BY <1>1, <1>2, <2>3, <2>5
    <3>5. pane.hi + 1 - pane.lo > Cap => Len(Scrollback) = Cap
      BY <1>1, <1>2, <2>3, <2>5
    <3>6. ~(pane.hi < pane.lo)
      BY <1>1, <2>5
    <3> QED BY <1>4, <2>2, <3>1, <3>3, <3>4, <3>5, <3>6, Zenon
  <2> QED BY <1>1, <2>4, <2>5
<1> QED BY <1>3, <1>4

\* The viewport.
LEMMA ViewportIs ==
  ASSUME PaneType
  PROVE  /\ Viewport \in Seq(Nat) /\ Len(Viewport) \in 1 .. VP
         /\ \A i \in 1 .. Len(Viewport) :
              IsLine(Viewport[i]) => Viewport[i] = pane.hi - Len(Viewport) + i
         /\ \A i \in 1 .. Len(Viewport) :
              IsLine(Viewport[i]) /\ ~(pane.hi >= pane.lo + VP)
              => Viewport[i] = pane.lo - 1 + i
<1>1. pane.lo \in Nat /\ pane.hi \in Nat /\ pane.lo >= 1 /\ pane.lo <= pane.hi + 1
  BY DEF PaneType
<1>2. VP \in Nat /\ VP >= 1
  BY ScreenAssumption
<1>3. CASE pane.prog = "vi"
  <2>1. Viewport = pane.frame
    BY <1>3 DEF Viewport
  <2> QED BY <2>1, FrameRows, Zenon
<1>4. CASE pane.prog # "vi"
  <2>1. Viewport = ShellScreen(VP)
    BY <1>4 DEF Viewport, ShellScreen
  <2>2. /\ Viewport \in Seq(Nat) /\ Len(Viewport) \in 1 .. VP
        /\ pane.hi < pane.lo => Viewport = <<Blank>>
        /\ pane.hi >= pane.lo =>
             /\ Len(Viewport) = IF pane.hi + 1 - pane.lo > VP THEN VP
                                ELSE pane.hi + 1 - pane.lo
             /\ \A i \in 1 .. Len(Viewport) : Viewport[i] = pane.hi - Len(Viewport) + i
    BY <1>2, <2>1, ShellRows, Zenon DEF ShowsShell
  <2>3. CASE pane.hi < pane.lo
    <3>0. Viewport = <<Blank>>
      BY <2>2, <2>3
    <3>1. \A i \in 1 .. Len(Viewport) : ~IsLine(Viewport[i])
      BY <3>0, BlankRow
    <3> QED BY <2>2, <3>1, Zenon
  <2>4. CASE pane.hi >= pane.lo
    <3>1. ~(pane.hi >= pane.lo + VP) => pane.hi - Len(Viewport) = pane.lo - 1
      <4>1. Len(Viewport) = IF pane.hi + 1 - pane.lo > VP THEN VP
                                ELSE pane.hi + 1 - pane.lo
        BY <2>2, <2>4
      <4> QED BY <1>1, <1>2, <4>1
    <3> QED BY <2>2, <2>4, <3>1, Zenon
  <2> QED BY <1>1, <2>3, <2>4
<1> QED BY <1>3, <1>4

(***************************************************************************)
(* Rows beyond those that have been counted hold newer lines only.         *)
(***************************************************************************)
LEMMA NewerOnly ==
  ASSUME PaneType, NEW L \in Nat, NEW w \in Nat, Below(pane, L, w),
         NEW i, i \in 1 .. Len(Scrollback), i > w, IsLine(Scrollback[i])
  PROVE  L < Scrollback[i]
<1>1. pane.lo \in Nat /\ pane.hi \in Nat /\ pane.lo >= 1 /\ pane.lo <= pane.hi + 1
  BY DEF PaneType
<1>2. VP \in Nat /\ VP >= 1 /\ Cap \in Nat /\ VP <= Cap
  BY ScreenAssumption
<1>3. Scrollback[i] = Above + i /\ (pane.prog = "vi" => i <= Cap - VP)
      /\ i \in Nat /\ i <= Cap
  <2>1. Len(Scrollback) \in 1 .. Cap
    BY ScrollbackIs
  <2>2. i \in Nat /\ i <= Cap
    BY <1>2, <2>1
  <2> QED BY <2>2, ScrollbackIs, Zenon
<1>4. CASE L <= pane.lo - 1 + w
  BY <1>1, <1>2, <1>3, <1>4 DEF Above
<1>5. CASE w >= Cap - VP /\ L <= pane.hi - VP
  BY <1>1, <1>2, <1>3, <1>5 DEF Above
<1>6. ~(w >= Cap)
  BY <1>2, <1>3
<1> QED BY <1>4, <1>5, <1>6 DEF Below

\* Every line of a capture is within its length.
LEMMA AllCounted ==
  ASSUME PaneType, NEW i, i \in 1 .. Len(Scrollback), IsLine(Scrollback[i])
  PROVE  Below(pane, Scrollback[i], Len(Scrollback))
<1>1. pane.lo \in Nat /\ pane.hi \in Nat /\ pane.lo >= 1 /\ pane.lo <= pane.hi + 1
  BY DEF PaneType
<1>2. VP \in Nat /\ VP >= 1 /\ Cap \in Nat /\ VP <= Cap
  BY ScreenAssumption
<1> DEFINE n == Len(Scrollback)
<1>3. n \in Nat /\ i \in Nat /\ i <= n
  <2>1. n \in 1 .. Cap
    BY ScrollbackIs
  <2> QED BY <1>2, <2>1
<1>4. Scrollback[i] = Above + i /\ (pane.prog = "vi" => Scrollback[i] <= pane.hi - VP)
  BY ScrollbackIs, Zenon
<1>5. /\ pane.hi + 1 - pane.lo > Cap => n >= Cap - VP
      /\ pane.prog # "vi" /\ pane.hi + 1 - pane.lo > Cap => n = Cap
  BY ScrollbackIs, Zenon
<1> HIDE DEF n
<1>6. CASE pane.hi + 1 - pane.lo > Cap
  BY <1>1, <1>2, <1>3, <1>4, <1>5, <1>6 DEF Below, n
<1>7. CASE ~(pane.hi + 1 - pane.lo > Cap)
  <2>1. Scrollback[i] <= pane.lo - 1 + n
    BY <1>1, <1>2, <1>3, <1>4, <1>7 DEF Above
  <2> QED BY <2>1 DEF Below, n
<1> QED BY <1>6, <1>7

\* A capture shows its lines in order.
LEMMA ScrollbackAscends ==
  ASSUME PaneType
  PROVE  Ascending(Scrollback)
<1>1. Scrollback \in Seq(Nat)
  BY ScrollbackIs
<1>2. DOMAIN Scrollback = 1 .. Len(Scrollback) /\ Len(Scrollback) \in Nat
  BY <1>1
<1> SUFFICES ASSUME NEW i, i \in 1 .. Len(Scrollback), NEW j, j \in 1 .. Len(Scrollback),
                    i < j, IsLine(Scrollback[i]), IsLine(Scrollback[j])
             PROVE  Scrollback[i] < Scrollback[j]
  BY <1>2 DEF Ascending
<1>3. Scrollback[i] = Above + i /\ Scrollback[j] = Above + j
  BY ScrollbackIs, Zenon
<1>4. Above \in Int
  BY ScreenAssumption DEF Above, PaneType
<1>5. i \in Nat /\ j \in Nat
  BY <1>2
<1> QED BY <1>3, <1>4, <1>5

(***************************************************************************)
(* What feeding a session does to its history.                             *)
(***************************************************************************)
LEMMA AscendingConcat ==
  ASSUME NEW s \in Seq(Nat), NEW t \in Seq(Nat), Ascending(s), Ascending(t), Older(s, t)
  PROVE  Ascending(s \o t)
<1> DEFINE u == s \o t
           m == Len(s)
           n == Len(t)
<1>1. /\ m \in Nat /\ n \in Nat /\ DOMAIN s = 1 .. m /\ DOMAIN t = 1 .. n
      /\ DOMAIN u = 1 .. m + n
      /\ \A i \in 1 .. m + n : u[i] = IF i <= m THEN s[i] ELSE t[i - m]
  BY ConcatProperties
<1> HIDE DEF m, n, u
<1> SUFFICES ASSUME NEW i, i \in 1 .. m + n, NEW j, j \in 1 .. m + n, i < j,
                    IsLine(u[i]), IsLine(u[j])
             PROVE  u[i] < u[j]
  BY <1>1 DEF Ascending, u
<1>2. i \in Nat /\ j \in Nat /\ i >= 1 /\ j >= 1 /\ i <= m + n /\ j <= m + n
  BY <1>1
<1>3. CASE j <= m
  <2>1. i \in 1 .. m /\ j \in 1 .. m /\ i <= m
    BY <1>1, <1>2, <1>3
  <2>2. u[i] = s[i] /\ u[j] = s[j]
    BY <1>1, <1>3, <2>1
  <2> QED BY <1>1, <2>1, <2>2, Zenon DEF Ascending
<1>4. CASE ~(j <= m) /\ i <= m
  <2>1. i \in 1 .. m /\ j - m \in 1 .. n
    BY <1>1, <1>2, <1>4
  <2>2. u[i] = s[i] /\ u[j] = t[j - m]
    BY <1>1, <1>4
  <2> QED BY <1>1, <2>1, <2>2, Zenon DEF Older
<1>5. CASE ~(i <= m)
  <2>1. ~(j <= m)
    BY <1>1, <1>2, <1>5
  <2>2. i - m \in 1 .. n /\ j - m \in 1 .. n /\ i - m < j - m
    BY <1>1, <1>2, <1>5, <2>1
  <2>3. u[i] = t[i - m] /\ u[j] = t[j - m]
    BY <1>1, <1>5, <2>1
  <2> QED BY <1>1, <2>2, <2>3, Zenon DEF Ascending
<1> QED BY <1>3, <1>4, <1>5

\* So do its last rows.
LEMMA NewestAscends ==
  ASSUME NEW s \in Seq(Nat), NEW n \in Nat
  PROVE  /\ Ascending(s) => Ascending(Newest(s, n))
         /\ \A j \in DOMAIN Newest(s, n) : \E i \in DOMAIN s : Newest(s, n)[j] = s[i]
<1> DEFINE u == Newest(s, n)
           m == Len(u)
           d == Len(s) - m
<1>1. /\ u \in Seq(Nat) /\ m \in Nat /\ d \in Nat /\ Len(s) = d + m
      /\ \A i \in 1 .. m : u[i] = s[d + i]
  BY NewestIs
<1>2. DOMAIN u = 1 .. m /\ DOMAIN s = 1 .. d + m
  BY <1>1
<1> HIDE DEF u, m, d
<1>3. \A i \in 1 .. m : d + i \in 1 .. d + m
  BY <1>1
<1>4. \A i, j \in 1 .. m : i < j => d + i < d + j
  BY <1>1
<1>5. \A j \in DOMAIN u : \E i \in DOMAIN s : u[j] = s[i]
  BY <1>1, <1>2, <1>3, Zenon
<1>6. ASSUME Ascending(s) PROVE Ascending(u)
  <2> SUFFICES ASSUME NEW i \in 1 .. m, NEW j \in 1 .. m, i < j, IsLine(u[i]), IsLine(u[j])
               PROVE  u[i] < u[j]
    BY <1>2, Zenon DEF Ascending
  <2>1. u[i] = s[d + i] /\ u[j] = s[d + j] /\ d + i < d + j
        /\ d + i \in DOMAIN s /\ d + j \in DOMAIN s
    BY <1>1, <1>2, <1>3, <1>4, Zenon
  <2> QED BY <1>6, <2>1, Zenon DEF Ascending
<1> QED BY <1>5, <1>6, Zenon DEF u

\* The rows an open segment has after it was fed.
Fed(h, rows) == Newest(OpenOf(h).rows \o rows, LineCap)

\* Only an open segment of lines is fed rows, and this is what it becomes.
Accepts(h) == h # << >> /\ OpenOf(h).kind = "lines"

FedTo(g, h, rows) ==
  /\ g \in Seq(SegType) /\ Len(g) = Len(h) /\ Len(h) \in Nat /\ Len(h) >= 1
  /\ \A i \in 1 .. Len(h) : i # Len(h) => g[i] = h[i]
  /\ g[Len(h)] = [OpenOf(h) EXCEPT !.rows = Fed(h, rows)]
  /\ g[Len(h)].rows = Fed(h, rows) /\ OpenOf(h) \in SegType

\* What a history is after it took rows.
LEMMA FedIs ==
  ASSUME NEW h, HistoryOK(h), NEW rows \in Seq(Nat), Accepts(h), NEW g, g = AppendLines(h, rows)
  PROVE  FedTo(g, h, rows)
<1> DEFINE k == Len(h)
           new == Fed(h, rows)
           seg == [OpenOf(h) EXCEPT !.rows = new]
<1>1. h \in Seq(SegType) /\ h # << >>
  BY DEF HistoryOK, Accepts
<1>2. k \in Nat /\ k >= 1 /\ k \in 1 .. Len(h) /\ h[k] \in SegType
  BY <1>1
<1>3. OpenOf(h) = h[k] /\ OpenOf(h).rows \in Seq(Nat)
  BY <1>2 DEF OpenOf, SegType
<1>4. OpenOf(h).rows \o rows \in Seq(Nat)
  BY <1>3, ConcatProperties
<1>5. new \in Seq(Nat)
  BY <1>4, NewestIs, CapsAssumption DEF Fed
<1> HIDE DEF new
<1>6. seg \in SegType /\ seg.rows = new
  BY <1>2, <1>3, <1>5 DEF SegType
<1>7. g = [h EXCEPT ![k] = seg]
  <2>1. g = [h EXCEPT ![Len(h)].rows = Newest(h[Len(h)].rows \o rows, LineCap)]
    BY DEF AppendLines, Accepts
  <2>2. new = Newest(h[Len(h)].rows \o rows, LineCap)
    BY <1>3 DEF new, Fed
  <2> QED BY <1>2, <1>3, <2>1, <2>2
<1> HIDE DEF seg, k
<1>8. /\ [h EXCEPT ![k] = seg] \in Seq(SegType)
      /\ Len([h EXCEPT ![k] = seg]) = Len(h)
      /\ \A j \in 1 .. Len(h) : [h EXCEPT ![k] = seg][j] = IF j = k THEN seg ELSE h[j]
  BY <1>1, <1>2, <1>6, ExceptSeq
<1> QED BY <1>2, <1>3, <1>6, <1>7, <1>8 DEF k, seg, new, FedTo

\* It is well formed if it was.
LEMMA LinesKeep ==
  ASSUME NEW h, HistoryOK(h), NEW rows \in Seq(Nat), NEW g, g = AppendLines(h, rows)
  PROVE  HistoryOK(g) /\ (g = << >> <=> h = << >>)
<1>1. CASE ~Accepts(h)
  BY <1>1 DEF AppendLines, Accepts
<1>2. CASE Accepts(h)
  <2>1. /\ g \in Seq(SegType) /\ Len(g) = Len(h) /\ Len(h) \in Nat /\ Len(h) >= 1
        /\ \A i \in 1 .. Len(h) : i # Len(h) => g[i] = h[i]
        /\ g[Len(h)] = [OpenOf(h) EXCEPT !.rows = Fed(h, rows)]
        /\ g[Len(h)].rows = Fed(h, rows) /\ OpenOf(h) \in SegType
    <3>1. FedTo(g, h, rows)
      BY <1>2, FedIs
    <3> QED BY <3>1, Zenon DEF FedTo
  <2>2. /\ OpenOf(h).kind = "lines" /\ OpenOf(h) = h[Len(h)] /\ Shaped(h[Len(h)])
    BY <1>2, <2>1 DEF Accepts, HistoryOK, OpenOf
  <2>3. Len(Fed(h, rows)) <= LineCap
    <3>1. OpenOf(h).rows \in Seq(Nat)
      BY <2>1 DEF SegType
    <3> DEFINE all == OpenOf(h).rows \o rows
    <3>2. all \in Seq(Nat) /\ LineCap \in Nat
      BY <3>1, ConcatProperties, CapsAssumption
    <3> HIDE DEF all
    <3>3. Len(all) \in Nat
      BY <3>2
    <3>4. Len(Newest(all, LineCap)) = IF Len(all) > LineCap THEN LineCap ELSE Len(all)
      BY <3>2, NewestIs
    <3> QED BY <3>2, <3>3, <3>4 DEF Fed, all
  <2>4. g[Len(h)].kind = "lines" /\ g[Len(h)].frames = << >> /\ g[Len(h)].prog = h[Len(h)].prog
        /\ h[Len(h)].kind = "lines"
    BY <2>1, <2>2 DEF SegType, Shaped
  <2>5. Shaped(g[Len(h)])
    BY <2>1, <2>3, <2>4 DEF Shaped
  <2>6. \A i \in 1 .. Len(h) : Shaped(g[i])
    BY <2>1, <2>5 DEF HistoryOK
  <2>7. \A i \in 1 .. Len(h) : g[i].prog = h[i].prog /\ g[i].kind = h[i].kind
    BY <2>1, <2>4
  <2>8. ASSUME NEW i \in 1 .. Len(h), i > 1
        PROVE  <<g[i].prog, g[i].kind>> # <<g[i-1].prog, g[i-1].kind>>
    <3>1. i - 1 \in 1 .. Len(h)
      BY <2>1, <2>8
    <3> QED BY <2>7, <2>8, <3>1 DEF HistoryOK
  <2>9. h # << >> /\ g # << >>
    BY <1>2, <2>1 DEF Accepts
  <2> QED BY <2>1, <2>6, <2>8, <2>9 DEF HistoryOK
<1> QED BY <1>1, <1>2

\* The rows that a session has after it was fed were there or were fed to it.
LEMMA LinesHas ==
  ASSUME NEW h, HistoryOK(h), NEW rows \in Seq(Nat), NEW g, g = AppendLines(h, rows),
         NEW L, Has(g, L)
  PROVE  Has(h, L) \/ \E j \in DOMAIN rows : rows[j] = L
<1>1. CASE ~Accepts(h)
  BY <1>1 DEF AppendLines, Accepts
<1>2. CASE Accepts(h)
  <2>1. /\ g \in Seq(SegType) /\ Len(g) = Len(h) /\ Len(h) \in Nat /\ Len(h) >= 1
        /\ \A i \in 1 .. Len(h) : i # Len(h) => g[i] = h[i]
        /\ g[Len(h)].rows = Fed(h, rows) /\ OpenOf(h) \in SegType
    <3>1. FedTo(g, h, rows)
      BY <1>2, FedIs
    <3> QED BY <3>1, Zenon DEF FedTo
  <2>2. DOMAIN g = 1 .. Len(h) /\ DOMAIN h = 1 .. Len(h) /\ OpenOf(h) = h[Len(h)]
    BY <2>1 DEF HistoryOK, OpenOf
  <2>3. PICK i \in 1 .. Len(h) : \E j \in DOMAIN g[i].rows : g[i].rows[j] = L
    BY <2>2 DEF Has
  <2>4. CASE i # Len(h)
    <3>1. g[i] = h[i] /\ i \in DOMAIN h
      BY <2>1, <2>2, <2>4
    <3> QED BY <2>3, <3>1, Zenon DEF Has
  <2>5. CASE i = Len(h)
    <3> DEFINE old == OpenOf(h).rows
    <3>1. old \in Seq(Nat)
      BY <2>1 DEF SegType
    <3>2. PICK j \in DOMAIN Newest(old \o rows, LineCap) : Newest(old \o rows, LineCap)[j] = L
      BY <2>1, <2>3, <2>5 DEF Fed
    <3> HIDE DEF old
    <3>3. old \o rows \in Seq(Nat) /\ LineCap \in Nat
      BY <3>1, ConcatProperties, CapsAssumption
    <3>4. PICK p \in DOMAIN (old \o rows) : (old \o rows)[p] = L
      BY <3>2, <3>3, NewestAscends
    <3>5. (\E q \in DOMAIN old : old[q] = L) \/ \E q \in DOMAIN rows : rows[q] = L
      <4>1. L \in ToSet(old \o rows)
        BY <3>4 DEF ToSet
      <4>2. L \in ToSet(old) \cup ToSet(rows)
        BY <3>1, <4>1, ToSetConcat
      <4> QED BY <4>2 DEF ToSet
    <3>6. Len(h) \in DOMAIN h /\ old = h[Len(h)].rows
      <4>1. Len(h) \in 1 .. Len(h)
        BY <2>1
      <4> QED BY <2>2, <4>1, Zenon DEF old
    <3> QED BY <3>5, <3>6, Zenon DEF Has
  <2> QED BY <2>4, <2>5
<1> QED BY <1>1, <1>2

\* A history in order is still in order when newer lines have been fed to it.
LEMMA LinesOrdered ==
  ASSUME NEW h, HistoryOK(h), NEW rows \in Seq(Nat), NEW g, g = AppendLines(h, rows),
         LinesInOrder(h), Ascending(rows),
         \A j \in DOMAIN rows : IsLine(rows[j]) =>
           \A L \in Nat : IsLine(L) /\ Has(h, L) => L < rows[j]
  PROVE  LinesInOrder(g)
<1>1. CASE ~Accepts(h)
  BY <1>1 DEF AppendLines, Accepts
<1>2. CASE Accepts(h)
  <2> DEFINE n == Len(h)
             old == OpenOf(h).rows
             all == old \o rows
             new == Newest(all, LineCap)
  <2>1. /\ g \in Seq(SegType) /\ Len(g) = n /\ n \in Nat /\ n >= 1
        /\ \A i \in 1 .. n : i # n => g[i] = h[i]
        /\ g[n].rows = new /\ OpenOf(h) \in SegType
    <3>1. FedTo(g, h, rows)
      BY <1>2, FedIs
    <3> QED BY <3>1, Zenon DEF Fed, FedTo
  <2>2. DOMAIN g = 1 .. n /\ DOMAIN h = 1 .. n /\ old = h[n].rows /\ n \in 1 .. n
    BY <2>1 DEF HistoryOK, OpenOf
  <2>3. old \in Seq(Nat)
    BY <2>1 DEF SegType
  <2>4. \A x : IsLine(x) => x \in Nat
    BY BoundsAssumption DEF IsLine
  <2> HIDE DEF n, old
  <2>5. Ascending(old)
    BY <2>2, Zenon DEF LinesInOrder, Ascending
  <2>6. Older(old, rows)
    BY <2>2, <2>4, Zenon DEF Older, Has
  <2>7. all \in Seq(Nat) /\ Ascending(all) /\ LineCap \in Nat
    BY <2>3, <2>5, <2>6, AscendingConcat, ConcatProperties, CapsAssumption
  <2>8. ToSet(all) = ToSet(old) \cup ToSet(rows)
    BY <2>3, ToSetConcat
  <2> HIDE DEF all
  <2>9. Ascending(new) /\ \A j \in DOMAIN new : new[j] \in ToSet(all)
    <3>1. \A j \in DOMAIN new : \E i \in DOMAIN all : new[j] = all[i]
      BY <2>7, NewestAscends
    <3>2. Ascending(new)
      BY <2>7, NewestAscends
    <3> QED BY <3>1, <3>2, Zenon DEF ToSet
  <2> HIDE DEF new
  <2>10. ASSUME NEW i \in 1 .. n, i # n, NEW j \in DOMAIN h[i].rows, NEW l \in DOMAIN new,
                IsLine(h[i].rows[j]), IsLine(new[l])
         PROVE  h[i].rows[j] < new[l]
    <3>1. i < n
      BY <2>1, <2>10
    <3>2. CASE new[l] \in ToSet(old)
      <4>1. PICK p \in DOMAIN old : new[l] = old[p]
        BY <3>2 DEF ToSet
      <4> QED BY <2>2, <2>10, <3>1, <4>1, Zenon DEF LinesInOrder
    <3>3. CASE new[l] \in ToSet(rows)
      <4>1. PICK p \in DOMAIN rows : new[l] = rows[p]
        BY <3>3 DEF ToSet
      <4>2. Has(h, h[i].rows[j]) /\ h[i].rows[j] \in Nat
        BY <2>2, <2>4, <2>10, Zenon DEF Has
      <4> QED BY <2>10, <4>1, <4>2, Zenon
    <3> QED BY <2>8, <2>9, <3>2, <3>3
  <2>11. ASSUME NEW i \in DOMAIN g, NEW k \in DOMAIN g,
                NEW j \in DOMAIN g[i].rows, NEW l \in DOMAIN g[k].rows,
                i < k \/ (i = k /\ j < l), IsLine(g[i].rows[j]), IsLine(g[k].rows[l])
         PROVE  g[i].rows[j] < g[k].rows[l]
    <3>0. i \in 1 .. n /\ k \in 1 .. n
      BY <2>2, <2>11
    <3>1. i # n \/ k = n
      BY <2>1, <2>11, <3>0
    <3>2. CASE i # n /\ k # n
      <4>1. g[i] = h[i] /\ g[k] = h[k]
        BY <2>1, <3>0, <3>2
      <4> QED BY <2>2, <2>11, <3>0, <4>1, Zenon DEF LinesInOrder
    <3>3. CASE i # n /\ k = n
      BY <2>1, <2>10, <2>11, <3>0, <3>3, Zenon
    <3>4. CASE i = n /\ k = n
      <4>1. j < l
        BY <2>1, <2>11, <3>4
      <4> QED BY <2>1, <2>9, <2>11, <3>4, <4>1, Zenon DEF Ascending
    <3> QED BY <3>1, <3>2, <3>3, <3>4
  <2> QED BY ONLY <2>11, Zenon DEF LinesInOrder
<1> QED BY <1>1, <1>2

\* g has the rows of h, perhaps with segments that have none.
SameRows(g, h) ==
  /\ DOMAIN h \subseteq DOMAIN g
  /\ \A i \in DOMAIN g : IF i \in DOMAIN h THEN g[i].rows = h[i].rows
                                          ELSE g[i].rows = << >>

\* A history with the rows of another has its lines in its order.
LEMMA SameRowsKeep ==
  ASSUME NEW g, NEW h, SameRows(g, h)
  PROVE  /\ \A L : Has(g, L) => Has(h, L)
         /\ LinesInOrder(h) => LinesInOrder(g)
<1>1. \A i \in DOMAIN g : \A j \in DOMAIN g[i].rows : i \in DOMAIN h /\ g[i].rows = h[i].rows
  <2> SUFFICES ASSUME NEW i \in DOMAIN g, i \notin DOMAIN h, NEW j \in DOMAIN g[i].rows
               PROVE  FALSE
    BY DEF SameRows
  <2>1. g[i].rows = << >>
    BY DEF SameRows
  <2> QED BY <2>1
<1>2. \A L : Has(g, L) => Has(h, L)
  BY <1>1, Zenon DEF Has
<1>3. LinesInOrder(h) => LinesInOrder(g)
  BY <1>1, Zenon DEF LinesInOrder
<1> QED BY <1>2, <1>3

Distinct(fs) == \A j \in 1 .. Len(fs) - 1 : fs[j] # fs[j + 1]

\* No two equal frames next to each other after another frame.
LEMMA NewestDistinct ==
  ASSUME NEW fs \in Seq(Seq(Nat)), Distinct(fs), NEW f \in Seq(Nat), NEW n \in Nat,
         fs # << >> => Last(fs) # f
  PROVE  /\ Newest(Append(fs, f), n) \in Seq(Seq(Nat))
         /\ Len(Newest(Append(fs, f), n)) <= n
         /\ Distinct(Newest(Append(fs, f), n))
<1> DEFINE all == Append(fs, f)
           new == Newest(all, n)
           d == Len(all) - Len(new)
<1>1. /\ all \in Seq(Seq(Nat)) /\ Len(all) = Len(fs) + 1 /\ Len(fs) \in Nat
      /\ \A i \in 1 .. Len(fs) : all[i] = fs[i]
      /\ all[Len(fs) + 1] = f
  BY AppendProperties
<1>2. Len(fs) # 0 => fs[Len(fs)] # f
  BY DEF Last
<1>3. \A j \in 1 .. Len(all) - 1 : all[j] # all[j + 1]
  <2> HIDE DEF all
  <2>0. Len(all) - 1 = Len(fs)
    BY <1>1
  <2> SUFFICES ASSUME NEW j, j \in 1 .. Len(fs) PROVE all[j] # all[j + 1]
    BY <2>0
  <2>1. CASE j = Len(fs)
    BY <1>1, <1>2, <2>1
  <2>2. CASE j # Len(fs)
    <3>1. j \in 1 .. Len(fs) - 1 /\ j + 1 \in 1 .. Len(fs)
      BY <1>1, <2>2
    <3>2. fs[j] # fs[j + 1]
      BY <3>1 DEF Distinct
    <3> QED BY <1>1, <3>1, <3>2
  <2> QED BY <2>1, <2>2
<1> HIDE DEF all
<1>4. /\ new \in Seq(Seq(Nat))
      /\ Len(new) = IF Len(all) > n THEN n ELSE Len(all)
      /\ \A i \in 1 .. Len(new) : new[i] = all[d + i]
  BY <1>1, NewestIs, Zenon
<1> DEFINE la == Len(all)
           ln == Len(new)
<1>5. la \in Nat /\ ln \in Nat /\ ln <= n /\ d \in Nat /\ la = d + ln
  BY <1>1, <1>4
<1> HIDE DEF new, d, la, ln
<1>6. Distinct(new)
  <2> SUFFICES ASSUME NEW j, j \in 1 .. ln - 1 PROVE new[j] # new[j + 1]
    BY DEF Distinct, ln
  <2>1. j \in 1 .. ln /\ j + 1 \in 1 .. ln /\ d + j \in 1 .. la - 1 /\ d + (j + 1) = (d + j) + 1
    BY <1>5
  <2>2. new[j] = all[d + j] /\ new[j + 1] = all[d + (j + 1)]
    BY <1>4, <2>1 DEF ln
  <2>3. all[d + j] # all[(d + j) + 1]
    BY <1>3, <2>1 DEF la
  <2> QED BY <2>1, <2>2, <2>3
<1> QED BY <1>4, <1>5, <1>6 DEF new, all, ln

\* A history that takes a frame keeps its rows and its form.
LEMMA FrameKeep ==
  ASSUME NEW h, HistoryOK(h), NEW f \in Seq(Nat), NEW g, g = AppendFrame(h, f)
  PROVE  HistoryOK(g) /\ (g = << >> <=> h = << >>) /\ SameRows(g, h)
<1> DEFINE k == Len(h)
           fs == OpenOf(h).frames
           new == Newest(Append(fs, f), FrameCap)
           seg == [OpenOf(h) EXCEPT !.frames = new]
<1>1. CASE g = h
  <2>1. SameRows(h, h)
    BY DEF SameRows
  <2> QED BY <1>1, <2>1
<1>2. CASE g # h
  <2>1. /\ h # << >> /\ OpenOf(h).kind = "frames" /\ ~(fs # << >> /\ Last(fs) = f)
        /\ g = [h EXCEPT ![Len(h)].frames = Newest(Append(h[Len(h)].frames, f), FrameCap)]
    BY <1>2 DEF AppendFrame
  <2>2. h \in Seq(SegType) /\ \A i \in 1 .. k : Shaped(h[i])
    BY DEF HistoryOK
  <2>3. k \in Nat /\ k >= 1 /\ k \in 1 .. k /\ h[k] \in SegType /\ OpenOf(h) = h[k]
        /\ DOMAIN h = 1 .. k
    BY <2>1, <2>2 DEF OpenOf
  <2>4. fs \in Seq(Seq(Nat)) /\ Distinct(fs) /\ h[k].rows = << >>
    <3>1. Shaped(h[k]) /\ h[k].kind = "frames" /\ fs = h[k].frames
      BY <2>1, <2>2, <2>3
    <3>2. h[k].frames \in Seq(Seq(Nat))
      BY <2>3 DEF SegType
    <3>3. Distinct(h[k].frames) /\ h[k].rows = << >>
      BY <3>1, Zenon DEF Shaped, Distinct
    <3> QED BY <3>1, <3>2, <3>3, Zenon
  <2>5. g = [h EXCEPT ![k] = seg]
    BY <2>1, <2>3
  <2>6. new \in Seq(Seq(Nat)) /\ Len(new) <= FrameCap /\ Distinct(new)
    BY <2>1, <2>4, NewestDistinct, CapsAssumption
  <2> HIDE DEF new, fs
  <2>7. seg \in SegType /\ seg.frames = new /\ seg.rows = << >> /\ seg.kind = "frames"
        /\ seg.prog = h[k].prog /\ h[k].kind = "frames"
    BY <2>1, <2>3, <2>4, <2>6 DEF SegType
  <2>8. Shaped(seg)
    BY <2>6, <2>7 DEF Shaped, Distinct
  <2> HIDE DEF seg, k
  <2>9. /\ [h EXCEPT ![k] = seg] \in Seq(SegType)
        /\ Len([h EXCEPT ![k] = seg]) = Len(h)
        /\ \A j \in 1 .. Len(h) : [h EXCEPT ![k] = seg][j] = IF j = k THEN seg ELSE h[j]
    BY <2>2, <2>3, <2>7, ExceptSeq DEF k
  <2>10. /\ g \in Seq(SegType) /\ Len(g) = k /\ DOMAIN g = 1 .. k
         /\ \A j \in 1 .. k : g[j] = IF j = k THEN seg ELSE h[j]
    BY <2>5, <2>9 DEF k
  <2>11. \A i \in 1 .. k : g[i].prog = h[i].prog /\ g[i].kind = h[i].kind /\ g[i].rows = h[i].rows
    BY <2>4, <2>7, <2>10
  <2>12. \A i \in 1 .. k : Shaped(g[i])
    BY <2>2, <2>8, <2>10 DEF k
  <2>13. ASSUME NEW i \in 1 .. k, i > 1
         PROVE  <<g[i].prog, g[i].kind>> # <<g[i-1].prog, g[i-1].kind>>
    <3>1. i - 1 \in 1 .. k
      BY <2>3, <2>13
    <3> QED BY <2>11, <2>13, <3>1 DEF HistoryOK, k
  <2>14. SameRows(g, h)
    BY <2>3, <2>10, <2>11, Zenon DEF SameRows
  <2>15. g # << >>
    BY <2>3, <2>10
  <2> QED BY <2>1, <2>10, <2>12, <2>13, <2>14, <2>15 DEF HistoryOK
<1> QED BY <1>1, <1>2

\* A new segment is well formed and empty.
LEMMA SegmentShaped ==
  ASSUME NEW p \in {Sh, Vi}
  PROVE  LET seg == Segment(p.prog, p.kind) IN
         /\ seg \in SegType /\ Shaped(seg) /\ seg.rows = << >>
         /\ seg.prog = p.prog /\ seg.kind = p.kind
BY CapsAssumption DEF Segment, SegType, Shaped, Sh, Vi, Progs

\* A change of the program keeps the rows and the form.
LEMMA ProgramKeep ==
  ASSUME NEW h, HistoryOK(h), h # << >>, NEW p \in {Sh, Vi},
         NEW g, g = ProgramChanged(h, p.prog, p.kind)
  PROVE  HistoryOK(g) /\ g # << >> /\ SameRows(g, h)
<1> DEFINE seg == Segment(p.prog, p.kind)
           k == Len(h)
<1>1. CASE g = h
  <2>1. SameRows(h, h)
    BY DEF SameRows
  <2> QED BY <1>1, <2>1
<1>2. CASE g # h
  <2>1. g = Append(h, seg) /\ ~(OpenOf(h).prog = p.prog /\ OpenOf(h).kind = p.kind)
    BY <1>2 DEF ProgramChanged
  <2>2. seg \in SegType /\ Shaped(seg) /\ seg.rows = << >> /\ seg.prog = p.prog /\ seg.kind = p.kind
    BY SegmentShaped
  <2> HIDE DEF seg
  <2>3. h \in Seq(SegType) /\ k \in Nat /\ k >= 1 /\ DOMAIN h = 1 .. k
    BY DEF HistoryOK
  <2>4. /\ g \in Seq(SegType) /\ g # << >> /\ Len(g) = k + 1
        /\ \A i \in 1 .. k : g[i] = h[i]
        /\ g[k + 1] = seg
    BY <2>1, <2>2, <2>3, AppendProperties
  <2>5. DOMAIN g = 1 .. k + 1
    BY <2>3, <2>4
  <2>6. \A i \in 1 .. k : Shaped(h[i]) /\ (i > 1 => <<h[i].prog, h[i].kind>> # <<h[i-1].prog, h[i-1].kind>>)
    BY DEF HistoryOK
  <2>7. OpenOf(h) = h[k] /\ k \in 1 .. k
    BY <2>3 DEF OpenOf
  <2> HIDE DEF k
  <2>8. \A i \in 1 .. k + 1 : Shaped(g[i])
    <3>1. \A i \in 1 .. k + 1 : i \in 1 .. k \/ i = k + 1
      BY <2>3
    <3> QED BY <2>2, <2>4, <2>6, <3>1, Zenon
  <2>9. ASSUME NEW i, i \in 1 .. k + 1, i > 1
        PROVE  <<g[i].prog, g[i].kind>> # <<g[i-1].prog, g[i-1].kind>>
    <3>1. CASE i = k + 1
      <4>1. i - 1 = k
        BY <2>3, <3>1
      <4> QED BY <2>1, <2>2, <2>4, <2>7, <3>1, <4>1
    <3>2. CASE i # k + 1
      <4>1. i \in 1 .. k /\ i - 1 \in 1 .. k
        BY <2>3, <2>9, <3>2
      <4> QED BY <2>4, <2>6, <2>9, <4>1
    <3> QED BY <3>1, <3>2
  <2>10. SameRows(g, h)
    <3>1. \A i \in 1 .. k : i \in 1 .. k + 1
      BY <2>3
    <3>2. \A i \in 1 .. k + 1 : i \in 1 .. k \/ i = k + 1
      BY <2>3
    <3>3. k + 1 \notin 1 .. k
      BY <2>3
    <3> QED BY <2>2, <2>3, <2>4, <2>5, <3>1, <3>2, <3>3, Zenon DEF SameRows
  <2> QED BY <2>4, <2>8, <2>9, <2>10 DEF HistoryOK
<1> QED BY <1>1, <1>2

(***************************************************************************)
(* The session that a caller gets.                                         *)
(***************************************************************************)
LEMMA SeedIs ==
  ASSUME PaneType, wm \in Nat, NEW p \in {Sh, Vi}, NEW ok \in BOOLEAN
  PROVE  /\ HistoryOK(Seed(p, ok).hist) /\ Seed(p, ok).hist # << >>
         /\ Seed(p, ok).wm \in Nat
         /\ ~(pane.hi >= pane.lo + VP) => StoredUpto(pane, Seed(p, ok).hist, Seed(p, ok).wm)
<1> DEFINE s == <<Segment(p.prog, p.kind)>>
           seg == Segment(p.prog, p.kind)
           v == Viewport
<1>1. seg \in SegType /\ Shaped(seg) /\ seg.rows = << >>
  BY SegmentShaped
<1> HIDE DEF seg
<1>2. s \in Seq(SegType) /\ Len(s) = 1 /\ s # << >> /\ s[1] = seg /\ DOMAIN s = 1 .. 1
  BY <1>1 DEF seg
<1>3. HistoryOK(s)
  BY <1>1, <1>2 DEF HistoryOK
<1>4. \A L : ~Has(s, L)
  BY <1>1, <1>2 DEF Has
<1>5. LinesInOrder(s)
  BY <1>1, <1>2 DEF LinesInOrder
<1>6. StoredUpto(pane, s, wm)
  BY <1>4, <1>5 DEF StoredUpto
<1>7. v \in Seq(Nat) /\ Len(v) \in Nat /\ DOMAIN v = 1 .. Len(v)
  BY ViewportIs, ScreenAssumption
<1>8. Ascending(v)
  <2>1. \A i \in 1 .. Len(v) : IsLine(v[i]) => v[i] = pane.hi - Len(v) + i
    BY ViewportIs
  <2>2. pane.hi \in Nat
    BY DEF PaneType
  <2> HIDE DEF v
  <2> SUFFICES ASSUME NEW i, i \in 1 .. Len(v), NEW j, j \in 1 .. Len(v), i < j,
                      IsLine(v[i]), IsLine(v[j])
               PROVE  v[i] < v[j]
    BY <1>7 DEF Ascending
  <2>3. v[i] = pane.hi - Len(v) + i /\ v[j] = pane.hi - Len(v) + j
    BY <2>1
  <2>4. i \in Nat /\ j \in Nat /\ Len(v) \in Nat
    BY <1>7
  <2> QED BY <2>2, <2>3, <2>4
<1> HIDE DEF s
<1>9. CASE ~ok
  <2>1. Seed(p, ok).hist = s /\ Seed(p, ok).wm = wm
    BY <1>9 DEF Seed, s
  <2> QED BY <1>2, <1>3, <1>6, <2>1, Zenon
<1>10. CASE ok /\ p.kind = "lines"
  <2> DEFINE g == AppendLines(s, v)
             w == wm + Len(v)
  <2>1. Seed(p, ok).hist = g /\ Seed(p, ok).wm = w
    BY <1>10 DEF Seed, s
  <2>2. HistoryOK(g) /\ g # << >>
    BY <1>2, <1>3, <1>7, LinesKeep
  <2>3. w \in Nat
    BY <1>7
  <2>4. LinesInOrder(g)
    BY <1>3, <1>4, <1>5, <1>7, <1>8, LinesOrdered
  <2>5. ASSUME ~(pane.hi >= pane.lo + VP), NEW L \in Nat, IsLine(L), Has(g, L)
        PROVE  Below(pane, L, w)
    <3>1. PICK j \in DOMAIN v : v[j] = L
      BY <1>3, <1>4, <1>7, <2>5, LinesHas
    <3>2. j \in 1 .. Len(v) /\ j <= Len(v) /\ j \in Nat
      BY <1>7
    <3>3. v[j] = pane.lo - 1 + j
      BY <2>5, <3>1, <3>2, ViewportIs
    <3>4. pane.lo \in Nat /\ Len(v) \in Nat
      BY <1>7 DEF PaneType
    <3> HIDE DEF v
    <3>5. L <= pane.lo - 1 + (wm + Len(v))
      BY <3>1, <3>2, <3>3, <3>4
    <3> QED BY <3>5 DEF Below
  <2>6. ~(pane.hi >= pane.lo + VP) => StoredUpto(pane, g, w)
    BY <2>4, <2>5, Zenon DEF StoredUpto
  <2> QED BY <2>1, <2>2, <2>3, <2>6, Zenon
<1>11. CASE ok /\ p.kind # "lines"
  <2> DEFINE g == AppendFrame(s, v)
  <2>1. Seed(p, ok).hist = g /\ Seed(p, ok).wm = wm
    BY <1>11 DEF Seed, s
  <2>2. HistoryOK(g) /\ g # << >> /\ SameRows(g, s)
    BY <1>2, <1>3, <1>7, FrameKeep
  <2>3. StoredUpto(pane, g, wm)
    BY <1>4, <1>5, <2>2, SameRowsKeep, Zenon DEF StoredUpto
  <2> QED BY <2>1, <2>2, <2>3, Zenon
<1> QED BY <1>9, <1>10, <1>11

\* The session of the history that a reader gets.
LEMMA SessionIs ==
  ASSUME PaneType, HistoryOK(hist), wm \in Nat, gen \in Nat, deep \in BOOLEAN,
         NEW p \in {Sh, Vi}, NEW ok \in BOOLEAN
  PROVE  LET s == SessionFor(p, ok) IN
         /\ HistoryOK(s.hist) /\ s.hist # << >>
         /\ s.wm \in Nat /\ s.deep \in BOOLEAN /\ s.gen = gen + One(hist = << >>)
         /\ ~s.deep => ~deep
         /\ ~s.deep /\ StoredUpto(pane, hist, wm) => StoredUpto(pane, s.hist, s.wm)
<1> DEFINE s == SessionFor(p, ok)
<1>1. CASE hist # << >>
  <2>1. /\ s.hist = hist /\ s.gen = gen /\ s.wm = wm /\ s.deep = deep
    BY <1>1 DEF SessionFor
  <2>2. gen = gen + One(hist = << >>)
    BY <1>1 DEF One
  <2> QED BY <1>1, <2>1, <2>2, Zenon
<1>2. CASE hist = << >>
  <2>1. /\ s.hist = Seed(p, ok).hist /\ s.gen = gen + 1 /\ s.wm = Seed(p, ok).wm
        /\ s.deep = (deep \/ pane.hi >= pane.lo + VP)
    BY <1>2 DEF SessionFor
  <2>2. gen + 1 = gen + One(hist = << >>)
    BY <1>2 DEF One
  <2>3. /\ HistoryOK(Seed(p, ok).hist) /\ Seed(p, ok).hist # << >>
        /\ Seed(p, ok).wm \in Nat
        /\ ~(pane.hi >= pane.lo + VP) => StoredUpto(pane, Seed(p, ok).hist, Seed(p, ok).wm)
    BY SeedIs
  <2>4. s.deep \in BOOLEAN /\ (~s.deep => ~deep /\ ~(pane.hi >= pane.lo + VP))
    BY <2>1
  <2> QED BY <2>1, <2>2, <2>3, <2>4, Zenon
<1> QED BY <1>1, <1>2

(***************************************************************************)
(* Types.                                                                  *)
(***************************************************************************)
LEMMA TypeInit == Init => TInv
<1> SUFFICES ASSUME Init PROVE TInv
  OBVIOUS
<1>1. HistoryOK(hist)
  BY DEF Init, HistoryOK
<1>2. PaneType
  <2>1. (CHOOSE f \in Frames : TRUE) \in Frames
    BY FramesAssumption
  <2>2. PICK first \in Frames :
          pane \in [alive : {TRUE}, prog : {"sh", "vi"}, lo : {1}, hi : {0}, frame : {first}]
    BY <2>1 DEF Init
  <2>3. {TRUE} \subseteq BOOLEAN
    BY Zenon
  <2>4. pane \in [alive : BOOLEAN, prog : {"sh", "vi"}, lo : {1}, hi : {0}, frame : Frames]
    BY <2>2, <2>3
  <2> QED BY <2>4, BoundsAssumption DEF PaneType, Progs
<1>3. PollType
  BY DEF Init, PollType, PollIdle, PollPcs
<1>4. StrmType
  BY DEF Init, StrmType, StrmIdle, StrmPcs
<1>5. CountType
  <2>1. flips = 0 /\ paints = 0 /\ clears = 0 /\ streams = 0 /\ gen = 0 /\ wm = 0
        /\ deep = FALSE /\ streaming = FALSE /\ hist = << >> /\ strm.pc = "idle"
    BY DEF Init, StrmIdle
  <2>2. One(hist = << >>) = 1 /\ One(strm.pc # "idle") = 0
    BY <2>1 DEF One
  <2>3. MaxStreams \in Nat
    BY BoundsAssumption
  <2>4. deep \in BOOLEAN /\ streaming \in BOOLEAN
    BY <2>1, Zenon
  <2>5. gen + One(hist = << >>) + One(strm.pc # "idle") <= streams + 1
    BY <2>1, <2>2
  <2> QED BY <2>1, <2>3, <2>4, <2>5 DEF CountType
<1> QED BY <1>1, <1>2, <1>3, <1>4, <1>5 DEF TInv

\* The pane only moves on.
LEMMA PaneSteps ==
  ASSUME TInv, Output \/ Paint \/ Flip \/ Clear \/ End
  PROVE  PaneType' /\ pane'.lo >= pane.lo /\ pane'.hi >= pane.hi
<1>1. PaneType
  BY DEF TInv
<1>2. CASE Output
  BY <1>1, <1>2, BoundsAssumption DEF Output, PaneType, Progs
<1>3. CASE Paint
  BY <1>1, <1>3 DEF Paint, PaneType, Progs
<1>4. CASE Flip
  BY <1>1, <1>4 DEF Flip, PaneType, Progs
<1>5. CASE Clear
  BY <1>1, <1>5 DEF Clear, PaneType, Progs
<1>6. CASE End
  <2>1. PICK b \in BOOLEAN : pane' = [pane EXCEPT !.alive = b]
    BY <1>6, Zenon DEF End
  <2> QED BY <1>1, <2>1 DEF PaneType
<1> QED BY <1>2, <1>3, <1>4, <1>5, <1>6

\* A feed that is refused or taken keeps the form of the history.
LEMMA FeedKeep ==
  ASSUME HistoryOK(hist), NEW g, NEW h, Feed(g, h), HistoryOK(h), h = << >> <=> hist = << >>
  PROVE  HistoryOK(hist') /\ (hist' = << >> <=> hist = << >>)
BY DEF Feed

\* What a snapshot of the pane says of its program.
LEMMA SnapshotIs == Snapshot \in {Sh, Vi} /\ Snapshot.prog = IF pane.prog = "vi" THEN "vi" ELSE "sh"
BY DEF Snapshot, Sh, Vi

\* The texts that are captured.
LEMMA TextIs ==
  ASSUME PaneType
  PROVE  ErrText \in Seq(Nat) /\ Viewport \in Seq(Nat) /\ Len(Viewport) \in 1 .. VP /\ ErrText # << >>
         /\ Viewport # << >> /\ Scrollback \in Seq(Nat) /\ Len(Scrollback) \in Nat
<1>1. Len(Viewport) # 0 /\ Len(Scrollback) \in Nat
  BY ViewportIs, ScrollbackIs, ScreenAssumption
<1> QED BY <1>1, ViewportIs, ScrollbackIs DEF ErrText

\* The poller's steps.
LEMMA PollSteps ==
  ASSUME TInv, PollScan \/ PollSegment \/ PollCapture \/ PollAppend \/ PollSave \/ PollFrame
  PROVE  TInv'
<1>1. HistoryOK(hist) /\ PaneType /\ PollType /\ StrmType /\ CountType
  BY DEF TInv
<1>2. UNCHANGED <<pane, counts, streaming, strm>>
  BY DEF PollScan, PollSegment, PollCapture, PollAppend, PollSave, PollFrame, PollOnly
<1>3. PaneType' /\ StrmType'
  BY <1>1, <1>2 DEF PaneType, StrmType
<1>4. CASE PollScan
  <2>1. PollType'
    BY <1>1, <1>4, SnapshotIs DEF PollScan, PollType, PollPcs
  <2> QED BY <1>1, <1>2, <1>3, <1>4, <2>1 DEF TInv, CountType, PollScan, session, counts
<1>5. CASE PollSegment
  <2> DEFINE s == SessionFor(poll.p, pane.alive)
  <2>1. poll.p \in {Sh, Vi} /\ pane.alive \in BOOLEAN /\ wm \in Nat /\ gen \in Nat /\ deep \in BOOLEAN
    BY <1>1 DEF PollType, PaneType, CountType
  <2>2. /\ HistoryOK(s.hist) /\ s.hist # << >>
        /\ s.wm \in Nat /\ s.deep \in BOOLEAN /\ s.gen = gen + One(hist = << >>)
    BY <1>1, <2>1, SessionIs
  <2>3. /\ hist' = ProgramChanged(s.hist, poll.p.prog, poll.p.kind)
        /\ gen' = s.gen /\ wm' = s.wm /\ deep' = s.deep
        /\ poll' = [poll EXCEPT !.gen = s.gen,
                     !.pc = IF poll.p.kind = "lines" THEN "capture" ELSE "frame"]
    BY <1>5 DEF PollSegment
  <2> HIDE DEF s
  <2>4. HistoryOK(hist') /\ hist' # << >>
    BY <2>1, <2>2, <2>3, ProgramKeep
  <2>5. s.gen \in Nat
    BY <2>1, <2>2 DEF One
  <2>6. PollType'
    BY <1>1, <2>3, <2>5 DEF PollType, PollPcs
  <2>7. CountType'
    BY <1>1, <1>2, <2>1, <2>2, <2>3, <2>4, <2>5 DEF CountType, One, counts
  <2> QED BY <1>3, <2>4, <2>6, <2>7 DEF TInv
<1>6. CASE PollCapture
  <2>1. Scrollback \in Seq(Nat)
    BY <1>1, TextIs
  <2>2. poll' = [poll EXCEPT !.pc = "append", !.rows = Scrollback] \/ poll' = PollIdle
    BY <1>6 DEF PollCapture
  <2>3. PollType'
    <3>1. CASE poll' = [poll EXCEPT !.pc = "append", !.rows = Scrollback]
      BY <1>1, <2>1, <3>1 DEF PollType, PollPcs
    <3>2. CASE poll' = PollIdle
      BY <1>1, <3>2 DEF PollType, PollPcs, PollIdle
    <3> QED BY <2>2, <3>1, <3>2
  <2> QED BY <1>1, <1>2, <1>3, <1>6, <2>3 DEF TInv, CountType, PollCapture, session, counts
<1>7. CASE PollAppend
  <2> DEFINE n == Len(poll.rows)
             seen == IF wm = 0 THEN n ELSE wm
             rows == SubSeq(poll.rows, seen + 1, n)
  <2>1. poll.rows \in Seq(Nat) /\ n \in Nat /\ wm \in Nat /\ seen \in Nat
    BY <1>1 DEF PollType, CountType
  <2>2. rows \in Seq(Nat)
    BY <2>1
  <2>3. /\ Feed(poll.gen, AppendLines(hist, rows))
        /\ poll' = [poll EXCEPT !.pc = "save", !.rows = << >>, !.seen = IF n > seen THEN n ELSE seen]
        /\ UNCHANGED <<gen, deep, wm>>
    BY <1>7 DEF PollAppend
  <2>4. HistoryOK(hist') /\ (hist' = << >> <=> hist = << >>)
    BY <1>1, <2>2, <2>3, LinesKeep, FeedKeep
  <2> HIDE DEF n, seen
  <2>5. PollType'
    <3>1. (IF n > seen THEN n ELSE seen) \in Nat /\ << >> \in Seq(Nat)
      BY <2>1
    <3> DEFINE most == IF n > seen THEN n ELSE seen
    <3>2. poll' = [poll EXCEPT !.pc = "save", !.rows = << >>, !.seen = most]
      BY <2>3
    <3> HIDE DEF most
    <3>3. most \in Nat
      BY <3>1 DEF most
    <3> QED BY <1>1, <3>1, <3>2, <3>3 DEF PollType, PollPcs
  <2>6. CountType'
    BY <1>1, <1>2, <2>3, <2>4 DEF CountType, One, counts
  <2> QED BY <1>3, <2>4, <2>5, <2>6 DEF TInv
<1>8. CASE PollSave
  <2>1. PollType'
    BY <1>1, <1>8 DEF PollSave, PollType, PollPcs, PollIdle
  <2>2. CountType'
    BY <1>1, <1>2, <1>8 DEF CountType, PollSave, PollType, One, counts
  <2> QED BY <1>1, <1>3, <1>8, <2>1, <2>2 DEF TInv, PollSave
<1>9. CASE PollFrame
  <2>1. PollType'
    BY <1>1, <1>9 DEF PollFrame, PollType, PollPcs, PollIdle
  <2>2. HistoryOK(hist') /\ (hist' = << >> <=> hist = << >>)
    <3> DEFINE f == IF pane.alive THEN Viewport ELSE ErrText
    <3>1. f \in Seq(Nat)
      BY <1>1, TextIs
    <3>2. UNCHANGED hist \/ Feed(poll.gen, AppendFrame(hist, f))
      BY <1>9 DEF PollFrame
    <3> HIDE DEF f
    <3>3. HistoryOK(AppendFrame(hist, f)) /\ (AppendFrame(hist, f) = << >> <=> hist = << >>)
      BY <1>1, <3>1, FrameKeep
    <3> QED BY <1>1, <3>2, <3>3, FeedKeep
  <2>3. CountType'
    BY <1>1, <1>2, <1>9, <2>2 DEF CountType, PollFrame, One, counts
  <2> QED BY <1>3, <2>1, <2>2, <2>3 DEF TInv
<1> QED BY <1>4, <1>5, <1>6, <1>7, <1>8, <1>9

\* A stream that drops the session of its pane.
LEMMA StreamDrops ==
  ASSUME TInv, Drop, strm' = StrmIdle, strm.pc # "idle",
         UNCHANGED <<pane, flips, paints, clears, poll, streaming, streams>>
  PROVE  TInv'
<1>1. HistoryOK(hist) /\ PaneType /\ PollType /\ StrmType /\ CountType
  BY DEF TInv
<1>2. PaneType' /\ PollType'
  BY <1>1 DEF PaneType, PollType
<1>3. HistoryOK(hist')
  BY DEF Drop, HistoryOK
<1>4. StrmType'
  BY DEF StrmType, StrmIdle, StrmPcs
<1>5. CountType'
  <2>1. hist' = << >> /\ wm' = 0 /\ gen' = gen /\ deep' = deep /\ strm'.pc = "idle"
    BY DEF Drop, StrmIdle
  <2>2. One(hist' = << >>) = 1 /\ One(strm'.pc # "idle") = 0 /\ One(strm.pc # "idle") = 1
    BY <2>1 DEF One
  <2>3. One(hist = << >>) \in {0, 1}
    BY DEF One
  <2> QED BY <1>1, <2>1, <2>2, <2>3 DEF CountType
<1> QED BY <1>2, <1>3, <1>4, <1>5 DEF TInv

\* A step of a stream that keeps the session, or feeds it, and the stream goes on.
LEMMA StreamFeeds ==
  ASSUME TInv, HistoryOK(hist'), hist' = << >> <=> hist = << >>, wm' \in Nat,
         strm.pc # "idle", StrmType',
         UNCHANGED <<pane, flips, paints, clears, poll, streaming, streams, gen, deep>>
  PROVE  TInv'
<1>1. HistoryOK(hist) /\ PaneType /\ PollType /\ StrmType /\ CountType
  BY DEF TInv
<1>2. PaneType' /\ PollType'
  BY <1>1 DEF PaneType, PollType
<1>3. One(hist' = << >>) = One(hist = << >>) /\ One(hist = << >>) \in {0, 1}
  BY DEF One
<1>4. One(strm.pc # "idle") = 1 /\ One(strm'.pc # "idle") \in {0, 1}
  BY DEF One
<1>5. CountType'
  BY <1>1, <1>3, <1>4 DEF CountType
<1> QED BY <1>1, <1>2, <1>5 DEF TInv

\* The types, step by step: a stream of lines captures,
LEMMA TickTypes ==
  ASSUME TInv, StreamBase \/ TickLines
  PROVE  TInv'
<1>1. HistoryOK(hist) /\ PaneType /\ StrmType /\ CountType
  BY DEF TInv
<1>2. UNCHANGED <<pane, flips, paints, clears, poll, streaming, streams>> /\ strm.pc # "idle"
  BY DEF StreamBase, TickLines, StreamOnly
<1> DEFINE n == Len(Scrollback)
           more == SubSeq(Scrollback, strm.seen + 1, n)
<1>3. Scrollback \in Seq(Nat) /\ n \in Nat /\ strm.seen \in Nat /\ pane.hi \in Nat
      /\ strm.p \in {Sh, Vi}
  BY <1>1, TextIs DEF StrmType, PaneType
<1>4. CASE Fails
  <2>1. Drop /\ strm' = StrmIdle
    BY <1>4 DEF StreamBase, TickLines
  <2> QED BY <1>2, <2>1, StreamDrops
<1>5. CASE StreamBase /\ ~Fails
  <2>1. /\ strm' = [strm EXCEPT !.pc = "tick", !.seen = n, !.base = pane.hi]
        /\ wm' = n /\ UNCHANGED <<hist, gen, deep>> /\ strm.pc = "base"
    BY <1>5 DEF StreamBase
  <2> HIDE DEF n
  <2>2. StrmType'
    BY <1>1, <1>3, <2>1 DEF StrmType, StrmPcs
  <2> QED BY <1>1, <1>2, <1>3, <2>1, <2>2, StreamFeeds
<1>6. CASE TickLines /\ ~Fails /\ n > strm.seen
  <2>1. /\ strm' = [strm EXCEPT !.pc = "emit", !.seen = n, !.rest = more]
        /\ UNCHANGED session /\ strm.pc = "tick" /\ strm.p.kind = "lines"
    BY <1>6 DEF TickLines
  <2>2. more \in Seq(Nat)
    BY <1>3
  <2>3. Len(more) = n - strm.seen
    <3>1. /\ \A i \in strm.seen + 1 .. n : Scrollback[i] \in Nat
      BY <1>3
    <3> HIDE DEF n
    <3>2. Len(more) = IF strm.seen + 1 <= n THEN n - (strm.seen + 1) + 1 ELSE 0
      BY <1>3, <3>1, SubSeqProperties
    <3> QED BY <1>3, <1>6, <3>2
  <2> HIDE DEF n, more
  <2>4. more # << >>
    BY <1>3, <1>6, <2>2, <2>3
  <2>5. strm.p = Sh
    BY <1>3, <2>1 DEF Vi
  <2>6. StrmType'
    BY <1>1, <1>3, <2>1, <2>2, <2>4, <2>5 DEF StrmType, StrmPcs, Sh, Vi
  <2> QED BY <1>1, <1>2, <2>1, <2>6, StreamFeeds DEF session, CountType
<1>7. CASE TickLines /\ ~Fails /\ ~(n > strm.seen)
  <2>1. wm' = strm.seen /\ UNCHANGED <<hist, gen, deep, strm>>
    BY <1>7 DEF TickLines
  <2>2. StrmType'
    BY <1>1, <2>1 DEF StrmType
  <2> QED BY <1>1, <1>2, <1>3, <2>1, <2>2, StreamFeeds
<1> QED BY <1>4, <1>5, <1>6, <1>7

\* The rest of the rows, and those sent, when one more is emitted.
LEMMA EmitIs ==
  ASSUME TInv, EmitLine
  PROVE  LET row == Head(strm.rest)
             rest == Tail(strm.rest)
         IN /\ row \in Nat /\ rest \in Seq(Nat) /\ strm.sent \in Seq(Nat)
            /\ Append(strm.sent, row) \in Seq(Nat) /\ strm.p = Sh
            /\ Len(strm.rest) \in Nat /\ Len(strm.rest) >= 1
            /\ Len(rest) = Len(strm.rest) - 1 /\ row = strm.rest[1]
            /\ \A i \in 1 .. Len(rest) : rest[i] = strm.rest[i + 1]
<1>1. StrmType /\ strm.pc = "emit"
  BY DEF TInv, EmitLine
<1>2. strm.rest \in Seq(Nat) /\ strm.rest # << >> /\ strm.sent \in Seq(Nat) /\ strm.p = Sh
  BY <1>1 DEF StrmType
<1> DEFINE r == strm.rest
<1>3. r \in Seq(Nat) /\ r # << >>
  BY <1>2
<1> HIDE DEF r
<1>4. Len(r) \in Nat /\ Len(r) >= 1 /\ Head(r) = r[1] /\ Head(r) \in Nat
  BY <1>3
<1>5. Tail(r) \in Seq(Nat) /\ Len(Tail(r)) = Len(r) - 1
      /\ \A i \in 1 .. Len(Tail(r)) : Tail(r)[i] = r[i + 1]
  BY <1>3, HeadTailProperties
<1> QED BY <1>2, <1>4, <1>5, AppendProperties DEF r

\* sends a line,
LEMMA EmitTypes ==
  ASSUME TInv, EmitLine
  PROVE  TInv'
<1> DEFINE row == Head(strm.rest)
           rest == Tail(strm.rest)
<1>1. HistoryOK(hist) /\ StrmType /\ CountType
  BY DEF TInv
<1>2. UNCHANGED <<pane, flips, paints, clears, poll, streaming, streams, gen, deep, wm>>
      /\ strm.pc = "emit"
  BY DEF EmitLine, StreamOnly
<1>3. row \in Nat /\ rest \in Seq(Nat) /\ Append(strm.sent, row) \in Seq(Nat)
      /\ strm.p = Sh /\ strm.sent \in Seq(Nat)
  BY EmitIs
<1>4. Feed(strm.gen, AppendLines(hist, <<row>>))
  BY DEF EmitLine, AppendLine
<1>5. HistoryOK(hist') /\ (hist' = << >> <=> hist = << >>)
  <2>1. <<row>> \in Seq(Nat)
    BY <1>3
  <2> HIDE DEF row
  <2> QED BY <1>1, <1>4, <2>1, LinesKeep, FeedKeep
<1>6. \/ strm' = [strm EXCEPT !.rest = rest,
                    !.sent = IF row = Blank THEN @ ELSE Append(@, row),
                    !.pc = IF rest = << >> THEN "save" ELSE "emit"]
      \/ strm' = StrmIdle
  BY DEF EmitLine
<1> DEFINE sent == IF row = Blank THEN strm.sent ELSE Append(strm.sent, row)
           pc == IF rest = << >> THEN "save" ELSE "emit"
<1>7. sent \in Seq(Nat) /\ pc \in StrmPcs /\ (pc = "emit" <=> rest # << >>)
      /\ pc \in {"save", "emit"}
  BY <1>3 DEF StrmPcs
<1>8. strm' = [strm EXCEPT !.rest = rest, !.sent = sent, !.pc = pc] \/ strm' = StrmIdle
  BY <1>6
<1> HIDE DEF row, rest, sent, pc
<1>9. StrmType'
  <2>1. CASE strm' = [strm EXCEPT !.rest = rest, !.sent = sent, !.pc = pc]
    <3>1. strm'.pc = pc /\ strm'.rest = rest /\ strm'.p = strm.p
      BY <1>1, <2>1 DEF StrmType
    <3>2. strm' \in [pc : StrmPcs, p : {Sh, Vi}, cancelled : BOOLEAN, gen : Nat,
                     seen : Nat, rest : Seq(Nat), prev : Seq(Nat), pending : Seq(Nat),
                     base : Nat, sent : Seq(Nat)]
      BY <1>1, <1>3, <1>7, <2>1 DEF StrmType
    <3>3. Sh # Vi
      BY DEF Sh, Vi
    <3> QED BY <1>3, <1>7, <3>1, <3>2, <3>3 DEF StrmType
  <2>2. CASE strm' = StrmIdle
    BY <2>2 DEF StrmType, StrmIdle, StrmPcs
  <2> QED BY <1>8, <2>1, <2>2
<1> QED BY <1>1, <1>2, <1>5, <1>9, StreamFeeds DEF CountType

\* a stream of frames captures,
LEMMA FrameTypes ==
  ASSUME TInv, StreamBaseFrames \/ TickFrames
  PROVE  TInv'
<1>1. HistoryOK(hist) /\ PaneType /\ StrmType /\ CountType
  BY DEF TInv
<1>2. UNCHANGED <<pane, flips, paints, clears, poll, streaming, streams>> /\ strm.pc # "idle"
  BY DEF StreamBaseFrames, TickFrames, StreamOnly
<1> DEFINE text == IF pane.alive THEN Viewport ELSE ErrText
           first == IF strm.cancelled THEN << >> ELSE text
<1>3. text \in Seq(Nat) /\ first \in Seq(Nat) /\ pane.hi \in Nat
  <2>1. text \in Seq(Nat)
    BY <1>1, TextIs
  <2> HIDE DEF text
  <2> QED BY <1>1, <2>1 DEF PaneType
<1>4. strm.p \in {Sh, Vi} /\ strm.pending \in Seq(Nat) /\ << >> \in Seq(Nat)
  BY <1>1 DEF StrmType
<1>5. wm \in Nat /\ (UNCHANGED session => UNCHANGED <<hist, gen, wm, deep>>)
  BY <1>1 DEF CountType, session
<1>6. CASE StreamBaseFrames
  <2>1. strm' = [strm EXCEPT !.pc = "tick", !.base = pane.hi, !.prev = first]
        /\ UNCHANGED session /\ strm.pc = "base"
    BY <1>6 DEF StreamBaseFrames
  <2> HIDE DEF first
  <2>2. StrmType'
    BY <1>1, <1>3, <2>1 DEF StrmType, StrmPcs
  <2> QED BY <1>1, <1>2, <1>5, <2>1, <2>2, StreamFeeds
<1>7. CASE TickFrames
  <2>1. \/ Drop /\ strm' = StrmIdle
        \/ strm' = [strm EXCEPT !.pending = text, !.prev = text] /\ UNCHANGED session
        \/ /\ Feed(strm.gen, AppendFrame(hist, strm.pending))
           /\ strm' = [strm EXCEPT !.pending = << >>]
           /\ UNCHANGED <<gen, deep, wm>>
    BY <1>7 DEF TickFrames
  <2> HIDE DEF text
  <2>2. CASE Drop /\ strm' = StrmIdle
    BY <1>2, <2>2, StreamDrops
  <2>3. CASE strm' = [strm EXCEPT !.pending = text, !.prev = text] /\ UNCHANGED session
    <3>1. StrmType'
      BY <1>1, <1>3, <2>3 DEF StrmType, StrmPcs
    <3> QED BY <1>1, <1>2, <1>5, <2>3, <3>1, StreamFeeds
  <2>4. CASE /\ Feed(strm.gen, AppendFrame(hist, strm.pending))
             /\ strm' = [strm EXCEPT !.pending = << >>]
             /\ UNCHANGED <<gen, deep, wm>>
    <3>1. StrmType'
      BY <1>1, <1>4, <2>4 DEF StrmType, StrmPcs
    <3> DEFINE new == AppendFrame(hist, strm.pending)
    <3>2. HistoryOK(new) /\ (new = << >> <=> hist = << >>)
      BY <1>1, <1>4, FrameKeep
    <3> HIDE DEF new
    <3>3. Feed(strm.gen, new)
      BY <2>4 DEF new
    <3>4. HistoryOK(hist') /\ (hist' = << >> <=> hist = << >>)
      BY <1>1, <3>2, <3>3, FeedKeep
    <3> QED BY <1>2, <1>5, <2>4, <3>1, <3>4, StreamFeeds
  <2> QED BY <2>1, <2>2, <2>3, <2>4
<1> QED BY <1>6, <1>7

\* a stream starts,
LEMMA StartTypes ==
  ASSUME TInv, StreamOpen \/ StreamStart
  PROVE  TInv'
<1>1. HistoryOK(hist) /\ PaneType /\ PollType /\ StrmType /\ CountType
  BY DEF TInv
<1>2. UNCHANGED <<pane, flips, paints, clears, poll>>
  BY DEF StreamOpen, StreamStart, StreamOnly
<1>3. PaneType' /\ PollType'
  BY <1>1, <1>2 DEF PaneType, PollType
<1>4. CASE StreamOpen
  <2>1. /\ strm' = [StrmIdle EXCEPT !.pc = "start", !.p = Snapshot]
        /\ streaming' = TRUE /\ streams' = streams + 1 /\ streams < MaxStreams
        /\ strm.pc = "idle" /\ UNCHANGED <<hist, gen, wm, deep>>
    BY <1>4 DEF StreamOpen, session
  <2>2. Snapshot \in {Sh, Vi}
    BY SnapshotIs
  <2>3. StrmType' /\ strm'.pc = "start"
    <3>1. StrmIdle \in [pc : StrmPcs, p : {Sh, Vi}, cancelled : BOOLEAN, gen : Nat,
                        seen : Nat, rest : Seq(Nat), prev : Seq(Nat),
                        pending : Seq(Nat), base : Nat, sent : Seq(Nat)]
      BY DEF StrmIdle, StrmPcs
    <3>2. StrmIdle.rest = << >> /\ StrmIdle.sent = << >>
      BY DEF StrmIdle
    <3> QED BY <2>1, <2>2, <3>1, <3>2 DEF StrmType, StrmPcs
  <2>4. One(strm.pc # "idle") = 0 /\ One(strm'.pc # "idle") = 1 /\ One(hist = << >>) \in {0, 1}
    BY <2>1, <2>3 DEF One
  <2>5. gen + One(hist = << >>) + 1 <= (streams + 1) + 1
    BY <1>1, <2>4 DEF CountType
  <2>6. streams \in Nat /\ streams + 1 \in Nat /\ streams + 1 <= MaxStreams /\ MaxStreams \in Nat
    BY <1>1, <2>1, BoundsAssumption DEF CountType
  <2>7. streaming' \in BOOLEAN
    BY <2>1, Zenon
  <2>8. gen' + One(hist' = << >>) + One(strm'.pc # "idle") <= streams' + 1
    BY <2>1, <2>4, <2>5
  <2>9. streams' \in Nat /\ streams' <= MaxStreams
    BY <2>1, <2>6
  <2>10. CountType'
    BY <1>1, <1>2, <2>1, <2>7, <2>8, <2>9 DEF CountType
  <2> QED BY <1>1, <1>3, <2>1, <2>3, <2>10 DEF TInv
<1>5. CASE StreamStart
  <2> DEFINE s == SessionFor(strm.p, ~Fails)
  <2>1. strm.p \in {Sh, Vi} /\ (~Fails) \in BOOLEAN /\ wm \in Nat /\ gen \in Nat /\ deep \in BOOLEAN
    BY <1>1 DEF StrmType, CountType
  <2>2. /\ HistoryOK(s.hist) /\ s.hist # << >>
        /\ s.wm \in Nat /\ s.deep \in BOOLEAN /\ s.gen = gen + One(hist = << >>)
    BY <1>1, <2>1, SessionIs
  <2>3. /\ hist' = s.hist /\ gen' = s.gen /\ wm' = s.wm /\ deep' = s.deep
        /\ strm' = [strm EXCEPT !.pc = "base", !.gen = s.gen]
        /\ streaming' = FALSE /\ streams' = streams /\ strm.pc = "start"
    BY <1>5 DEF StreamStart
  <2> HIDE DEF s
  <2>4. s.gen \in Nat
    BY <2>1, <2>2 DEF One
  <2>5. StrmType' /\ strm'.pc = "base"
    BY <1>1, <2>3, <2>4 DEF StrmType, StrmPcs
  <2>6. One(strm.pc # "idle") = 1 /\ One(strm'.pc # "idle") = 1 /\ One(hist' = << >>) = 0
    BY <2>2, <2>3, <2>5 DEF One
  <2>7. streaming' \in BOOLEAN
    BY <2>3, Zenon
  <2>8. gen' + One(hist' = << >>) + One(strm'.pc # "idle") <= streams' + 1
    BY <1>1, <2>2, <2>3, <2>4, <2>6 DEF CountType
  <2>9. CountType'
    BY <1>1, <1>2, <2>2, <2>3, <2>4, <2>7, <2>8 DEF CountType
  <2> QED BY <1>3, <2>2, <2>3, <2>5, <2>9 DEF TInv
<1> QED BY <1>4, <1>5

\* and all the steps of a stream.
LEMMA StreamSteps ==
  ASSUME TInv, \/ StreamOpen \/ StreamCancel \/ StreamStart \/ StreamBase \/ TickLines
               \/ EmitLine \/ StreamSave \/ StreamBaseFrames \/ TickFrames \/ StreamStop
  PROVE  TInv'
<1>1. HistoryOK(hist) /\ PaneType /\ PollType /\ StrmType /\ CountType
  BY DEF TInv
<1>2. wm \in Nat /\ strm.seen \in Nat
  BY <1>1 DEF CountType, StrmType
<1>3. CASE StreamCancel
  <2>1. PICK b \in BOOLEAN : strm' = [strm EXCEPT !.cancelled = b]
    BY <1>3, Zenon DEF StreamCancel
  <2>2. StrmType'
    BY <1>1, <2>1 DEF StrmType
  <2> QED BY <1>1, <1>2, <1>3, <2>2, StreamFeeds DEF StreamCancel, session, StreamOnly
<1>4. CASE StreamSave
  <2>1. StrmType'
    BY <1>1, <1>4 DEF StreamSave, StrmType, StrmPcs
  <2> QED BY <1>1, <1>2, <1>4, <2>1, StreamFeeds DEF StreamSave, StreamOnly
<1>5. CASE StreamStop
  <2>1. StrmType'
    BY <1>5 DEF StreamStop, StrmType, StrmIdle, StrmPcs
  <2> QED BY <1>1, <1>2, <1>5, <2>1, StreamFeeds DEF StreamStop, session, StreamOnly
<1> QED BY <1>3, <1>4, <1>5, StartTypes, TickTypes, EmitTypes, FrameTypes

\* Every step keeps the types.
LEMMA TypeStep == TInv /\ [Next]_vars => TInv'
<1> SUFFICES ASSUME TInv, [Next]_vars PROVE TInv'
  OBVIOUS
<1>1. HistoryOK(hist) /\ PaneType /\ PollType /\ StrmType /\ CountType
  BY DEF TInv
<1>2. CASE Output \/ Paint \/ Flip \/ Clear \/ End
  <2>1. PaneType'
    BY <1>2, PaneSteps
  <2>2. UNCHANGED <<session, streaming, poll, strm, streams>>
    BY <1>2 DEF Output, Paint, Flip, Clear, End, PaneOnly
  <2>3. flips' \in Nat /\ paints' \in Nat /\ clears' \in Nat
    BY <1>1, <1>2 DEF Output, Paint, Flip, Clear, End, CountType
  <2>4. CountType'
    BY <1>1, <2>2, <2>3 DEF CountType, session
  <2> QED BY <1>1, <2>1, <2>2, <2>4 DEF TInv, PollType, StrmType, session
<1>3. CASE \/ PollScan \/ PollSegment \/ PollCapture \/ PollAppend \/ PollSave \/ PollFrame
  BY <1>3, PollSteps
<1>4. CASE \/ StreamOpen \/ StreamCancel \/ StreamStart \/ StreamBase \/ TickLines
           \/ EmitLine \/ StreamSave \/ StreamBaseFrames \/ TickFrames \/ StreamStop
  BY <1>4, StreamSteps
<1>5. CASE UNCHANGED vars
  BY <1>1, <1>5 DEF vars, counts, session, TInv, PaneType, PollType, StrmType, CountType
<1> QED BY <1>2, <1>3, <1>4, <1>5 DEF Next

\* They are those of the model.
LEMMA TypeGives == TInv => TypeOK
<1> SUFFICES ASSUME TInv PROVE TypeOK
  OBVIOUS
<1>1. HistoryOK(hist) /\ PaneType /\ PollType /\ StrmType /\ CountType
  BY DEF TInv
<1>2. wm \in Nat /\ gen \in 0 .. MaxStreams + 1 /\ streams \in 0 .. MaxStreams
  <2>1. One(hist = << >>) \in {0, 1} /\ One(strm.pc # "idle") \in {0, 1} /\ MaxStreams \in Nat
    BY BoundsAssumption DEF One
  <2> QED BY <1>1, <2>1 DEF CountType
<1>3. poll.pc \in PollPcs /\ strm.pc \in StrmPcs /\ pane.hi \in 0 .. MaxLines
  BY <1>1, BoundsAssumption DEF PaneType, PollType, StrmType
<1>4. DOMAIN hist = 1 .. Len(hist)
  BY <1>1 DEF HistoryOK
<1>5. \A i \in 1 .. Len(hist) :
        Shaped(hist[i]) /\ (i > 1 => <<hist[i].prog, hist[i].kind>> # <<hist[i-1].prog, hist[i-1].kind>>)
  BY <1>1, Zenon DEF HistoryOK
<1> QED BY <1>2, <1>3, <1>4, <1>5, Zenon DEF TypeOK, Shaped, PollPcs, StrmPcs

\* The types hold for any caps, any frames and any number of lines, streams,
\* flips, paints and clears (the state of history.Store and tmux.Activity).
THEOREM TypeInvariant == Spec => []TInv
BY TypeInit, TypeStep, PTL DEF Spec

\* The state has its types: the segments of a history hold no more than their
\* caps, and no two equal frames stand next to each other (history.Store).
THEOREM TypeCorrect == Spec => []TypeOK
BY TypeInvariant, TypeGives, PTL

(***************************************************************************)
(* A poller alone stores every line once.                                  *)
(***************************************************************************)
LEMMA BelowKeeps ==
  ASSUME PaneType, PaneType', pane'.lo >= pane.lo, pane'.hi >= pane.hi,
         NEW L \in Nat, NEW w \in Nat, NEW v \in Nat, w <= v, Below(pane, L, w)
  PROVE  Below(pane', L, v)
<1>1. pane.lo \in Nat /\ pane.hi \in Nat /\ pane'.lo \in Nat /\ pane'.hi \in Nat
  BY DEF PaneType
<1>2. VP \in Nat /\ Cap \in Nat
  BY ScreenAssumption
<1> QED BY <1>1, <1>2 DEF Below

\* The same for a history.
LEMMA StoredKeeps ==
  ASSUME PaneType, PaneType', pane'.lo >= pane.lo, pane'.hi >= pane.hi,
         NEW h, NEW g, NEW w \in Nat, NEW v \in Nat, w <= v, StoredUpto(pane, h, w),
         SameRows(g, h)
  PROVE  StoredUpto(pane', g, v)
<1>1. LinesInOrder(g) /\ \A L : Has(g, L) => Has(h, L)
  BY SameRowsKeep DEF StoredUpto
<1>2. ASSUME NEW L \in Nat, IsLine(L), Has(g, L) PROVE Below(pane', L, v)
  <2>1. Below(pane, L, w)
    BY <1>1, <1>2, Zenon DEF StoredUpto
  <2> QED BY <2>1, BelowKeeps
<1> QED BY <1>1, <1>2, Zenon DEF StoredUpto

\* What was captured is still not in the history when the pane moves on.
LEMMA CapturedKeeps ==
  ASSUME PaneType, PaneType', pane'.lo >= pane.lo, pane'.hi >= pane.hi,
         NEW h, NEW w, NEW rows \in Seq(Nat), Captured(pane, h, w, rows)
  PROVE  Captured(pane', h, w, rows)
<1>1. ASSUME NEW i \in DOMAIN rows, IsLine(rows[i])
      PROVE  Below(pane', rows[i], Len(rows))
  <2>1. Below(pane, rows[i], Len(rows))
    BY <1>1, Zenon DEF Captured
  <2>2. rows[i] \in Nat /\ Len(rows) \in Nat /\ Len(rows) <= Len(rows)
    OBVIOUS
  <2> QED BY <2>1, <2>2, BelowKeeps
<1> QED BY <1>1, Zenon DEF Captured

\* The rows of a capture beyond the first that have been seen.
RestOf(new, rows, seen) ==
  /\ new \in Seq(Nat) /\ Len(new) \in Nat /\ DOMAIN new = 1 .. Len(new)
  /\ Len(new) = IF Len(rows) > seen THEN Len(rows) - seen ELSE 0
  /\ \A j \in 1 .. Len(new) :
       /\ seen + j \in 1 .. Len(rows) /\ seen + j > seen /\ j \in Nat
       /\ new[j] = rows[seen + j]
  /\ Ascending(rows) => Ascending(new)

\* The rows beyond the watermark.
LEMMA RestIs ==
  ASSUME NEW rows \in Seq(Nat), NEW seen \in Nat
  PROVE  RestOf(SubSeq(rows, seen + 1, Len(rows)), rows, seen)
<1> DEFINE n == Len(rows)
           m == seen + 1
           new == SubSeq(rows, m, n)
<1>1. n \in Nat /\ DOMAIN rows = 1 .. n /\ m \in Int /\ \A i \in 1 .. n : rows[i] \in Nat
  OBVIOUS
<1>2. \A i \in m .. n : i \in 1 .. n
  BY <1>1
<1>3. m = seen + 1
  OBVIOUS
<1> HIDE DEF n, m
<1>4. /\ new \in Seq(Nat)
      /\ \A i \in 1 .. n - m + 1 : new[i] = rows[m + i - 1]
      /\ Len(new) = IF m <= n THEN n - m + 1 ELSE 0
  <2>1. \A i \in m .. n : rows[i] \in Nat
    BY <1>1, <1>2, Zenon
  <2> QED BY <1>1, <2>1, SubSeqProperties
<1> HIDE DEF new
<1>5. /\ Len(new) \in Nat /\ DOMAIN new = 1 .. Len(new)
      /\ Len(new) = IF n > seen THEN n - seen ELSE 0
  BY <1>1, <1>3, <1>4
<1>6. ASSUME NEW j, j \in 1 .. Len(new)
      PROVE  /\ seen + j \in 1 .. n /\ seen + j > seen /\ j \in Nat
             /\ new[j] = rows[seen + j]
  <2>1. j \in Nat /\ j >= 1 /\ j <= Len(new)
    BY <1>5, <1>6
  <2>2. n > seen /\ seen + j \in 1 .. n /\ seen + j > seen
    BY <1>1, <1>5, <2>1
  <2>3. j \in 1 .. n - m + 1 /\ m + j - 1 = seen + j
    BY <1>1, <1>3, <1>5, <2>1, <2>2
  <2>4. new[j] = rows[m + j - 1]
    BY <1>4, <2>3
  <2> QED BY <2>1, <2>2, <2>3, <2>4
<1>7. ASSUME Ascending(rows) PROVE Ascending(new)
  <2> SUFFICES ASSUME NEW i, i \in 1 .. Len(new), NEW j, j \in 1 .. Len(new), i < j,
                      IsLine(new[i]), IsLine(new[j])
               PROVE  new[i] < new[j]
    BY <1>5 DEF Ascending
  <2>1. seen + i < seen + j
    BY <1>6
  <2> QED BY <1>1, <1>6, <1>7, <2>1, Zenon DEF Ascending
<1> QED BY <1>4, <1>5, <1>6, <1>7, Zenon DEF RestOf, new, n, m

\* A capture that is fed to the history from the watermark on.
LEMMA CapturedIsStored ==
  ASSUME PaneType, PaneType', UNCHANGED pane, HistoryOK(hist), NEW w \in Nat, NEW rows \in Seq(Nat),
         StoredUpto(pane, hist, w), Captured(pane, hist, w, rows),
         NEW seen, seen = IF w = 0 THEN Len(rows) ELSE w,
         NEW g, g = AppendLines(hist, SubSeq(rows, seen + 1, Len(rows))),
         NEW v \in Nat, w <= v, Len(rows) <= v
  PROVE  StoredUpto(pane, g, v)
<1> DEFINE n == Len(rows)
           new == SubSeq(rows, seen + 1, n)
<1>1. n \in Nat /\ seen \in Nat /\ DOMAIN rows = 1 .. n /\ (w = 0 => seen = n)
      /\ (w # 0 => seen = w)
  OBVIOUS
<1>2. /\ new \in Seq(Nat) /\ DOMAIN new = 1 .. Len(new)
      /\ \A j \in 1 .. Len(new) :
           seen + j \in 1 .. n /\ seen + j > seen /\ new[j] = rows[seen + j] /\ j \in Nat
      /\ Ascending(new)
  <2>1. RestOf(new, rows, seen)
    BY <1>1, RestIs
  <2> QED BY <2>1, Zenon DEF RestOf, Captured, n
<1>3. g = AppendLines(hist, new)
  OBVIOUS
<1> HIDE DEF n, new
<1>4. ASSUME NEW j, j \in DOMAIN new
      PROVE  seen + j \in DOMAIN rows /\ new[j] = rows[seen + j] /\ w # 0 /\ seen + j > w
  <2>1. seen + j \in 1 .. n /\ seen + j > seen /\ j \in Nat
    BY <1>2, <1>4
  <2>2. w # 0
    BY <1>1, <2>1
  <2> QED BY <1>1, <1>2, <1>4, <2>1, <2>2
<1>5. \A j \in DOMAIN new : IsLine(new[j]) =>
        \A L \in Nat : IsLine(L) /\ Has(hist, L) => L < new[j]
  BY <1>4, Zenon DEF Captured
<1>6. LinesInOrder(g)
  BY <1>2, <1>3, <1>5, LinesOrdered DEF StoredUpto
<1>7. ASSUME NEW L \in Nat, IsLine(L), Has(g, L) PROVE Below(pane, L, v)
  <2>1. CASE Has(hist, L)
    <3>1. Below(pane, L, w)
      BY <1>7, <2>1, Zenon DEF StoredUpto
    <3> QED BY <3>1, BelowKeeps DEF PaneType
  <2>2. CASE \E j \in DOMAIN new : new[j] = L
    <3>1. PICK j \in DOMAIN new : new[j] = L
      BY <2>2
    <3>2. Below(pane, L, n)
      BY <1>4, <1>7, <3>1, Zenon DEF Captured, n
    <3>3. n <= v
      BY DEF n
    <3> QED BY <1>1, <3>2, <3>3, BelowKeeps DEF PaneType
  <2>3. new \in Seq(Nat)
    BY <1>2
  <2>4. Has(hist, L) \/ \E j \in DOMAIN new : new[j] = L
    BY <1>3, <1>7, <2>3, LinesHas
  <2> QED BY <2>1, <2>2, <2>4
<1> QED BY <1>6, <1>7, Zenon DEF StoredUpto

\* At the start nothing is stored.
LEMMA StoreInit == Init => StoreInv
<1> SUFFICES ASSUME Init PROVE StoreInv
  OBVIOUS
<1>1. hist = << >> /\ strm.pc = "idle" /\ poll.pc = "idle"
  BY DEF Init, StrmIdle, PollIdle
<1> QED BY <1>1 DEF StoreInv, StoredUpto, LinesInOrder, Has

\* A step of the poller, on a pane that no stream has been opened for.
LEMMA StorePoll ==
  ASSUME TInv, TInv', StoreInv, streams = 0, ~deep',
         PollScan \/ PollSegment \/ PollCapture \/ PollAppend \/ PollSave \/ PollFrame
  PROVE  /\ StoredUpto(pane, hist', Covered')
         /\ poll'.pc = "append" => Captured(pane, hist', wm', poll'.rows)
<1>1. HistoryOK(hist) /\ PaneType /\ PaneType' /\ PollType /\ StrmType /\ CountType
      /\ PollType' /\ CountType'
  BY DEF TInv
<1>2. UNCHANGED <<pane, counts, streaming, strm>>
  BY DEF PollScan, PollSegment, PollCapture, PollAppend, PollSave, PollFrame, PollOnly
<1>3. pane' = pane /\ pane'.lo >= pane.lo /\ pane'.hi >= pane.hi
  BY <1>1, <1>2 DEF PaneType
<1>4. wm \in Nat /\ gen \in Nat /\ deep \in BOOLEAN /\ poll.seen \in Nat /\ poll.rows \in Seq(Nat)
      /\ pane.alive \in BOOLEAN /\ poll.p \in {Sh, Vi} /\ Covered \in Nat
  BY <1>1 DEF CountType, PaneType, PollType, Covered
<1>5. ASSUME ~deep
      PROVE  /\ StoredUpto(pane, hist, Covered)
             /\ poll.pc = "append" => Captured(pane, hist, wm, poll.rows)
  BY <1>5 DEF StoreInv
<1>6. CASE PollScan
  <2>1. UNCHANGED <<hist, wm, deep>> /\ poll.pc = "idle" /\ poll'.pc = "segment"
    BY <1>1, <1>6 DEF PollScan, session, PollType
  <2>2. Covered' = Covered
    BY <2>1 DEF Covered
  <2> QED BY <1>5, <2>1, <2>2
<1>7. CASE PollSegment
  <2> DEFINE s == SessionFor(poll.p, pane.alive)
  <2>1. /\ HistoryOK(s.hist) /\ s.hist # << >> /\ s.wm \in Nat
        /\ ~s.deep => ~deep
        /\ ~s.deep /\ StoredUpto(pane, hist, wm) => StoredUpto(pane, s.hist, s.wm)
    BY <1>1, <1>4, SessionIs
  <2>2. /\ hist' = ProgramChanged(s.hist, poll.p.prog, poll.p.kind)
        /\ wm' = s.wm /\ deep' = s.deep /\ poll.pc = "segment" /\ poll'.pc \in {"capture", "frame"}
    BY <1>1, <1>7 DEF PollSegment, PollType
  <2> HIDE DEF s
  <2>3. Covered = wm /\ Covered' = s.wm
    BY <2>2 DEF Covered
  <2>4. StoredUpto(pane, s.hist, s.wm)
    BY <1>5, <2>1, <2>2, <2>3
  <2>5. SameRows(hist', s.hist)
    BY <1>4, <2>1, <2>2, ProgramKeep
  <2>6. StoredUpto(pane', hist', s.wm)
    BY <1>1, <1>3, <2>1, <2>4, <2>5, StoredKeeps
  <2> QED BY <1>3, <2>2, <2>3, <2>6
<1>8. CASE PollCapture
  <2>1. UNCHANGED <<hist, wm, deep>> /\ poll.pc = "capture"
        /\ (poll' = [poll EXCEPT !.pc = "append", !.rows = Scrollback] \/ poll' = PollIdle)
    BY <1>8 DEF PollCapture, session
  <2>2. poll'.pc = "idle" \/ (poll'.pc = "append" /\ poll'.rows = Scrollback)
    <3>1. CASE poll' = [poll EXCEPT !.pc = "append", !.rows = Scrollback]
      BY <1>1, <3>1 DEF PollType
    <3>2. CASE poll' = PollIdle
      BY <3>2 DEF PollIdle
    <3> QED BY <2>1, <3>1, <3>2
  <2>3. Covered = wm /\ Covered' = wm
    BY <2>1, <2>2 DEF Covered
  <2>4. StoredUpto(pane, hist, wm)
    BY <1>5, <2>1, <2>3
  <2>5. Captured(pane, hist, wm, Scrollback)
    <3>1. Scrollback \in Seq(Nat) /\ DOMAIN Scrollback = 1 .. Len(Scrollback)
      BY <1>1, ScrollbackIs
    <3>2. Ascending(Scrollback)
      BY <1>1, ScrollbackAscends
    <3>3. \A i \in 1 .. Len(Scrollback) :
            IsLine(Scrollback[i]) => Below(pane, Scrollback[i], Len(Scrollback))
      BY <1>1, AllCounted
    <3>4. ASSUME NEW i, i \in 1 .. Len(Scrollback), IsLine(Scrollback[i]), i > wm,
                 NEW L \in Nat, IsLine(L), Has(hist, L)
          PROVE  L < Scrollback[i]
      <4>1. Below(pane, L, wm)
        BY <2>4, <3>4, Zenon DEF StoredUpto
      <4> QED BY <1>1, <1>4, <3>4, <4>1, NewerOnly
    <3> QED BY <3>1, <3>2, <3>3, <3>4, Zenon DEF Captured
  <2> QED BY <2>1, <2>2, <2>3, <2>4, <2>5
<1>9. CASE PollAppend
  <2> DEFINE n == Len(poll.rows)
             seen == IF wm = 0 THEN n ELSE wm
             new == AppendLines(hist, SubSeq(poll.rows, seen + 1, n))
             v == IF n > seen THEN n ELSE seen
  <2>1. /\ Feed(poll.gen, new) /\ poll.pc = "append"
        /\ poll' = [poll EXCEPT !.pc = "save", !.rows = << >>, !.seen = v]
        /\ UNCHANGED <<deep, wm>>
    BY <1>9 DEF PollAppend
  <2>2. poll'.pc = "save" /\ poll'.seen = v
    BY <1>1, <2>1 DEF PollType
  <2>3. n \in Nat /\ v \in Nat /\ wm <= v /\ n <= v
    <3>1. n \in Nat
      BY <1>4
    <3> HIDE DEF n
    <3> QED BY <1>4, <3>1
  <2>4. Covered = wm /\ Covered' = v
    BY <2>1, <2>2 DEF Covered
  <2>5. StoredUpto(pane, hist, wm) /\ Captured(pane, hist, wm, poll.rows)
    BY <1>5, <2>1, <2>4
  <2>6. StoredUpto(pane, new, v)
    <3> DEFINE rows == poll.rows
    <3>1. rows \in Seq(Nat) /\ seen = (IF wm = 0 THEN Len(rows) ELSE wm)
          /\ new = AppendLines(hist, SubSeq(rows, seen + 1, Len(rows)))
          /\ Len(rows) <= v /\ Captured(pane, hist, wm, rows)
      BY <1>4, <2>3, <2>5
    <3>2. UNCHANGED pane
      BY <1>3
    <3> HIDE DEF rows, seen, new, v, n
    <3> QED BY <1>1, <1>4, <2>3, <2>5, <3>1, <3>2, CapturedIsStored
  <2>7. StoredUpto(pane', hist, v)
    <3>1. SameRows(hist, hist)
      BY DEF SameRows
    <3> HIDE DEF v
    <3> QED BY <1>1, <1>3, <1>4, <2>3, <2>5, <3>1, StoredKeeps
  <2>8. hist' = hist \/ hist' = new
    BY <2>1, Zenon DEF Feed
  <2> HIDE DEF new, v
  <2> QED BY <1>3, <2>2, <2>4, <2>6, <2>7, <2>8
<1>10. CASE PollSave
  <2>1. UNCHANGED <<hist, deep>> /\ wm' = poll.seen /\ poll.pc = "save" /\ poll'.pc = "idle"
    BY <1>10 DEF PollSave, PollIdle
  <2>2. Covered' = Covered
    BY <2>1 DEF Covered
  <2> QED BY <1>5, <2>1, <2>2
<1>11. CASE PollFrame
  <2> DEFINE f == IF pane.alive THEN Viewport ELSE ErrText
             new == AppendFrame(hist, f)
  <2>1. UNCHANGED <<deep, wm>> /\ (UNCHANGED hist \/ Feed(poll.gen, new))
        /\ poll.pc = "frame" /\ poll'.pc = "idle"
    BY <1>11 DEF PollFrame, PollIdle
  <2>2. f \in Seq(Nat)
    BY <1>1, TextIs
  <2>3. SameRows(new, hist)
    <3> HIDE DEF f
    <3> QED BY <1>1, <2>2, FrameKeep
  <2> HIDE DEF new
  <2>4. Covered = wm /\ Covered' = wm
    BY <2>1 DEF Covered
  <2>5. StoredUpto(pane, hist, wm)
    BY <1>5, <2>1, <2>4
  <2>6. StoredUpto(pane', new, wm)
    BY <1>1, <1>3, <1>4, <2>3, <2>5, StoredKeeps
  <2>7. hist' = hist \/ hist' = new
    BY <2>1, Zenon DEF Feed
  <2> QED BY <1>3, <2>1, <2>4, <2>5, <2>6, <2>7
<1> QED BY <1>6, <1>7, <1>8, <1>9, <1>10, <1>11

\* Every step keeps what is stored in order and below the watermark.
LEMMA StoreStep == TInv /\ TInv' /\ StoreInv /\ [Next]_vars => StoreInv'
<1> SUFFICES ASSUME TInv, TInv', StoreInv, [Next]_vars PROVE StoreInv'
  OBVIOUS
<1>1. PaneType /\ PaneType' /\ PollType /\ CountType /\ streams \in Nat
  BY DEF TInv, CountType
<1>2. CASE Output \/ Paint \/ Flip \/ Clear \/ End
  <2>1. pane'.lo >= pane.lo /\ pane'.hi >= pane.hi
    BY <1>2, PaneSteps
  <2>2. UNCHANGED <<hist, gen, wm, deep, poll, strm, streams>>
    BY <1>2 DEF Output, Paint, Flip, Clear, End, PaneOnly, session
  <2>3. Covered' = Covered /\ Covered \in Nat /\ poll.rows \in Seq(Nat)
    BY <1>1, <2>2 DEF Covered, PollType, CountType
  <2>4. SameRows(hist, hist)
    BY DEF SameRows
  <2>5. streams = 0 /\ ~deep => StoredUpto(pane', hist, Covered)
    BY <1>1, <2>1, <2>3, <2>4, StoredKeeps DEF StoreInv
  <2>6. streams = 0 /\ ~deep /\ poll.pc = "append" => Captured(pane', hist, wm, poll.rows)
    BY <1>1, <2>1, <2>3, CapturedKeeps DEF StoreInv
  <2> QED BY <2>2, <2>3, <2>5, <2>6 DEF StoreInv
<1>3. CASE PollScan \/ PollSegment \/ PollCapture \/ PollAppend \/ PollSave \/ PollFrame
  <2>1. UNCHANGED <<pane, streams, strm>>
    BY <1>3 DEF PollScan, PollSegment, PollCapture, PollAppend, PollSave, PollFrame,
                PollOnly, counts
  <2>2. streams = 0 /\ ~deep' =>
          /\ StoredUpto(pane, hist', Covered')
          /\ poll'.pc = "append" => Captured(pane, hist', wm', poll'.rows)
    BY <1>3, StorePoll
  <2> QED BY <2>1, <2>2 DEF StoreInv
<1>4. CASE \/ StreamOpen \/ StreamCancel \/ StreamStart \/ StreamBase \/ TickLines
           \/ EmitLine \/ StreamSave \/ StreamBaseFrames \/ TickFrames \/ StreamStop
  <2>1. streams' # 0
    <3>1. streams = 0 => strm.pc = "idle"
      BY DEF StoreInv
    <3> QED BY <1>1, <1>4, <3>1
         DEF StreamOpen, StreamCancel, StreamStart, StreamBase, TickLines, EmitLine,
             StreamSave, StreamBaseFrames, TickFrames, StreamStop
  <2> QED BY <2>1 DEF StoreInv
<1>5. CASE UNCHANGED vars
  BY <1>5 DEF vars, counts, session, StoreInv, Covered
<1> QED BY <1>2, <1>3, <1>4, <1>5 DEF Next

\* While no stream has run and the capture was not widened, the poller stores
\* every line at most once and in order (the watermark of Activity.poll).
THEOREM PollerStoresOnce == Spec => []StoredOnce
<1>1. StoreInv => StoredOnce
  BY DEF StoreInv, StoredOnce, StoredUpto
<1>2. TInv /\ StoreInv /\ [Next]_vars => (TInv /\ StoreInv)'
  BY TypeStep, StoreStep
<1>3. Init => TInv /\ StoreInv
  BY TypeInit, StoreInit
<1> QED BY <1>1, <1>2, <1>3, PTL DEF Spec

(***************************************************************************)
(* A stream sends every line once.                                         *)
(***************************************************************************)
LEMMA SendInit == Init => SendInv
<1> SUFFICES ASSUME Init PROVE SendInv
  OBVIOUS
<1>1. strm.pc = "idle" /\ strm.sent = << >> /\ strm.rest = << >> /\ strm.base = 0
  BY DEF Init, StrmIdle
<1>2. pane.lo = 1 /\ pane.hi = 0
  BY DEF Init
<1>3. Ascending(strm.sent) /\ Ascending(strm.rest) /\ Older(strm.sent, strm.rest)
  BY <1>1 DEF Ascending, Older
<1>4. Screened
  BY <1>1, <1>2 DEF Screened
<1> QED BY <1>1, <1>3, <1>4 DEF SendInv, Started

\* Rows stay below the watermark when the pane moves on or it rises.
LEMMA UptoKeeps ==
  ASSUME PaneType, PaneType', pane'.lo >= pane.lo, pane'.hi >= pane.hi,
         NEW rows \in Seq(Nat), NEW w \in Nat, NEW v \in Nat, w <= v, RowsUpto(pane, rows, w)
  PROVE  RowsUpto(pane', rows, v)
<1> SUFFICES ASSUME NEW i \in DOMAIN rows, IsLine(rows[i]) PROVE Below(pane', rows[i], v)
  BY DEF RowsUpto
<1>1. rows[i] \in Nat
  OBVIOUS
<1>2. Below(pane, rows[i], w)
  BY Zenon DEF RowsUpto
<1> QED BY <1>1, <1>2, BelowKeeps

\* A step that leaves alone what the stream has sent and will send.
LEMMA SendKeeps ==
  ASSUME TInv, TInv', SendInv, pane'.lo >= pane.lo, pane'.hi >= pane.hi,
         strm'.sent = strm.sent, strm'.rest = strm.rest, strm'.seen = strm.seen,
         strm'.base = strm.base, strm'.p = strm.p, Started' => Started,
         flips' = 0 => flips = 0, clears' = 0 => clears = 0, Screened'
  PROVE  SendInv'
<1>1. PaneType /\ PaneType' /\ StrmType
  BY DEF TInv
<1>2. /\ strm.sent \in Seq(Nat) /\ strm.rest \in Seq(Nat) /\ strm.seen \in Nat
      /\ strm.base \in Nat /\ pane.hi \in Nat /\ pane'.hi \in Nat /\ Cap \in Nat
  BY <1>1, ScreenAssumption DEF StrmType, PaneType
<1>3. ASSUME Started', strm'.p = Sh PROVE Sending'
  <2>1. Sending
    BY <1>3 DEF SendInv
  <2>2. RowsUpto(pane, strm.sent, strm.seen) /\ RowsUpto(pane, strm.rest, strm.seen)
    BY <2>1, Zenon DEF Sending
  <2>3. strm.seen <= strm.seen
    BY <1>2
  <2>4. RowsUpto(pane', strm.sent, strm.seen) /\ RowsUpto(pane', strm.rest, strm.seen)
    BY <1>1, <1>2, <2>2, <2>3, UptoKeeps
  <2>5. flips' = 0 => /\ Below(pane', strm.base, strm.seen)
                      /\ After(strm.base, strm.sent) /\ After(strm.base, strm.rest)
    <3>1. flips = 0 => Below(pane, strm.base, strm.seen)
      BY <2>1, Zenon DEF Sending
    <3>2. flips = 0 => Below(pane', strm.base, strm.seen)
      BY <1>1, <1>2, <2>3, <3>1, BelowKeeps
    <3> QED BY <2>1, <3>2, Zenon DEF Sending
  <2>6. Exact' => Exact
    BY <1>2 DEF Exact
  <2> QED BY <2>1, <2>4, <2>5, <2>6, Zenon DEF Sending
<1> QED BY <1>3, Zenon DEF SendInv

\* A step after which the stream has sent nothing and will send nothing yet.
LEMMA SendNothing ==
  ASSUME strm'.sent = << >>, strm'.rest = << >>, ~(Started' /\ strm'.p = Sh), Screened'
  PROVE  SendInv'
BY DEF SendInv, Ascending, Older

\* The first capture of a stream of lines.
LEMMA BaseSends ==
  ASSUME TInv, TInv', SendInv, StreamBase, ~Fails
  PROVE  SendInv'
<1>1. PaneType /\ StrmType /\ CountType
  BY DEF TInv
<1>2. UNCHANGED <<pane, flips, paints, clears, poll>> /\ strm.pc = "base" /\ strm.p.kind = "lines"
  BY DEF StreamBase, StreamOnly
<1> DEFINE n == Len(Scrollback)
<1>3. strm' = [strm EXCEPT !.pc = "tick", !.seen = n, !.base = pane.hi]
  BY DEF StreamBase
<1>4. strm.sent = << >> /\ strm.rest = << >> /\ strm.p = Sh
  BY <1>1, <1>2 DEF StrmType, Vi
<1>5. /\ pane.lo \in Nat /\ pane.hi \in Nat /\ pane.lo >= 1 /\ pane.lo <= pane.hi + 1
      /\ Cap \in Nat /\ n \in Nat
  BY <1>1, TextIs, ScreenAssumption DEF PaneType
<1> HIDE DEF n
<1>6. /\ strm'.pc = "tick" /\ strm'.seen = n /\ strm'.base = pane.hi
      /\ strm'.sent = << >> /\ strm'.rest = << >> /\ strm'.p = Sh
  BY <1>1, <1>3, <1>4 DEF StrmType
<1>7. flips = 0 => pane.prog # "vi"
  BY <1>2, <1>4 DEF SendInv, Screened, Sh
<1>8. pane.prog # "vi" /\ pane.hi >= pane.lo => n = pane.hi - Above
  BY <1>1, ScrollbackIs, Zenon DEF n
<1>9. ASSUME flips = 0 PROVE Below(pane, pane.hi, n)
  <2>1. CASE pane.hi < pane.lo
    BY <1>5, <2>1 DEF Below
  <2>2. CASE pane.hi >= pane.lo
    BY <1>5, <1>7, <1>8, <1>9, <2>2 DEF Below, Above
  <2> QED BY <1>5, <2>1, <2>2
<1>10. ASSUME Exact' PROVE n = pane.hi + 0 + 0
  <2>1. flips = 0 /\ clears = 0 /\ pane.hi <= Cap /\ pane.hi > 0
    BY <1>2, <1>6, <1>10 DEF Exact
  <2>2. pane.lo = 1
    BY <2>1 DEF SendInv, Screened
  <2> QED BY <1>5, <1>7, <1>8, <2>1, <2>2 DEF Above
<1>11. Sending'
  <2>1. Len(<< >>) = 0 /\ DOMAIN << >> = {}
    OBVIOUS
  <2>2. RowsUpto(pane', strm'.sent, strm'.seen) /\ RowsUpto(pane', strm'.rest, strm'.seen)
        /\ After(strm'.base, strm'.sent) /\ After(strm'.base, strm'.rest)
        /\ Follow(strm'.base, strm'.sent)
        /\ Follow(strm'.base + Len(strm'.sent), strm'.rest)
    BY <1>6, <2>1 DEF RowsUpto, After, Follow
  <2>3. Exact' => strm'.seen = strm'.base + Len(strm'.sent) + Len(strm'.rest)
    BY <1>6, <1>10, <2>1, Zenon
  <2>4. flips' = 0 => Below(pane', strm'.base, strm'.seen)
    BY <1>2, <1>6, <1>9, Zenon
  <2> QED BY <2>2, <2>3, <2>4, Zenon DEF Sending
<1>12. Screened'
  BY <1>2, <1>4, <1>5, <1>6 DEF Screened, SendInv
<1>13. Ascending(strm'.sent) /\ Ascending(strm'.rest) /\ Older(strm'.sent, strm'.rest)
  BY <1>6 DEF Ascending, Older
<1> QED BY <1>11, <1>12, <1>13, Zenon DEF SendInv

\* A capture with rows beyond those seen.
LEMMA TickSends ==
  ASSUME TInv, TInv', SendInv, TickLines, ~Fails, Len(Scrollback) > strm.seen
  PROVE  SendInv'
<1>1. PaneType /\ StrmType /\ CountType /\ PaneType'
  BY DEF TInv
<1> DEFINE n == Len(Scrollback)
           more == SubSeq(Scrollback, strm.seen + 1, n)
<1>2. UNCHANGED <<pane, flips, paints, clears, poll>> /\ strm.pc = "tick" /\ strm.p.kind = "lines"
      /\ strm' = [strm EXCEPT !.pc = "emit", !.seen = n, !.rest = more]
  BY DEF TickLines, StreamOnly
<1>3. /\ strm.sent \in Seq(Nat) /\ strm.rest = << >> /\ strm.p = Sh /\ strm.seen \in Nat
      /\ strm.base \in Nat
  BY <1>1, <1>2 DEF StrmType, Vi
<1>4. /\ pane.lo \in Nat /\ pane.hi \in Nat /\ pane.lo >= 1 /\ pane.lo <= pane.hi + 1
      /\ Cap \in Nat /\ n \in Nat /\ Scrollback \in Seq(Nat)
  BY <1>1, TextIs, ScreenAssumption DEF PaneType
<1>5. RestOf(more, Scrollback, strm.seen)
  BY <1>3, <1>4, RestIs
<1>6. n > strm.seen
  OBVIOUS
<1>7. /\ more \in Seq(Nat) /\ DOMAIN more = 1 .. Len(more) /\ Ascending(more)
      /\ \A j \in DOMAIN more :
           /\ strm.seen + j \in 1 .. n /\ strm.seen + j > strm.seen /\ j \in Nat
           /\ more[j] = Scrollback[strm.seen + j]
  <2>1. Ascending(Scrollback)
    BY <1>1, ScrollbackAscends
  <2> QED BY <1>5, <2>1, Zenon DEF RestOf, n
<1>8. Len(more) = n - strm.seen
  <2>1. Len(more) = IF Len(Scrollback) > strm.seen THEN Len(Scrollback) - strm.seen ELSE 0
    BY <1>5, Zenon DEF RestOf
  <2> QED BY <1>6, <2>1
<1> HIDE DEF n, more
<1>9. /\ strm'.pc = "emit" /\ strm'.seen = n /\ strm'.base = strm.base
      /\ strm'.sent = strm.sent /\ strm'.rest = more /\ strm'.p = Sh
  BY <1>1, <1>2, <1>3 DEF StrmType
<1>10. Sending
  BY <1>2, <1>3 DEF SendInv, Started
<1>11. ASSUME NEW L \in Nat, Below(pane, L, strm.seen), NEW j \in DOMAIN more, IsLine(more[j])
       PROVE  L < more[j]
  <2> DEFINE i == strm.seen + j
  <2>1. i \in 1 .. Len(Scrollback) /\ i > strm.seen /\ more[j] = Scrollback[i]
    BY <1>7, Zenon DEF n
  <2> HIDE DEF i
  <2>2. IsLine(Scrollback[i])
    BY <1>11, <2>1, Zenon
  <2>3. L < Scrollback[i]
    BY <1>1, <1>3, <1>11, <2>1, <2>2, NewerOnly
  <2> QED BY <2>1, <2>3, Zenon
<1>12. Older(strm.sent, more)
  <2> SUFFICES ASSUME NEW i \in DOMAIN strm.sent, NEW j \in DOMAIN more,
                      IsLine(strm.sent[i]), IsLine(more[j])
               PROVE  strm.sent[i] < more[j]
    BY DEF Older
  <2>1. Below(pane, strm.sent[i], strm.seen)
    BY <1>10, Zenon DEF Sending, RowsUpto
  <2>2. strm.sent[i] \in Nat
    BY <1>3
  <2> QED BY <1>11, <2>1, <2>2
<1>13. RowsUpto(pane, strm.sent, n)
  <2>1. RowsUpto(pane, strm.sent, strm.seen)
    BY <1>10, Zenon DEF Sending
  <2>2. strm.seen <= n /\ pane' = pane /\ pane'.lo >= pane.lo /\ pane'.hi >= pane.hi
    BY <1>2, <1>3, <1>4, <1>6
  <2>3. RowsUpto(pane', strm.sent, n)
    BY <1>1, <1>3, <1>4, <2>1, <2>2, UptoKeeps
  <2> QED BY <2>2, <2>3
<1>14. RowsUpto(pane, more, n)
  BY <1>1, <1>7, AllCounted DEF RowsUpto, n
<1>15. ASSUME flips = 0
       PROVE  Below(pane, strm.base, n) /\ After(strm.base, strm.sent) /\ After(strm.base, more)
  <2>1. Below(pane, strm.base, strm.seen) /\ After(strm.base, strm.sent)
    BY <1>10, <1>15, Zenon DEF Sending
  <2>2. strm.seen <= n /\ pane' = pane /\ pane'.lo >= pane.lo /\ pane'.hi >= pane.hi
    BY <1>2, <1>3, <1>4, <1>6
  <2>3. Below(pane', strm.base, n)
    BY <1>1, <1>3, <1>4, <2>1, <2>2, BelowKeeps
  <2>4. \A j \in DOMAIN more : IsLine(more[j]) => strm.base < more[j]
    BY <1>3, <1>11, <2>1
  <2>5. \A j \in DOMAIN more : more[j] \in Nat
    BY <1>7
  <2>6. After(strm.base, more)
    BY <1>3, <2>4, <2>5 DEF After
  <2> QED BY <2>1, <2>2, <2>3, <2>6
<1>16. ASSUME Exact
       PROVE  /\ n = strm.base + Len(strm.sent) + Len(more)
              /\ Follow(strm.base, strm.sent)
              /\ Follow(strm.base + Len(strm.sent), more)
  <2>1. flips = 0 /\ clears = 0 /\ pane.hi <= Cap /\ strm.base > 0 /\ strm.base <= pane.hi
        /\ pane.lo = 1 /\ pane.prog = "sh"
    BY <1>2, <1>3, <1>16 DEF Exact, SendInv, Screened, Sh
  <2>2. Above = 0 /\ pane.hi >= pane.lo /\ pane.prog # "vi"
    BY <1>3, <1>4, <2>1 DEF Above
  <2>3. \A i \in 1 .. n : Scrollback[i] = Above + i
    BY <1>1, <2>2, ScrollbackIs, Zenon DEF n
  <2>4. strm.seen = strm.base + Len(strm.sent) + Len(strm.rest) /\ Follow(strm.base, strm.sent)
    BY <1>10, <1>16, Zenon DEF Sending
  <2>5. strm.seen = strm.base + Len(strm.sent) /\ Len(strm.sent) \in Nat
    <3>1. Len(strm.rest) = 0
      BY <1>3
    <3> QED BY <1>3, <2>4, <3>1
  <2>6. Follow(strm.base + Len(strm.sent), more)
    <3>1. ASSUME NEW j \in DOMAIN more PROVE more[j] = strm.seen + j
      <4>1. more[j] = Above + (strm.seen + j) /\ j \in Nat
        BY <1>7, <2>3
      <4> QED BY <1>3, <2>2, <4>1
    <3> QED BY <2>5, <3>1, Zenon DEF Follow
  <2>7. n = strm.base + Len(strm.sent) + Len(more)
    BY <1>3, <1>4, <1>8, <2>5
  <2> QED BY <2>4, <2>6, <2>7
<1>17. Sending'
  <2>1. Exact' => Exact
    BY <1>2, <1>9 DEF Exact
  <2> QED BY <1>2, <1>9, <1>13, <1>14, <1>15, <1>16, <2>1, Zenon DEF Sending
<1>18. Screened'
  BY <1>2, <1>3, <1>9 DEF Screened, SendInv
<1>19. Ascending(strm.sent)
  BY DEF SendInv
<1> QED BY <1>7, <1>9, <1>12, <1>17, <1>18, <1>19, Zenon DEF SendInv

\* The next row is sent.
LEMMA RowSends ==
  ASSUME TInv, TInv', SendInv, EmitLine, strm'.pc # "idle"
  PROVE  SendInv'
<1> DEFINE row == Head(strm.rest)
           rest == Tail(strm.rest)
           sent == IF row = Blank THEN strm.sent ELSE Append(strm.sent, row)
           pc == IF rest = << >> THEN "save" ELSE "emit"
<1>1. PaneType /\ StrmType
  BY DEF TInv
<1>2. UNCHANGED <<pane, flips, paints, clears, poll>> /\ strm.pc = "emit"
  BY DEF EmitLine, StreamOnly
<1>3. /\ row \in Nat /\ rest \in Seq(Nat) /\ strm.sent \in Seq(Nat) /\ strm.p = Sh
      /\ Len(strm.rest) \in Nat /\ Len(strm.rest) >= 1
      /\ Len(rest) = Len(strm.rest) - 1 /\ row = strm.rest[1]
      /\ \A i \in 1 .. Len(rest) : rest[i] = strm.rest[i + 1]
  BY EmitIs
<1>4. /\ strm'.rest = rest /\ strm'.sent = sent /\ strm'.p = Sh /\ strm'.seen = strm.seen
      /\ strm'.base = strm.base /\ Started'
  <2>1. strm' # StrmIdle
    BY DEF StrmIdle
  <2>2. strm' = [strm EXCEPT !.rest = rest,
                   !.sent = IF row = Blank THEN @ ELSE Append(@, row),
                   !.pc = IF rest = << >> THEN "save" ELSE "emit"]
    BY <2>1 DEF EmitLine
  <2>3. strm' = [strm EXCEPT !.rest = rest, !.sent = sent, !.pc = pc]
    BY <2>2
  <2>4. pc \in {"save", "emit"}
    OBVIOUS
  <2> HIDE DEF row, rest, sent, pc
  <2> QED BY <1>1, <1>3, <2>3, <2>4 DEF StrmType, Started
<1>5. /\ strm.base \in Nat /\ strm.seen \in Nat /\ strm.rest \in Seq(Nat)
      /\ DOMAIN strm.rest = 1 .. Len(strm.rest) /\ DOMAIN rest = 1 .. Len(rest)
      /\ Len(rest) \in Nat /\ Len(strm.sent) \in Nat /\ DOMAIN strm.sent = 1 .. Len(strm.sent)
  BY <1>1, <1>3 DEF StrmType
<1>6. Sending /\ Ascending(strm.sent) /\ Ascending(strm.rest) /\ Older(strm.sent, strm.rest)
  BY <1>2, <1>3 DEF SendInv, Started
<1> HIDE DEF row, rest
<1>7. \A j \in DOMAIN rest : j + 1 \in DOMAIN strm.rest /\ rest[j] = strm.rest[j + 1]
                             /\ 1 < j + 1 /\ j \in Nat
  <2> DEFINE m == Len(rest)
  <2>1. m \in Nat /\ Len(strm.rest) = m + 1 /\ DOMAIN rest = 1 .. m
        /\ DOMAIN strm.rest = 1 .. m + 1 /\ \A i \in 1 .. m : rest[i] = strm.rest[i + 1]
    BY <1>3, <1>5
  <2> HIDE DEF m
  <2>2. \A j \in 1 .. m : j + 1 \in 1 .. m + 1 /\ 1 < j + 1 /\ j \in Nat
    BY <2>1
  <2> QED BY <2>1, <2>2, Zenon
<1>8. 1 \in DOMAIN strm.rest
  BY <1>3, <1>5
<1>9. \/ row = Blank /\ sent = strm.sent
      \/ /\ row # Blank /\ sent \in Seq(Nat) /\ Len(sent) = Len(strm.sent) + 1
         /\ DOMAIN sent = 1 .. Len(strm.sent) + 1
         /\ \A i \in 1 .. Len(strm.sent) : sent[i] = strm.sent[i]
         /\ sent[Len(strm.sent) + 1] = row
  <2>1. /\ Append(strm.sent, row) \in Seq(Nat) /\ Len(Append(strm.sent, row)) = Len(strm.sent) + 1
        /\ DOMAIN Append(strm.sent, row) = 1 .. Len(strm.sent) + 1
        /\ \A i \in 1 .. Len(strm.sent) : Append(strm.sent, row)[i] = strm.sent[i]
        /\ Append(strm.sent, row)[Len(strm.sent) + 1] = row
    BY <1>3, <1>5, AppendProperties
  <2> QED BY <2>1, Zenon
<1> HIDE DEF sent
\* A row sent was sent before, or is the one that was due.
<1>10. \A i \in DOMAIN sent : (i \in DOMAIN strm.sent /\ sent[i] = strm.sent[i])
                             \/ (i = Len(strm.sent) + 1 /\ sent[i] = row)
  <2>1. \A i \in 1 .. Len(strm.sent) + 1 : i \in 1 .. Len(strm.sent) \/ i = Len(strm.sent) + 1
    BY <1>5
  <2> QED BY <1>5, <1>9, <2>1, Zenon
<1>11. Ascending(rest)
  <2> SUFFICES ASSUME NEW i \in DOMAIN rest, NEW j \in DOMAIN rest, i < j, IsLine(rest[i]),
                      IsLine(rest[j])
               PROVE  rest[i] < rest[j]
    BY DEF Ascending
  <2>1. i + 1 < j + 1
    BY <1>7
  <2> QED BY <1>6, <1>7, <2>1, Zenon DEF Ascending
<1>12. ASSUME NEW i \in DOMAIN strm.sent, IsLine(strm.sent[i]), IsLine(row)
       PROVE  strm.sent[i] < row
  BY <1>3, <1>6, <1>8, <1>12, Zenon DEF Older
<1>13. Ascending(sent)
  <2> SUFFICES ASSUME NEW i \in DOMAIN sent, NEW j \in DOMAIN sent, i < j, IsLine(sent[i]),
                      IsLine(sent[j])
               PROVE  sent[i] < sent[j]
    BY DEF Ascending
  <2>1. CASE j \in DOMAIN strm.sent /\ sent[j] = strm.sent[j]
    <3>1. i \in DOMAIN strm.sent /\ sent[i] = strm.sent[i]
      <4>1. ~(i = Len(strm.sent) + 1)
        BY <1>5, <2>1
      <4> QED BY <1>10, <4>1
    <3> QED BY <1>6, <2>1, <3>1, Zenon DEF Ascending
  <2>2. CASE j = Len(strm.sent) + 1 /\ sent[j] = row
    <3>1. i \in DOMAIN strm.sent /\ sent[i] = strm.sent[i]
      <4>1. ~(i = Len(strm.sent) + 1)
        BY <1>5, <2>2
      <4> QED BY <1>10, <4>1
    <3> QED BY <1>12, <2>2, <3>1, Zenon
  <2> QED BY <1>10, <2>1, <2>2
<1>14. Older(sent, rest)
  <2> SUFFICES ASSUME NEW i \in DOMAIN sent, NEW j \in DOMAIN rest, IsLine(sent[i]),
                      IsLine(rest[j])
               PROVE  sent[i] < rest[j]
    BY DEF Older
  <2>1. CASE i \in DOMAIN strm.sent /\ sent[i] = strm.sent[i]
    BY <1>6, <1>7, <2>1, Zenon DEF Older
  <2>2. CASE sent[i] = row
    BY <1>3, <1>6, <1>7, <1>8, <2>2, Zenon DEF Ascending
  <2> QED BY <1>10, <2>1, <2>2
<1>15. RowsUpto(pane, sent, strm.seen) /\ RowsUpto(pane, rest, strm.seen)
  BY <1>3, <1>6, <1>7, <1>8, <1>10, Zenon DEF Sending, RowsUpto
<1>16. flips = 0 => /\ Below(pane, strm.base, strm.seen)
                    /\ After(strm.base, sent) /\ After(strm.base, rest)
  BY <1>3, <1>6, <1>7, <1>8, <1>10, Zenon DEF Sending, After
<1>17. ASSUME Exact
       PROVE  /\ strm.seen = strm.base + Len(sent) + Len(rest)
              /\ Follow(strm.base, sent)
              /\ Follow(strm.base + Len(sent), rest)
  <2>1. /\ strm.seen = strm.base + Len(strm.sent) + Len(strm.rest)
        /\ Follow(strm.base, strm.sent)
        /\ Follow(strm.base + Len(strm.sent), strm.rest)
    BY <1>6, <1>17, Zenon DEF Sending
  <2>2. row = strm.base + Len(strm.sent) + 1
    BY <1>3, <1>8, <2>1, Zenon DEF Follow
  <2>3. row # Blank
    BY <1>5, <2>2 DEF Blank
  <2>4. Len(sent) = Len(strm.sent) + 1
    BY <1>9, <2>3
  <2> DEFINE b == strm.base
             k == Len(strm.sent)
             m == Len(rest)
  <2>5. b \in Nat /\ k \in Nat /\ m \in Nat /\ Len(strm.rest) = m + 1
    BY <1>3, <1>5
  <2> HIDE DEF b, k, m
  <2>6. \A i \in DOMAIN sent : sent[i] = strm.base + i
    <3>1. \A i \in DOMAIN strm.sent : strm.sent[i] = strm.base + i
      BY <2>1 DEF Follow
    <3>2. row = b + (k + 1)
      <4>1. row = b + k + 1
        BY <2>2 DEF b, k
      <4> QED BY <2>5, <4>1
    <3> QED BY <1>10, <3>1, <3>2, Zenon DEF b, k
  <2>7. \A j \in DOMAIN rest : rest[j] = strm.base + Len(sent) + j
    <3> SUFFICES ASSUME NEW j \in DOMAIN rest PROVE rest[j] = strm.base + Len(sent) + j
      OBVIOUS
    <3>1. rest[j] = b + k + (j + 1) /\ j \in Nat
      BY <1>7, <2>1, Zenon DEF Follow, b, k
    <3>2. rest[j] = b + (k + 1) + j
      BY <2>5, <3>1
    <3> QED BY <2>4, <3>2 DEF b, k
  <2>8. strm.seen = strm.base + Len(sent) + Len(rest)
    <3>1. strm.seen = b + k + (m + 1)
      BY <2>1, <2>5 DEF b, k
    <3>2. strm.seen = b + (k + 1) + m
      BY <2>5, <3>1
    <3> QED BY <2>4, <3>2 DEF b, k, m
  <2> QED BY <2>6, <2>7, <2>8, Zenon DEF Follow
<1>18. Sending'
  <2>1. Exact' => Exact
    BY <1>2, <1>4 DEF Exact
  <2> QED BY <1>2, <1>4, <1>15, <1>16, <1>17, <2>1, Zenon DEF Sending
<1>19. Screened'
  BY <1>2, <1>3, <1>4 DEF Screened, SendInv
<1> QED BY <1>4, <1>11, <1>13, <1>14, <1>18, <1>19, Zenon DEF SendInv

\* Every step keeps what is sent in order and below the watermark.
LEMMA SendStep == TInv /\ TInv' /\ SendInv /\ [Next]_vars => SendInv'
<1> SUFFICES ASSUME TInv, TInv', SendInv, [Next]_vars PROVE SendInv'
  OBVIOUS
<1>1. PaneType /\ PaneType' /\ StrmType /\ CountType /\ Screened
  BY DEF TInv, SendInv
<1>2. pane.lo \in Nat /\ pane.hi \in Nat /\ flips \in Nat /\ clears \in Nat /\ strm.base \in Nat
      /\ strm.p \in {Sh, Vi}
  BY <1>1 DEF PaneType, CountType, StrmType
\* What a step of the stream or of the poller leaves alone.
<1>3. ASSUME UNCHANGED <<pane, flips, clears>>
      PROVE  /\ pane'.lo >= pane.lo /\ pane'.hi >= pane.hi
             /\ flips' = 0 => flips = 0
             /\ clears' = 0 => clears = 0
  BY <1>2, <1>3
<1>4. CASE Output \/ Paint \/ Flip \/ Clear \/ End
  <2>1. pane'.lo >= pane.lo /\ pane'.hi >= pane.hi
    BY <1>4, PaneSteps
  <2>2. UNCHANGED strm
    BY <1>4 DEF Output, Paint, Flip, Clear, End, PaneOnly
  <2>3. /\ flips' = 0 => flips = 0 /\ pane'.prog = pane.prog
        /\ clears' = 0 => clears = 0 /\ pane'.lo = pane.lo
    BY <1>1, <1>2, <1>4 DEF Output, Paint, Flip, Clear, End, PaneType
  <2>4. strm.base <= pane'.hi
    BY <1>1, <1>2, <2>1 DEF Screened, PaneType
  <2>5. Screened'
    BY <1>1, <2>2, <2>3, <2>4 DEF Screened
  <2> QED BY <2>1, <2>2, <2>3, <2>5, SendKeeps DEF Started
<1>5. CASE PollScan \/ PollSegment \/ PollCapture \/ PollAppend \/ PollSave \/ PollFrame
  <2>1. UNCHANGED <<pane, flips, clears, strm>>
    BY <1>5 DEF PollScan, PollSegment, PollCapture, PollAppend, PollSave, PollFrame,
                PollOnly, counts
  <2>2. Screened'
    BY <1>1, <2>1 DEF Screened
  <2> QED BY <1>3, <2>1, <2>2, SendKeeps DEF Started
<1>6. CASE /\ UNCHANGED <<pane, flips, clears>>
           /\ strm' = StrmIdle
  <2>1. strm'.pc = "idle" /\ strm'.sent = << >> /\ strm'.rest = << >> /\ strm'.base = 0
    BY <1>6 DEF StrmIdle
  <2>2. Screened'
    BY <1>1, <1>2, <1>6, <2>1 DEF Screened
  <2> QED BY <2>1, <2>2, SendNothing DEF Started
<1>7. CASE StreamOpen
  <2>1. UNCHANGED <<pane, flips, clears>> /\ strm' = [StrmIdle EXCEPT !.pc = "start", !.p = Snapshot]
    BY <1>7 DEF StreamOpen, StreamOnly
  <2>2. strm'.pc = "start" /\ strm'.sent = << >> /\ strm'.rest = << >> /\ strm'.base = 0
        /\ strm'.p = Snapshot
    BY <2>1 DEF StrmIdle
  <2>3. Snapshot.prog = pane.prog
    BY <1>1, SnapshotIs DEF PaneType, Progs
  <2>4. Screened'
    BY <1>1, <1>2, <2>1, <2>2, <2>3 DEF Screened
  <2> QED BY <2>2, <2>4, SendNothing DEF Started
<1>8. CASE StreamCancel \/ StreamStart \/ StreamSave
  <2>1. /\ UNCHANGED <<pane, flips, clears>> /\ strm.pc # "idle"
        /\ strm'.sent = strm.sent /\ strm'.rest = strm.rest /\ strm'.seen = strm.seen
        /\ strm'.base = strm.base /\ strm'.p = strm.p /\ (Started' => Started)
    <3>1. CASE StreamCancel
      BY <1>1, <3>1 DEF StreamCancel, StreamOnly, StrmType, Started
    <3>2. CASE StreamStart
      BY <1>1, <3>2 DEF StreamStart, StreamOnly, StrmType, Started
    <3>3. CASE StreamSave
      BY <1>1, <3>3 DEF StreamSave, StreamOnly, StrmType, Started
    <3> QED BY <1>8, <3>1, <3>2, <3>3
  <2>2. Screened'
    BY <1>1, <2>1 DEF Screened
  <2> QED BY <1>3, <2>1, <2>2, SendKeeps
<1>9. CASE StreamBase
  <2>1. CASE Fails
    BY <1>6, <1>9, <2>1 DEF StreamBase, StreamOnly
  <2> QED BY <1>9, <2>1, BaseSends
<1>10. CASE TickLines
  <2>1. CASE Fails
    BY <1>6, <1>10, <2>1 DEF TickLines, StreamOnly
  <2>2. CASE ~Fails /\ Len(Scrollback) > strm.seen
    BY <1>10, <2>2, TickSends
  <2>3. CASE ~Fails /\ ~(Len(Scrollback) > strm.seen)
    <3>1. UNCHANGED <<pane, flips, clears, strm>>
      BY <1>10, <2>3 DEF TickLines, StreamOnly
    <3>2. Screened'
      BY <1>1, <3>1 DEF Screened
    <3> QED BY <1>3, <3>1, <3>2, SendKeeps DEF Started
  <2> QED BY <2>1, <2>2, <2>3
<1>11. CASE EmitLine
  <2>1. CASE strm'.pc # "idle"
    BY <1>11, <2>1, RowSends
  <2>2. CASE strm'.pc = "idle"
    <3>1. UNCHANGED <<pane, flips, clears>>
      BY <1>11 DEF EmitLine, StreamOnly
    <3>2. \/ strm' = StrmIdle
          \/ strm'.pc = IF Tail(strm.rest) = << >> THEN "save" ELSE "emit"
      BY <1>1, <1>11 DEF EmitLine, StrmType
    <3> QED BY <1>6, <2>2, <3>1, <3>2
  <2> QED BY <2>1, <2>2
<1>12. CASE StreamBaseFrames
  <2>1. /\ UNCHANGED <<pane, flips, clears>> /\ strm.pc = "base" /\ strm.p.kind = "frames"
        /\ strm'.sent = strm.sent /\ strm'.rest = strm.rest /\ strm'.base = pane.hi
        /\ strm'.p = strm.p
    BY <1>1, <1>12 DEF StreamBaseFrames, StreamOnly, StrmType
  <2>2. strm.p # Sh /\ strm.sent = << >> /\ strm.rest = << >>
    BY <1>1, <2>1 DEF Sh, StrmType
  <2>3. Screened'
    BY <1>1, <1>2, <2>1 DEF Screened
  <2> QED BY <2>1, <2>2, <2>3, SendNothing
<1>13. CASE TickFrames
  <2>1. CASE strm' = StrmIdle
    BY <1>6, <1>13, <2>1 DEF TickFrames, StreamOnly
  <2>2. CASE strm' # StrmIdle
    <3>1. /\ UNCHANGED <<pane, flips, clears>> /\ strm.pc # "idle"
          /\ strm'.sent = strm.sent /\ strm'.rest = strm.rest /\ strm'.seen = strm.seen
          /\ strm'.base = strm.base /\ strm'.p = strm.p /\ strm'.pc = strm.pc
      BY <1>1, <1>13, <2>2 DEF TickFrames, StreamOnly, StrmType
    <3>2. Screened'
      BY <1>1, <3>1 DEF Screened
    <3> QED BY <1>3, <3>1, <3>2, SendKeeps DEF Started
  <2> QED BY <2>1, <2>2
<1>14. CASE StreamStop
  BY <1>6, <1>14 DEF StreamStop, StreamOnly
<1>15. CASE UNCHANGED vars
  <2>1. UNCHANGED <<pane, flips, clears, strm>>
    BY <1>15 DEF vars, counts
  <2>2. Screened'
    BY <1>1, <2>1 DEF Screened
  <2> QED BY <1>3, <2>1, <2>2, SendKeeps DEF Started
<1> QED BY <1>4, <1>5, <1>7, <1>8, <1>9, <1>10, <1>11, <1>12, <1>13, <1>14, <1>15 DEF Next

\* That is what is promised of a stream.
LEMMA SendGives == TInv /\ SendInv => SentOnce
<1> SUFFICES ASSUME TInv, SendInv PROVE SentOnce
  OBVIOUS
<1>1. StrmType
  BY DEF TInv
<1>2. CASE Started /\ strm.p = Sh
  BY <1>2, Zenon DEF SendInv, Sending, SentOnce, Ascending, After, Follow, Exact
<1>3. CASE ~(Started /\ strm.p = Sh)
  <2>1. strm.sent = << >>
    BY <1>1, <1>3 DEF StrmType, StrmPcs, Started
  <2> QED BY <2>1 DEF SentOnce
<1> QED BY <1>2, <1>3

\* A stream sends every line at most once and in order, only lines that came
\* after it began while the program stayed the same, and all of them while the
\* scrollback holds them (the watermark of StreamHistory).
THEOREM StreamSendsOnce == Spec => []SentOnce
<1>1. TInv /\ SendInv /\ [Next]_vars => (TInv /\ SendInv)'
  BY TypeStep, SendStep
<1>2. Init => TInv /\ SendInv
  BY TypeInit, SendInit
<1> QED BY <1>1, <1>2, SendGives, PTL DEF Spec

(***************************************************************************)
(* What the differences of frames show.                                    *)
(***************************************************************************)
Common(a, b, n) == \A i \in 1 .. n : a[i] = b[i]

Shorter(a, b) == IF Len(a) < Len(b) THEN Len(a) ELSE Len(b)

\* The rows two frames begin with.
LEMMA SharedPrefixIs ==
  ASSUME NEW a, NEW b, Len(a) \in Nat, Len(b) \in Nat
  PROVE  SharedPrefix(a, b) \in 0 .. Shorter(a, b) /\ Common(a, b, SharedPrefix(a, b))
<1> DEFINE most == Shorter(a, b)
           Longest(n) == Common(a, b, n) /\ (n < most => a[n + 1] # b[n + 1])
<1>1. most \in Nat
  BY DEF Shorter
<1>2. SharedPrefix(a, b) = CHOOSE n \in 0 .. most : Longest(n)
  BY DEF SharedPrefix, Shorter, Common
<1> HIDE DEF most
<1>3. \E n \in 0 .. most : Longest(n)
  <2> SUFFICES ASSUME \A n \in 0 .. most : ~Longest(n) PROVE FALSE
    OBVIOUS
  <2> DEFINE S == {n \in Nat : n <= most => Common(a, b, n)}
  <2>1. 0 \in S
    BY <1>1 DEF Common
  <2>2. \A n \in Nat : n \in S => n + 1 \in S
    <3> SUFFICES ASSUME NEW n \in Nat, n + 1 <= most, Common(a, b, n)
                 PROVE  Common(a, b, n + 1)
      BY <1>1
    <3>1. n \in 0 .. most /\ n < most
      BY <1>1
    <3>2. a[n + 1] = b[n + 1]
      BY <3>1
    <3>3. \A i \in 1 .. n + 1 : i \in 1 .. n \/ i = n + 1
      OBVIOUS
    <3> QED BY <3>2, <3>3, Zenon DEF Common
  <2>3. Nat \subseteq S
    <3> HIDE DEF S
    <3> QED BY <2>1, <2>2, Induct
  <2>4. Longest(most) /\ most \in 0 .. most
    BY <1>1, <2>3
  <2> QED BY <2>4
<1> HIDE DEF Longest
<1>4. SharedPrefix(a, b) \in 0 .. most /\ Longest(SharedPrefix(a, b))
  BY <1>2, <1>3
<1> QED BY <1>4, Zenon DEF Longest, most

\* The rows of s from the k-th on.
LEMMA FromIs ==
  ASSUME NEW s \in Seq(Nat), NEW k \in Nat, k <= Len(s)
  PROVE  LET t == SubSeq(s, k + 1, Len(s)) IN
         /\ t \in Seq(Nat) /\ Len(t) = Len(s) - k
         /\ \A i \in 1 .. Len(t) : t[i] = s[k + i]
<1> DEFINE t == SubSeq(s, k + 1, Len(s))
<1>1. RestOf(t, s, k)
  BY RestIs
<1>2. Len(t) = IF Len(s) > k THEN Len(s) - k ELSE 0
  BY <1>1, Zenon DEF RestOf
<1>3. Len(s) \in Nat
  OBVIOUS
<1>4. Len(t) = Len(s) - k
  <2> HIDE DEF t
  <2> QED BY <1>2, <1>3
<1> QED BY <1>1, <1>4, Zenon DEF RestOf

\* What can stand in a row that is read back.
Text == Nat \cup {Omitted}

\* Rows of the screen are such rows.
LEMMA RowsAreText ==
  ASSUME NEW s \in Seq(Nat)
  PROVE  s \in Seq(Text)
BY DEF Text

\* No row that is read back is a gap.
LEMMA TextIsNoGap == Text \subseteq Int /\ Gap \in Int /\ Gap \notin Text
BY DEF Text, Gap, Omitted

\* The rows of a frame that the one before did not have have changed.
LEMMA ChangedIs ==
  ASSUME NEW a \in Seq(Nat), NEW b \in Seq(Nat)
  PROVE  /\ ChangedRows(a, b) \in Seq(Nat)
         /\ ToSet(b) \subseteq ToSet(ChangedRows(a, b)) \cup ToSet(a)
<1> DEFINE lo == SharedPrefix(a, b)
           a1 == SubSeq(a, lo + 1, Len(a))
           b1 == SubSeq(b, lo + 1, Len(b))
           hi == SharedSuffix(a1, b1)
           d == SubSeq(b1, 1, Len(b1) - hi)
           la == Len(a)
           lb == Len(b)
<1>1. la \in Nat /\ lb \in Nat /\ DOMAIN a = 1 .. la /\ DOMAIN b = 1 .. lb
  OBVIOUS
<1>2. lo \in Nat /\ lo <= la /\ lo <= lb /\ Common(a, b, lo)
  <2>1. lo \in 0 .. Shorter(a, b) /\ Common(a, b, lo)
    BY <1>1, SharedPrefixIs
  <2> HIDE DEF lo
  <2>2. Shorter(a, b) \in Nat /\ Shorter(a, b) <= la /\ Shorter(a, b) <= lb
    BY <1>1 DEF Shorter
  <2> QED BY <1>1, <2>1, <2>2
<1>3. d = ChangedRows(a, b)
  BY DEF ChangedRows
<1> HIDE DEF lo
<1>4. /\ a1 \in Seq(Nat) /\ Len(a1) = la - lo
      /\ \A i \in 1 .. Len(a1) : a1[i] = a[lo + i]
  BY <1>2, FromIs
<1>5. /\ b1 \in Seq(Nat) /\ Len(b1) = lb - lo
      /\ \A i \in 1 .. Len(b1) : b1[i] = b[lo + i]
  BY <1>2, FromIs
<1> DEFINE m == lb - lo
           k == la - lo
<1>6. m \in Nat /\ k \in Nat /\ m = lb - lo /\ k = la - lo
  BY <1>1, <1>2
<1> HIDE DEF a1, b1, la, lb, m, k
<1>7. hi \in Nat /\ hi <= k /\ hi <= m /\ Common(Reverse(a1), Reverse(b1), hi)
  <2>1. Len(Reverse(a1)) = k /\ Len(Reverse(b1)) = m
    BY <1>4, <1>5, <1>6 DEF Reverse
  <2>2. hi = SharedPrefix(Reverse(a1), Reverse(b1))
    BY DEF SharedSuffix
  <2>3. hi \in 0 .. Shorter(Reverse(a1), Reverse(b1)) /\ Common(Reverse(a1), Reverse(b1), hi)
    BY <1>6, <2>1, <2>2, SharedPrefixIs
  <2> HIDE DEF hi
  <2> QED BY <1>6, <2>1, <2>3 DEF Shorter
<1> HIDE DEF hi
<1>8. /\ d \in Seq(Nat)
      /\ \A i \in 1 .. m - hi : i \in DOMAIN d /\ d[i] = b1[i]
  <2> DEFINE e == m - hi
  <2>1. e \in Nat /\ e \in Int /\ e <= m /\ 1 \in Int
    BY <1>6, <1>7
  <2>2. d = SubSeq(b1, 1, e)
    BY <1>5, <1>6
  <2> HIDE DEF e, d
  <2>3. \A i \in 1 .. e : b1[i] \in Nat
    BY <1>5, <1>6, <2>1
  <2>4. /\ d \in Seq(Nat) /\ Len(d) = (IF 1 <= e THEN e - 1 + 1 ELSE 0)
        /\ \A i \in 1 .. e - 1 + 1 : d[i] = b1[1 + i - 1]
    BY <2>1, <2>2, <2>3, SubSeqProperties
  <2>5. \A i \in 1 .. e : i \in DOMAIN d /\ i \in 1 .. e - 1 + 1 /\ 1 + i - 1 = i
    BY <2>1, <2>4
  <2> QED BY <2>4, <2>5 DEF e
<1> HIDE DEF d
<1>9. ASSUME NEW i, i \in 1 .. lb
      PROVE  b[i] \in ToSet(d) \cup ToSet(a)
  <2>1. i \in Nat /\ i >= 1 /\ i <= lb
    BY <1>1, <1>9
  <2>2. CASE i <= lo
    <3>1. i \in 1 .. lo /\ i \in 1 .. la
      BY <1>1, <1>2, <2>1, <2>2
    <3>2. b[i] = a[i]
      BY <1>2, <3>1, Zenon DEF Common
    <3> QED BY <1>1, <3>1, <3>2, Zenon DEF ToSet
  <2>3. CASE i > lo /\ i - lo <= m - hi
    <3> DEFINE j == i - lo
    <3>1. j \in 1 .. m - hi /\ j \in 1 .. m /\ lo + j = i
      BY <1>2, <1>6, <1>7, <2>1, <2>3
    <3> HIDE DEF j
    <3>2. b1[j] = b[i]
      BY <1>5, <1>6, <3>1
    <3>3. j \in DOMAIN d /\ d[j] = b[i]
      BY <1>8, <3>1, <3>2
    <3> QED BY <3>3, Zenon DEF ToSet
  <2>4. CASE i > lo /\ i - lo > m - hi
    <3> DEFINE j == i - lo
               q == m + 1 - j
               p == k + 1 - q
    <3>1. /\ j \in 1 .. m /\ lo + j = i /\ q \in 1 .. hi /\ q \in 1 .. m /\ q \in 1 .. k
          /\ p \in 1 .. k /\ lo + p \in 1 .. la /\ m - q + 1 = j /\ k - q + 1 = p
      BY <1>1, <1>2, <1>6, <1>7, <2>1, <2>4
    <3> HIDE DEF j, q, p
    <3>2. Reverse(b1)[q] = b1[j]
      BY <1>5, <1>6, <3>1 DEF Reverse
    <3>3. Reverse(a1)[q] = a1[p]
      BY <1>4, <1>6, <3>1 DEF Reverse
    <3>4. Reverse(a1)[q] = Reverse(b1)[q]
      BY <1>7, <3>1, Zenon DEF Common
    <3>5. b1[j] = b[i] /\ a1[p] = a[lo + p]
      BY <1>4, <1>5, <1>6, <3>1
    <3>6. b[i] = a[lo + p] /\ lo + p \in DOMAIN a
      BY <1>1, <3>1, <3>2, <3>3, <3>4, <3>5
    <3> QED BY <3>6, Zenon DEF ToSet
  <2> QED BY <1>2, <1>6, <1>7, <2>1, <2>2, <2>3, <2>4
<1> QED BY <1>1, <1>3, <1>8, <1>9 DEF ToSet

\* A difference has them, or says that it leaves rows out.
LEMMA DiffIs ==
  ASSUME NEW a \in Seq(Nat), NEW b \in Seq(Nat)
  PROVE  /\ DiffFrames(a, b) \in Seq(Text)
         /\ \A row \in ToSet(b) :
              row \in ToSet(a) \/ {row, Omitted} \cap ToSet(DiffFrames(a, b)) # {}
<1> DEFINE rows == ChangedRows(a, b)
           new == Newest(rows, DiffCap)
<1>1. rows \in Seq(Nat) /\ ToSet(b) \subseteq ToSet(rows) \cup ToSet(a)
  BY ChangedIs
<1>2. DiffFrames(a, b) = IF Len(rows) > DiffCap THEN <<Omitted>> \o new ELSE rows
  BY DEF DiffFrames
<1> HIDE DEF rows
<1>3. new \in Seq(Nat)
  BY <1>1, NewestIs, CapsAssumption
<1> HIDE DEF new
<1>4. CASE Len(rows) > DiffCap
  <2> DEFINE cut == <<Omitted>> \o new
  <2>1. new \in Seq(Text) /\ Omitted \in Text
    BY <1>3, RowsAreText DEF Text
  <2>2. cut \in Seq(Text) /\ 1 \in DOMAIN cut /\ cut[1] = Omitted
    BY <2>1
  <2> HIDE DEF cut
  <2>3. Omitted \in ToSet(cut)
    BY <2>2, Zenon DEF ToSet
  <2>4. DiffFrames(a, b) = cut
    BY <1>2, <1>4 DEF cut
  <2> QED BY <2>2, <2>3, <2>4
<1>5. CASE ~ (Len(rows) > DiffCap)
  <2>1. DiffFrames(a, b) = rows
    BY <1>2, <1>5
  <2>2. rows \in Seq(Text)
    BY <1>1, RowsAreText
  <2> QED BY <1>1, <2>1, <2>2
<1> QED BY <1>4, <1>5

\* What is read back of a segment that has frames is text, and every
\* difference is in it.
LEMMA ReadBack ==
  ASSUME NEW seg \in SegType, seg.kind # "lines"
  PROVE  /\ RenderSegment(seg) \in Seq(Text)
         /\ \A j \in DOMAIN seg.frames : ToSet(Diff(seg, j)) \subseteq ToSet(RenderSegment(seg))
<1> DEFINE fs == seg.frames
           ss == [i \in DOMAIN fs |-> Diff(seg, i)]
           n == Len(fs)
           out == RenderSegment(seg)
<1>1. fs \in Seq(Seq(Nat)) /\ n \in Nat /\ DOMAIN fs = 1 .. n
      /\ \A i \in 1 .. n : fs[i] \in Seq(Nat)
  BY DEF SegType
<1>2. out = FlattenSeq(ss)
  BY DEF RenderSegment
<1>3. \A i \in 1 .. n : Diff(seg, i) = IF i = 1 THEN fs[1] ELSE DiffFrames(fs[i - 1], fs[i])
  BY DEF Diff
<1> HIDE DEF fs, n
<1>4. \A i \in 1 .. n : Diff(seg, i) \in Seq(Text)
  <2> SUFFICES ASSUME NEW i, i \in 1 .. n PROVE Diff(seg, i) \in Seq(Text)
    OBVIOUS
  <2>1. CASE i = 1
    <3>1. fs[1] \in Seq(Nat)
      BY <1>1, <2>1
    <3>2. fs[1] \in Seq(Text)
      BY <3>1, RowsAreText
    <3> QED BY <1>3, <2>1, <3>2
  <2>2. CASE i # 1
    <3>1. i - 1 \in 1 .. n
      BY <1>1, <2>2
    <3>2. fs[i - 1] \in Seq(Nat) /\ fs[i] \in Seq(Nat)
      BY <1>1, <3>1
    <3>3. DiffFrames(fs[i - 1], fs[i]) \in Seq(Text)
      BY <3>2, DiffIs
    <3> QED BY <1>3, <2>2, <3>3
  <2> QED BY <2>1, <2>2
<1>5. ss \in Seq(Seq(Text)) /\ Len(ss) = n /\ \A i \in 1 .. n : ss[i] = Diff(seg, i)
  <2>1. ss = [i \in 1 .. n |-> Diff(seg, i)]
    BY <1>1
  <2> HIDE DEF ss
  <2> QED BY <1>1, <1>4, <2>1
<1> HIDE DEF ss, out
<1>6. FlattenSeq(ss) \in Seq(Text)
  BY <1>5, FlattenType
<1>7. \A i \in 1 .. Len(ss) : ToSet(ss[i]) \subseteq ToSet(FlattenSeq(ss))
  BY <1>5, FlattenToSet
<1>8. \A i \in 1 .. n : ToSet(Diff(seg, i)) \subseteq ToSet(out)
  BY <1>2, <1>5, <1>7, Zenon
<1> QED BY <1>1, <1>2, <1>6, <1>8 DEF fs, out

\* A row has been on the screen from frame k to frame j, and the difference of
\* frame k has it or says that it leaves rows out.
FoundAt(seg, j, row, k) ==
  /\ \A l \in k .. j : row \in ToSet(seg.frames[l])
  /\ {row, Omitted} \cap ToSet(Diff(seg, k)) # {}

\* Every row of a frame can be followed back to such a difference.
LEMMA RowsAreFound ==
  ASSUME NEW seg \in SegType, NEW j \in DOMAIN seg.frames, NEW row \in ToSet(seg.frames[j])
  PROVE  \E k \in 1 .. j : FoundAt(seg, j, row, k)
<1> DEFINE fs == seg.frames
           n == Len(fs)
           Found(m) == \E k \in 1 .. m : FoundAt(seg, m, row, k)
           S == {i \in Nat : i + 1 <= n /\ row \in ToSet(fs[i + 1]) => Found(i + 1)}
<1>1. n \in Nat /\ DOMAIN fs = 1 .. n /\ \A i \in 1 .. n : fs[i] \in Seq(Nat)
  BY DEF SegType
<1>2. \A i \in 1 .. n : Diff(seg, i) = IF i = 1 THEN fs[1] ELSE DiffFrames(fs[i - 1], fs[i])
  BY DEF Diff
<1>3. ASSUME NEW m, m \in 1 .. n, row \in ToSet(fs[m]),
             {row, Omitted} \cap ToSet(Diff(seg, m)) # {}
      PROVE  Found(m)
  <2>1. m .. m = {m} /\ m \in 1 .. m
    BY <1>1, <1>3
  <2>2. FoundAt(seg, m, row, m)
    BY <1>3, <2>1, Zenon DEF FoundAt
  <2> QED BY <2>1, <2>2, Zenon
<1> HIDE DEF fs, n
<1>4. 0 \in S
  <2> SUFFICES ASSUME 1 <= n, row \in ToSet(fs[1]) PROVE Found(1)
    OBVIOUS
  <2>1. 1 \in 1 .. n
    BY <1>1
  <2>2. Diff(seg, 1) = fs[1]
    BY <1>2, <2>1
  <2>3. {row, Omitted} \cap ToSet(Diff(seg, 1)) # {}
    BY <2>2, Zenon
  <2> HIDE DEF Found
  <2> QED BY <1>3, <2>1, <2>3
<1>5. \A i \in Nat : i \in S => i + 1 \in S
  <2> SUFFICES ASSUME NEW i \in Nat, i \in S, (i + 1) + 1 <= n, row \in ToSet(fs[(i + 1) + 1])
               PROVE  Found((i + 1) + 1)
    OBVIOUS
  <2> DEFINE m == (i + 1) + 1
  <2>1. m \in 1 .. n /\ m - 1 \in 1 .. n /\ m - 1 = i + 1 /\ m # 1 /\ m \in Nat
    BY <1>1
  <2>2. row \in ToSet(fs[m]) /\ (row \in ToSet(fs[i + 1]) => Found(i + 1))
    BY <1>1
  <2> HIDE DEF m, S
  <2>3. fs[m - 1] \in Seq(Nat) /\ fs[m] \in Seq(Nat)
    BY <1>1, <2>1
  <2>4. row \in ToSet(fs[m - 1]) \/ {row, Omitted} \cap ToSet(DiffFrames(fs[m - 1], fs[m])) # {}
    BY <2>2, <2>3, DiffIs
  <2>5. CASE {row, Omitted} \cap ToSet(DiffFrames(fs[m - 1], fs[m])) # {}
    <3>1. Diff(seg, m) = DiffFrames(fs[m - 1], fs[m])
      BY <1>2, <2>1
    <3>2. {row, Omitted} \cap ToSet(Diff(seg, m)) # {}
      BY <2>5, <3>1, Zenon
    <3> HIDE DEF Found
    <3>3. Found(m)
      BY <1>3, <2>1, <2>2, <3>2
    <3> QED BY <3>3 DEF m
  <2>6. CASE row \in ToSet(fs[m - 1])
    <3>1. Found(i + 1)
      BY <2>1, <2>2, <2>6, Zenon
    <3>2. PICK k \in 1 .. i + 1 : FoundAt(seg, i + 1, row, k)
      BY <3>1
    <3>3. k \in 1 .. m /\ \A l \in k .. m : l \in k .. i + 1 \/ l = m
      BY <2>1, <3>2
    <3>4. FoundAt(seg, m, row, k)
      BY <2>2, <3>2, <3>3, Zenon DEF FoundAt, fs
    <3>5. Found(m)
      BY <3>3, <3>4, Zenon
    <3> HIDE DEF Found
    <3> QED BY <3>5 DEF m
  <2> QED BY <2>4, <2>5, <2>6
<1>6. Nat \subseteq S
  <2> HIDE DEF S
  <2> QED BY <1>4, <1>5, Induct
<1>7. j \in 1 .. n /\ j - 1 \in Nat /\ (j - 1) + 1 = j /\ j <= n /\ row \in ToSet(fs[j])
  BY <1>1 DEF fs
<1>8. j - 1 \in S
  BY <1>6, <1>7
<1>9. Found(j)
  <2> HIDE DEF Found
  <2> QED BY <1>7, <1>8
<1> QED BY <1>9, Zenon

\* A row that a frame of a stored segment shows has been on the screen since a
\* frame whose rendered difference has it, or says that it leaves rows out
\* (renderSegment, diff and DiffFrames).
THEOREM FramesAreFound == Spec => []ShownIsFound
<1>1. TInv => ShownIsFound
  <2> SUFFICES ASSUME TInv, NEW i \in DOMAIN hist, NEW j \in DOMAIN hist[i].frames,
                      NEW row \in ToSet(hist[i].frames[j])
               PROVE  \E k \in 1 .. j :
                        /\ \A l \in k .. j : row \in ToSet(hist[i].frames[l])
                        /\ {row, Omitted} \cap ToSet(Diff(hist[i], k)) # {}
                        /\ ToSet(Diff(hist[i], k)) \subseteq ToSet(RenderSegment(hist[i]))
    BY DEF ShownIsFound
  <2> DEFINE seg == hist[i]
  <2>1. seg \in SegType /\ Shaped(seg)
    BY DEF TInv, HistoryOK
  <2>2. j \in DOMAIN seg.frames /\ row \in ToSet(seg.frames[j])
    OBVIOUS
  <2> HIDE DEF seg
  <2>3. seg.kind # "lines"
    <3> SUFFICES ASSUME seg.kind = "lines" PROVE FALSE
      OBVIOUS
    <3>1. seg.frames = << >>
      BY <2>1 DEF Shaped
    <3>2. DOMAIN seg.frames = {}
      BY <3>1
    <3> QED BY <2>2, <3>2
  <2>4. PICK k \in 1 .. j : FoundAt(seg, j, row, k)
    BY <2>1, <2>2, RowsAreFound
  <2>5. k \in DOMAIN seg.frames
    <3>1. seg.frames \in Seq(Seq(Nat))
      BY <2>1 DEF SegType
    <3> QED BY <2>2, <2>4, <3>1
  <2>6. ToSet(Diff(seg, k)) \subseteq ToSet(RenderSegment(seg))
    BY <2>1, <2>3, <2>5, ReadBack
  <2> QED BY <2>4, <2>6, Zenon DEF FoundAt, seg
<1> QED BY <1>1, TypeInvariant, PTL

(***************************************************************************)
(* The ends of a history.                                                  *)
(***************************************************************************)
LEMMA SliceIs ==
  ASSUME NEW T, NEW s \in Seq(T), NEW i \in Nat, NEW j \in Nat, i >= 1, j <= Len(s), i <= j + 1
  PROVE  /\ SubSeq(s, i, j) \in Seq(T) /\ Len(SubSeq(s, i, j)) = j + 1 - i
         /\ \A k \in 1 .. j + 1 - i : SubSeq(s, i, j)[k] = s[i - 1 + k]
<1>1. Len(s) \in Nat /\ \A k \in 1 .. Len(s) : s[k] \in T
  OBVIOUS
<1>2. \A k \in i .. j : k \in 1 .. Len(s)
  BY <1>1
<1>3. \A k \in i .. j : s[k] \in T
  BY <1>1, <1>2, Zenon
<1>4. i \in Int /\ j \in Int /\ j - i + 1 = j + 1 - i
  OBVIOUS
<1>5. /\ SubSeq(s, i, j) \in Seq(T)
      /\ Len(SubSeq(s, i, j)) = IF i <= j THEN j - i + 1 ELSE 0
      /\ \A k \in 1 .. j - i + 1 : SubSeq(s, i, j)[k] = s[i + k - 1]
  BY <1>3, <1>4, SubSeqProperties
<1>6. Len(SubSeq(s, i, j)) = j + 1 - i
  BY <1>5
<1>7. \A k \in 1 .. j + 1 - i : i + k - 1 = i - 1 + k
  OBVIOUS
<1> QED BY <1>4, <1>5, <1>6, <1>7

\* The last elements of a concatenation.
LEMMA NewestConcat ==
  ASSUME NEW T, NEW s \in Seq(T), NEW t \in Seq(T), NEW n \in Nat,
         NEW m, m = IF n > Len(t) THEN n - Len(t) ELSE 0
  PROVE  Newest(s, m) \o Newest(t, n) = Newest(s \o t, n)
<1> DEFINE a == Newest(s, m)
           b == Newest(t, n)
           c == Newest(s \o t, n)
           ls == Len(s)
           lt == Len(t)
           la == Len(a)
           lb == Len(b)
           lc == Len(c)
<1>1. ls \in Nat /\ lt \in Nat
  OBVIOUS
<1>2. m = IF n > lt THEN n - lt ELSE 0
  OBVIOUS
<1> HIDE DEF ls, lt
<1>3. m \in Nat
  BY <1>1, <1>2
<1>4. /\ a \in Seq(T) /\ la = (IF ls > m THEN m ELSE ls)
      /\ \A i \in 1 .. la : a[i] = s[ls - la + i]
  BY <1>3, NewestIs DEF ls
<1>5. /\ b \in Seq(T) /\ lb = (IF lt > n THEN n ELSE lt)
      /\ \A i \in 1 .. lb : b[i] = t[lt - lb + i]
  BY NewestIs DEF lt
<1> DEFINE all == s \o t
<1>6. /\ all \in Seq(T) /\ Len(all) = ls + lt
      /\ \A i \in 1 .. ls + lt : all[i] = IF i <= ls THEN s[i] ELSE t[i - ls]
  BY ConcatProperties DEF ls, lt
<1> HIDE DEF all, a, b, c
<1>7. /\ c \in Seq(T) /\ lc = (IF Len(all) > n THEN n ELSE Len(all))
      /\ \A i \in 1 .. lc : c[i] = all[Len(all) - lc + i]
  BY <1>6, NewestIs DEF c, all
<1>8. /\ a \o b \in Seq(T) /\ Len(a \o b) = la + lb
      /\ \A i \in 1 .. la + lb : (a \o b)[i] = IF i <= la THEN a[i] ELSE b[i - la]
  BY <1>4, <1>5, ConcatProperties
<1> DEFINE ab == a \o b
<1> HIDE DEF la, lb, lc, ab
<1>9. la \in Nat /\ lb \in Nat /\ lc = la + lb /\ lc <= ls + lt
  BY <1>1, <1>2, <1>3, <1>4, <1>5, <1>6, <1>7
<1>10. ASSUME NEW i, i \in 1 .. lc
       PROVE  ab[i] = c[i]
  <2>1. i \in Nat /\ i >= 1 /\ i <= lc
    BY <1>9, <1>10
  <2> DEFINE k == ls + lt - lc + i
  <2>2. c[i] = all[k] /\ k \in 1 .. ls + lt /\ k = ls + lt - lc + i
    BY <1>1, <1>6, <1>7, <1>9, <2>1
  <2> HIDE DEF k
  <2>3. all[k] = IF k <= ls THEN s[k] ELSE t[k - ls]
    BY <1>6, <2>2
  <2>4. CASE i <= la
    <3>1. i \in 1 .. la /\ i \in 1 .. la + lb
      BY <1>9, <2>1, <2>4
    <3>2. ab[i] = s[ls - la + i]
      BY <1>4, <1>8, <2>4, <3>1 DEF ab
    <3>3. lb = lt
      BY <1>1, <1>2, <1>4, <1>5, <1>9, <2>1, <2>4
    <3>4. k = ls - la + i /\ k <= ls
      BY <1>1, <1>9, <2>1, <2>2, <2>4, <3>3
    <3> QED BY <2>2, <2>3, <3>2, <3>4
  <2>5. CASE ~(i <= la)
    <3>1. i - la \in 1 .. lb /\ i \in 1 .. la + lb
      BY <1>9, <2>1, <2>5
    <3>2. ab[i] = t[lt - lb + (i - la)]
      BY <1>5, <1>8, <2>5, <3>1 DEF ab
    <3>3. lt - lb + (i - la) = k - ls /\ ~(k <= ls)
      BY <1>1, <1>5, <1>9, <2>1, <2>2, <2>5
    <3> QED BY <2>2, <2>3, <3>2, <3>3
  <2> QED BY <2>4, <2>5
<1>11. ab = c
  <2>1. ab \in Seq(T) /\ Len(ab) = Len(c)
    BY <1>8, <1>9 DEF ab, lc
  <2>2. \A i \in 1 .. Len(ab) : ab[i] = c[i]
    BY <1>8, <1>9, <1>10 DEF ab
  <2> QED BY <1>7, <2>1, <2>2
<1> QED BY <1>11 DEF ab, a, b, c, all

\* The first elements of a concatenation.
LEMMA OldestConcat ==
  ASSUME NEW T, NEW s \in Seq(T), NEW t \in Seq(T), NEW n \in Nat,
         NEW m, m = IF n > Len(s) THEN n - Len(s) ELSE 0
  PROVE  Oldest(s, n) \o Oldest(t, m) = Oldest(s \o t, n)
<1> DEFINE a == Oldest(s, n)
           b == Oldest(t, m)
           c == Oldest(s \o t, n)
           ls == Len(s)
           lt == Len(t)
           la == Len(a)
           lb == Len(b)
           lc == Len(c)
<1>1. ls \in Nat /\ lt \in Nat
  OBVIOUS
<1>2. m = IF n > ls THEN n - ls ELSE 0
  OBVIOUS
<1> HIDE DEF ls, lt
<1>3. m \in Nat
  BY <1>1, <1>2
<1>4. /\ a \in Seq(T) /\ la = (IF ls > n THEN n ELSE ls)
      /\ \A i \in 1 .. la : a[i] = s[i]
  BY OldestIs DEF ls
<1>5. /\ b \in Seq(T) /\ lb = (IF lt > m THEN m ELSE lt)
      /\ \A i \in 1 .. lb : b[i] = t[i]
  BY <1>3, OldestIs DEF lt
<1> DEFINE all == s \o t
<1>6. /\ all \in Seq(T) /\ Len(all) = ls + lt
      /\ \A i \in 1 .. ls + lt : all[i] = IF i <= ls THEN s[i] ELSE t[i - ls]
  BY ConcatProperties DEF ls, lt
<1> HIDE DEF all, a, b, c
<1>7. /\ c \in Seq(T) /\ lc = (IF Len(all) > n THEN n ELSE Len(all))
      /\ \A i \in 1 .. lc : c[i] = all[i]
  BY <1>6, OldestIs DEF c, all
<1>8. /\ a \o b \in Seq(T) /\ Len(a \o b) = la + lb
      /\ \A i \in 1 .. la + lb : (a \o b)[i] = IF i <= la THEN a[i] ELSE b[i - la]
  BY <1>4, <1>5, ConcatProperties
<1> DEFINE ab == a \o b
<1> HIDE DEF la, lb, lc, ab
<1>9. la \in Nat /\ lb \in Nat /\ lc = la + lb /\ lc <= ls + lt
  BY <1>1, <1>2, <1>3, <1>4, <1>5, <1>6, <1>7
<1>10. ASSUME NEW i, i \in 1 .. lc
       PROVE  ab[i] = c[i]
  <2>1. i \in Nat /\ i >= 1 /\ i <= lc
    BY <1>9, <1>10
  <2>2. c[i] = all[i] /\ i \in 1 .. ls + lt
    BY <1>1, <1>7, <1>9, <1>10, <2>1
  <2>3. all[i] = IF i <= ls THEN s[i] ELSE t[i - ls]
    BY <1>6, <2>2
  <2>4. CASE i <= la
    <3>1. i \in 1 .. la /\ i \in 1 .. la + lb /\ i <= ls
      BY <1>1, <1>4, <1>9, <2>1, <2>4
    <3>2. ab[i] = s[i]
      BY <1>4, <1>8, <2>4, <3>1 DEF ab
    <3> QED BY <2>2, <2>3, <3>1, <3>2
  <2>5. CASE ~(i <= la)
    <3>1. i - la \in 1 .. lb /\ i \in 1 .. la + lb
      BY <1>9, <2>1, <2>5
    <3>2. ab[i] = t[i - la]
      BY <1>5, <1>8, <2>5, <3>1 DEF ab
    <3>3. la = ls /\ ~(i <= ls)
      BY <1>1, <1>2, <1>4, <1>5, <1>9, <2>1, <2>5
    <3> QED BY <2>2, <2>3, <3>2, <3>3
  <2> QED BY <2>4, <2>5
<1>11. ab = c
  <2>1. ab \in Seq(T) /\ Len(ab) = Len(c)
    BY <1>8, <1>9 DEF ab, lc
  <2>2. \A i \in 1 .. Len(ab) : ab[i] = c[i]
    BY <1>8, <1>9, <1>10 DEF ab
  <2> QED BY <1>7, <2>1, <2>2
<1> QED BY <1>11 DEF ab, a, b, c, all

FramesOf(h) == [i \in DOMAIN h |-> h[i].frames]

\* All frames of a history are its frames, segment by segment.
LEMMA FramesOfIs ==
  ASSUME NEW h \in Seq(SegType)
  PROVE  /\ FramesOf(h) \in Seq(Seq(Seq(Nat))) /\ Len(FramesOf(h)) = Len(h)
         /\ \A i \in 1 .. Len(h) : FramesOf(h)[i] = h[i].frames /\ h[i].frames \in Seq(Seq(Nat))
         /\ AllFrames(h) = FlattenSeq(FramesOf(h))
<1>1. Len(h) \in Nat /\ DOMAIN h = 1 .. Len(h) /\ \A i \in 1 .. Len(h) : h[i] \in SegType
  OBVIOUS
<1>2. \A i \in 1 .. Len(h) : h[i].frames \in Seq(Seq(Nat))
  BY <1>1 DEF SegType
<1>3. FramesOf(h) = [i \in 1 .. Len(h) |-> h[i].frames]
  BY <1>1 DEF FramesOf
<1>4. AllFrames(h) = FlattenSeq(FramesOf(h))
  BY DEF AllFrames, FramesOf
<1> QED BY <1>1, <1>2, <1>3, <1>4

\* The frames of a part of the history.
LEMMA FramesOfSlice ==
  ASSUME NEW h \in Seq(SegType), NEW i \in Nat, NEW j \in Nat, i >= 1, j <= Len(h), i <= j + 1
  PROVE  FramesOf(SubSeq(h, i, j)) = SubSeq(FramesOf(h), i, j)
<1> DEFINE t == SubSeq(h, i, j)
           fs == FramesOf(h)
           gs == SubSeq(fs, i, j)
<1>1. /\ t \in Seq(SegType) /\ Len(t) = j + 1 - i
      /\ \A k \in 1 .. j + 1 - i : t[k] = h[i - 1 + k]
  BY SliceIs
<1>2. /\ fs \in Seq(Seq(Seq(Nat))) /\ Len(fs) = Len(h)
      /\ \A k \in 1 .. Len(h) : fs[k] = h[k].frames
  BY FramesOfIs
<1>3. /\ gs \in Seq(Seq(Seq(Nat))) /\ Len(gs) = j + 1 - i
      /\ \A k \in 1 .. j + 1 - i : gs[k] = fs[i - 1 + k]
  <2>1. fs \in Seq(Seq(Seq(Nat))) /\ j <= Len(fs)
    BY <1>2
  <2> HIDE DEF fs
  <2> QED BY <2>1, SliceIs
<1>4. /\ FramesOf(t) \in Seq(Seq(Seq(Nat))) /\ Len(FramesOf(t)) = Len(t)
      /\ \A k \in 1 .. Len(t) : FramesOf(t)[k] = t[k].frames
  <2> HIDE DEF t
  <2> QED BY <1>1, FramesOfIs
<1> DEFINE ft == FramesOf(t)
           m == j + 1 - i
<1>5. m \in Nat /\ \A k \in 1 .. m : i - 1 + k \in 1 .. Len(h)
  <2>1. Len(h) \in Nat
    OBVIOUS
  <2> QED BY <2>1
<1> HIDE DEF t, fs, gs, ft, m
<1>6. \A k \in 1 .. m : ft[k] = gs[k]
  BY <1>1, <1>2, <1>3, <1>4, <1>5 DEF ft, m
<1>7. ft \in Seq(Seq(Seq(Nat))) /\ Len(ft) = m /\ gs \in Seq(Seq(Seq(Nat))) /\ Len(gs) = m
  BY <1>1, <1>3, <1>4 DEF ft, m
<1>8. ft = gs
  <2> HIDE DEF m
  <2> QED BY <1>5, <1>6, <1>7
<1> QED BY <1>8 DEF ft, gs, t, fs

\* The frames of the first k segments, and how many there are in the others.
LEMMA CountsAre ==
  ASSUME NEW h \in Seq(SegType), NEW F, Builds(F, FramesOf(h), Seq(Nat)),
         NEW k \in Nat, k <= Len(h)
  PROVE  /\ FrameCount(SubSeq(h, 1, k)) = Len(F[k])
         /\ FrameCount(SubSeq(h, k + 1, Len(h))) = Len(F[Len(h)]) - Len(F[k])
         /\ F[k] \in Seq(Seq(Nat))
         /\ Len(F[k]) \in Nat /\ Len(F[k]) <= Len(F[Len(h)]) /\ Len(F[Len(h)]) \in Nat
<1> DEFINE n == Len(h)
           fs == FramesOf(h)
           old == SubSeq(h, 1, k)
           new == SubSeq(h, k + 1, n)
           fo == FlattenSeq(SubSeq(fs, 1, k))
           fn == FlattenSeq(SubSeq(fs, k + 1, n))
<1>1. n \in Nat /\ k + 1 \in Nat /\ k + 1 >= 1 /\ k + 1 <= n + 1 /\ 1 <= k + 1
      /\ k \in 0 .. n /\ n \in 0 .. n /\ n <= Len(h)
  OBVIOUS
<1>2. fs \in Seq(Seq(Seq(Nat))) /\ Len(fs) = n
  BY FramesOfIs
<1>3. /\ \A i \in 0 .. n : F[i] \in Seq(Seq(Nat))
      /\ \A i \in 0 .. n : F[i] = FlattenSeq(SubSeq(fs, 1, i))
      /\ F[n] = FlattenSeq(fs)
  BY <1>2, Zenon DEF Builds
<1>4. FramesOf(old) = SubSeq(fs, 1, k) /\ FramesOf(new) = SubSeq(fs, k + 1, n)
  <2>1. FramesOf(old) = SubSeq(fs, 1, k)
    BY <1>1, FramesOfSlice
  <2>2. FramesOf(new) = SubSeq(fs, k + 1, n)
    <3> HIDE DEF n
    <3> QED BY <1>1, FramesOfSlice
  <2> QED BY <2>1, <2>2
<1>5. AllFrames(old) = fo /\ AllFrames(new) = fn
  BY <1>4 DEF AllFrames, FramesOf
<1>6. FlattenSeq(fs) = fo \o fn
  <2>1. fs \in Seq(Seq(Seq(Nat))) /\ k <= Len(fs)
    BY <1>2
  <2> HIDE DEF fs
  <2>2. FlattenSeq(fs) = FlattenSeq(SubSeq(fs, 1, k)) \o FlattenSeq(SubSeq(fs, k + 1, Len(fs)))
    BY <2>1, FlattenSplit
  <2> QED BY <1>2, <2>2
<1>7. fo \in Seq(Seq(Nat)) /\ fn \in Seq(Seq(Nat))
  <2>1. fo \in Seq(Seq(Nat))
    BY <1>1, <1>3
  <2>2. SubSeq(fs, k + 1, n) \in Seq(Seq(Seq(Nat)))
    <3> HIDE DEF fs, n
    <3> QED BY <1>1, <1>2, SliceIs
  <2>3. fn \in Seq(Seq(Nat))
    <3> DEFINE t == SubSeq(fs, k + 1, n)
    <3>1. t \in Seq(Seq(Seq(Nat)))
      BY <2>2
    <3> HIDE DEF t
    <3>2. FlattenSeq(t) \in Seq(Seq(Nat))
      BY <3>1, FlattenType
    <3> QED BY <3>2 DEF t
  <2> QED BY <2>1, <2>3
<1>8. F[k] = fo /\ F[n] = fo \o fn
  BY <1>1, <1>3, <1>6
<1> HIDE DEF fo, fn
<1>9. Len(fo \o fn) = Len(fo) + Len(fn) /\ Len(fo) \in Nat /\ Len(fn) \in Nat
  BY <1>7, ConcatProperties
<1>10. FrameCount(old) = Len(fo) /\ FrameCount(new) = Len(fn)
  BY <1>5 DEF FrameCount
<1> QED BY <1>7, <1>8, <1>9, <1>10

\* The query for the last frames.
LEMMA TailFramesIs ==
  ASSUME NEW h \in Seq(SegType), NEW n \in Nat
  PROVE  AllFrames(TailFrames(h, n)) = Newest(AllFrames(h), n)
<1> DEFINE N == Len(h)
           fs == FramesOf(h)
           left(k) == Left(n, SubSeq(h, k + 1, N))
           gs == [i \in 1 .. N |-> Newest(fs[i], left(i))]
<1>1. N \in Nat /\ DOMAIN h = 1 .. N /\ \A i \in 1 .. N : h[i] \in SegType
  OBVIOUS
<1>2. /\ fs \in Seq(Seq(Seq(Nat))) /\ Len(fs) = N /\ AllFrames(h) = FlattenSeq(fs)
      /\ \A i \in 1 .. N : fs[i] = h[i].frames /\ fs[i] \in Seq(Seq(Nat))
  BY FramesOfIs
<1>3. PICK F : Builds(F, fs, Seq(Nat))
  BY <1>2, FlattenBuilt
<1>4. ASSUME NEW k \in Nat, k <= N
      PROVE  /\ FrameCount(SubSeq(h, k + 1, N)) = Len(F[N]) - Len(F[k])
             /\ F[k] \in Seq(Seq(Nat))
             /\ Len(F[k]) \in Nat /\ Len(F[k]) <= Len(F[N]) /\ Len(F[N]) \in Nat
  BY <1>3, <1>4, CountsAre
<1>5. /\ F[0] = << >> /\ F[N] = FlattenSeq(fs)
      /\ \A k \in 0 .. N - 1 : F[k + 1] = F[k] \o fs[k + 1]
  BY <1>2, <1>3, Zenon DEF Builds
<1>6. AllFrames(TailFrames(h, n)) = FlattenSeq(gs)
  <2> DEFINE tf == TailFrames(h, n)
  <2>1. tf = [i \in 1 .. N |-> [h[i] EXCEPT !.frames = Newest(h[i].frames, left(i))]]
    BY <1>1 DEF TailFrames
  <2>2. DOMAIN tf = 1 .. N
    BY <2>1
  <2>3. \A i \in 1 .. N : tf[i].frames = Newest(h[i].frames, left(i))
    <3> HIDE DEF left
    <3> QED BY <1>1, <2>1 DEF SegType
  <2> HIDE DEF tf, left
  <2>4. [i \in DOMAIN tf |-> tf[i].frames] = gs
    BY <1>2, <2>2, <2>3
  <2> QED BY <2>4 DEF AllFrames, tf
<1> HIDE DEF N, fs
<1>7. \A k \in Nat : k <= N => left(k) = IF Len(F[N]) - Len(F[k]) < n
                                         THEN n - (Len(F[N]) - Len(F[k])) ELSE 0
  BY <1>4 DEF Left
<1> HIDE DEF left
<1>8. \A k \in Nat : k <= N => left(k) \in Nat
  <2> SUFFICES ASSUME NEW k \in Nat, k <= N PROVE left(k) \in Nat
    OBVIOUS
  <2> DEFINE a == Len(F[k])
             b == Len(F[N])
  <2>1. a \in Nat /\ b \in Nat /\ a <= b
    BY <1>4
  <2>2. left(k) = IF b - a < n THEN n - (b - a) ELSE 0
    BY <1>7
  <2> HIDE DEF a, b
  <2> QED BY <2>1, <2>2
<1>9. gs \in Seq(Seq(Seq(Nat))) /\ Len(gs) = N /\ \A i \in 1 .. N : gs[i] = Newest(fs[i], left(i))
  <2>1. \A i \in 1 .. N : Newest(fs[i], left(i)) \in Seq(Seq(Nat))
    <3> SUFFICES ASSUME NEW i, i \in 1 .. N PROVE Newest(fs[i], left(i)) \in Seq(Seq(Nat))
      OBVIOUS
    <3>1. i \in Nat /\ i <= N
      BY <1>1
    <3>2. left(i) \in Nat /\ fs[i] \in Seq(Seq(Nat))
      BY <1>2, <1>8, <3>1
    <3> QED BY <3>2, NewestIs
  <2> QED BY <1>1, <2>1
<1> HIDE DEF gs
<1>10. PICK G : Builds(G, gs, Seq(Nat))
  BY <1>9, FlattenBuilt
<1>11. /\ G[0] = << >> /\ G[N] = FlattenSeq(gs)
       /\ \A k \in 0 .. N - 1 : G[k + 1] = G[k] \o gs[k + 1]
  BY <1>9, <1>10, Zenon DEF Builds
<1> DEFINE Same(k) == G[k] = Newest(F[k], left(k))
           S == {k \in Nat : k <= N => Same(k)}
<1> HIDE DEF Same
<1>12. 0 \in S
  <2>1. left(0) \in Nat /\ F[0] \in Seq(Seq(Nat)) /\ Len(F[0]) = 0
    BY <1>1, <1>5, <1>8, EmptySeq
  <2>2. Newest(F[0], left(0)) \in Seq(Seq(Nat)) /\ Len(Newest(F[0], left(0))) = 0
    BY <2>1, NewestIs
  <2>3. Newest(F[0], left(0)) = << >>
    BY <2>2
  <2> QED BY <1>11, <2>3 DEF Same
<1>13. \A k \in Nat : k \in S => k + 1 \in S
  <2> SUFFICES ASSUME NEW k \in Nat, k + 1 <= N, Same(k) PROVE Same(k + 1)
    BY <1>1
  <2>1. k \in 0 .. N - 1 /\ k + 1 \in 1 .. N /\ k + 1 \in Nat /\ k <= N
    BY <1>1
  <2> DEFINE f == fs[k + 1]
             m == left(k + 1)
             l == Len(f)
             a == Len(F[k])
             b == Len(F[N])
             c == Len(F[k + 1])
  <2>8. f \in Seq(Seq(Nat))
    BY <1>2, <2>1 DEF f
  <2>9. l \in Nat
    BY <2>8
  <2>10. F[k + 1] = F[k] \o f
    BY <1>5, <2>1
  <2>11. F[k] \in Seq(Seq(Nat))
    BY <1>4, <2>1
  <2>2. f \in Seq(Seq(Nat)) /\ l \in Nat /\ F[k + 1] = F[k] \o f /\ F[k] \in Seq(Seq(Nat))
    BY <2>8, <2>9, <2>10, <2>11
  <2>3. c = a + l /\ a \in Nat /\ b \in Nat /\ c \in Nat /\ c <= b
    <3>1. Len(F[k] \o f) = a + l
      BY <2>2, ConcatProperties
    <3> QED BY <1>4, <2>1, <2>2, <3>1
  <2>4. /\ left(k) = (IF b - a < n THEN n - (b - a) ELSE 0)
        /\ m = (IF b - c < n THEN n - (b - c) ELSE 0)
    BY <1>7, <2>1
  <2> HIDE DEF f, m, l, a, b, c
  <2>5. left(k) = (IF m > l THEN m - l ELSE 0) /\ m \in Nat
    BY <2>2, <2>3, <2>4
  <2>6. Newest(F[k], left(k)) \o Newest(f, m) = Newest(F[k] \o f, m)
    <3>1. left(k) = IF m > Len(f) THEN m - Len(f) ELSE 0
      BY <2>5 DEF l
    <3> DEFINE e == F[k]
               lk == left(k)
    <3>2. lk = IF m > Len(f) THEN m - Len(f) ELSE 0
      BY <3>1
    <3>3. e \in Seq(Seq(Nat))
      BY <2>11
    <3>4. f \in Seq(Seq(Nat))
      BY <2>8
    <3>5. m \in Nat
      BY <2>5
    <3> HIDE DEF e, lk
    <3>6. Newest(e, lk) \o Newest(f, m) = Newest(e \o f, m)
      BY <3>2, <3>3, <3>4, <3>5, NewestConcat
    <3> QED BY <3>6 DEF e, lk
  <2>7. G[k + 1] = G[k] \o Newest(f, m)
    BY <1>9, <1>11, <2>1 DEF f, m
  <2> QED BY <2>2, <2>6, <2>7, Zenon DEF Same, m
<1>14. Nat \subseteq S
  <2> HIDE DEF S
  <2> QED BY <1>12, <1>13, Induct
<1>15. Same(N) /\ left(N) = n
  <2>1. N \in Nat /\ N <= N
    BY <1>1
  <2>2. Same(N)
    BY <1>14, <2>1
  <2>3. Len(F[N]) \in Nat
    BY <1>4, <2>1
  <2>4. left(N) = IF Len(F[N]) - Len(F[N]) < n THEN n - (Len(F[N]) - Len(F[N])) ELSE 0
    BY <1>7, <2>1
  <2> QED BY <2>2, <2>3, <2>4
<1> QED BY <1>2, <1>5, <1>6, <1>11, <1>15, Zenon DEF Same

\* The query for the first frames.
LEMMA HeadFramesIs ==
  ASSUME NEW h \in Seq(SegType), NEW n \in Nat
  PROVE  AllFrames(HeadFrames(h, n)) = Oldest(AllFrames(h), n)
<1> DEFINE N == Len(h)
           fs == FramesOf(h)
           left(k) == Left(n, SubSeq(h, 1, k))
           gs == [i \in 1 .. N |-> Oldest(fs[i], left(i - 1))]
<1>1. N \in Nat /\ DOMAIN h = 1 .. N /\ \A i \in 1 .. N : h[i] \in SegType
  OBVIOUS
<1>2. /\ fs \in Seq(Seq(Seq(Nat))) /\ Len(fs) = N /\ AllFrames(h) = FlattenSeq(fs)
      /\ \A i \in 1 .. N : fs[i] = h[i].frames /\ fs[i] \in Seq(Seq(Nat))
  BY FramesOfIs
<1>3. PICK F : Builds(F, fs, Seq(Nat))
  BY <1>2, FlattenBuilt
<1>4. ASSUME NEW k \in Nat, k <= N
      PROVE  /\ FrameCount(SubSeq(h, 1, k)) = Len(F[k])
             /\ F[k] \in Seq(Seq(Nat))
             /\ Len(F[k]) \in Nat
  BY <1>3, <1>4, CountsAre
<1>5. /\ F[0] = << >> /\ F[N] = FlattenSeq(fs)
      /\ \A k \in 0 .. N - 1 : F[k + 1] = F[k] \o fs[k + 1]
  BY <1>2, <1>3, Zenon DEF Builds
<1>6. AllFrames(HeadFrames(h, n)) = FlattenSeq(gs)
  <2> DEFINE tf == HeadFrames(h, n)
  <2>1. tf = [i \in 1 .. N |-> [h[i] EXCEPT !.frames = Oldest(h[i].frames, left(i - 1))]]
    BY <1>1 DEF HeadFrames
  <2>2. DOMAIN tf = 1 .. N
    BY <2>1
  <2>3. \A i \in 1 .. N : tf[i].frames = Oldest(h[i].frames, left(i - 1))
    <3> HIDE DEF left
    <3> QED BY <1>1, <2>1 DEF SegType
  <2> HIDE DEF tf, left
  <2>4. [i \in DOMAIN tf |-> tf[i].frames] = gs
    BY <1>2, <2>2, <2>3
  <2> QED BY <2>4 DEF AllFrames, tf
<1> HIDE DEF N, fs
<1>7. \A k \in Nat : k <= N => left(k) = IF Len(F[k]) < n THEN n - Len(F[k]) ELSE 0
  BY <1>4 DEF Left
<1> HIDE DEF left
<1>8. \A k \in Nat : k <= N => left(k) \in Nat
  <2> SUFFICES ASSUME NEW k \in Nat, k <= N PROVE left(k) \in Nat
    OBVIOUS
  <2> DEFINE a == Len(F[k])
  <2>1. a \in Nat
    BY <1>4
  <2>2. left(k) = IF a < n THEN n - a ELSE 0
    BY <1>7
  <2> HIDE DEF a
  <2> QED BY <2>1, <2>2
<1>9. gs \in Seq(Seq(Seq(Nat))) /\ Len(gs) = N
      /\ \A i \in 1 .. N : gs[i] = Oldest(fs[i], left(i - 1))
  <2>1. \A i \in 1 .. N : Oldest(fs[i], left(i - 1)) \in Seq(Seq(Nat))
    <3> SUFFICES ASSUME NEW i, i \in 1 .. N PROVE Oldest(fs[i], left(i - 1)) \in Seq(Seq(Nat))
      OBVIOUS
    <3>1. i - 1 \in Nat /\ i - 1 <= N
      BY <1>1
    <3>2. left(i - 1) \in Nat /\ fs[i] \in Seq(Seq(Nat))
      BY <1>2, <1>8, <3>1
    <3> QED BY <3>2, OldestIs
  <2> QED BY <1>1, <2>1
<1> HIDE DEF gs
<1>10. PICK G : Builds(G, gs, Seq(Nat))
  BY <1>9, FlattenBuilt
<1>11. /\ G[0] = << >> /\ G[N] = FlattenSeq(gs)
       /\ \A k \in 0 .. N - 1 : G[k + 1] = G[k] \o gs[k + 1]
  BY <1>9, <1>10, Zenon DEF Builds
<1> DEFINE Same(k) == G[k] = Oldest(F[k], n)
           S == {k \in Nat : k <= N => Same(k)}
<1> HIDE DEF Same
<1>12. 0 \in S
  <2> DEFINE e == F[0]
  <2>1. e \in Seq(Seq(Nat)) /\ Len(e) = 0
    BY <1>1, <1>4, <1>5, EmptySeq
  <2> HIDE DEF e
  <2>4. Oldest(e, n) \in Seq(Seq(Nat))
        /\ Len(Oldest(e, n)) = IF Len(e) > n THEN n ELSE Len(e)
    BY <2>1, OldestIs
  <2>2. Oldest(e, n) \in Seq(Seq(Nat)) /\ Len(Oldest(e, n)) = 0
    BY <2>1, <2>4
  <2>3. Oldest(e, n) = << >>
    BY <2>2
  <2> QED BY <1>11, <2>3 DEF Same, e
<1>13. \A k \in Nat : k \in S => k + 1 \in S
  <2> SUFFICES ASSUME NEW k \in Nat, k + 1 <= N, Same(k) PROVE Same(k + 1)
    BY <1>1
  <2>1. k \in 0 .. N - 1 /\ k + 1 \in 1 .. N /\ k + 1 \in Nat /\ k <= N /\ (k + 1) - 1 = k
    BY <1>1
  <2> DEFINE f == fs[k + 1]
             m == left(k)
             e == F[k]
  <2>2. f \in Seq(Seq(Nat))
    BY <1>2, <2>1
  <2>3. F[k + 1] = e \o f
    BY <1>5, <2>1
  <2>4. e \in Seq(Seq(Nat)) /\ Len(e) \in Nat
    BY <1>4, <2>1
  <2>5. m = IF Len(e) < n THEN n - Len(e) ELSE 0
    BY <1>7, <2>1
  <2>6. gs[k + 1] = Oldest(f, m)
    BY <1>9, <2>1
  <2>7. G[k + 1] = G[k] \o gs[k + 1]
    BY <1>11, <2>1
  <2>8. G[k] = Oldest(e, n)
    BY Zenon DEF Same, e
  <2> HIDE DEF f, m, e
  <2>9. m = IF n > Len(e) THEN n - Len(e) ELSE 0
    BY <2>4, <2>5
  <2>10. Oldest(e, n) \o Oldest(f, m) = Oldest(e \o f, n)
    BY <2>2, <2>4, <2>9, OldestConcat
  <2> QED BY <2>3, <2>6, <2>7, <2>8, <2>10, Zenon DEF Same
<1>14. Nat \subseteq S
  <2> HIDE DEF S
  <2> QED BY <1>12, <1>13, Induct
<1>15. Same(N)
  <2>1. N \in Nat /\ N <= N
    BY <1>1
  <2> QED BY <1>14, <2>1
<1> QED BY <1>2, <1>5, <1>6, <1>11, <1>15, Zenon DEF Same

\* The head of a history is its first frames and the tail its last ones, cut
\* across the segments (Head and Tail of history.Store).
THEOREM EndsAreEnds == Spec => []EndsOfHistory
<1>1. TInv => EndsOfHistory
  <2> SUFFICES ASSUME TInv PROVE EndsOfHistory
    OBVIOUS
  <2>1. hist \in Seq(SegType)
    BY Zenon DEF TInv, HistoryOK
  <2>2. 1 .. 3 \subseteq Nat
    OBVIOUS
  <2> QED BY <2>1, <2>2, TailFramesIs, HeadFramesIs DEF EndsOfHistory
<1> QED BY <1>1, TypeInvariant, PTL

\* How often an element occurs.
LEMMA TimesEmpty == ASSUME NEW x PROVE Times(<< >>, x) = 0
<1>1. {i \in DOMAIN << >> : << >>[i] = x} = {}
  OBVIOUS
<1> QED BY <1>1, FS_EmptySet DEF Times

\* One element more.
LEMMA TimesSnoc ==
  ASSUME NEW T, NEW s \in Seq(T), NEW y \in T, NEW x
  PROVE  /\ Times(s, x) \in Nat
         /\ y = x => Times(Append(s, y), x) = Times(s, x) + 1
         /\ y # x => Times(Append(s, y), x) = Times(s, x)
<1> DEFINE n == Len(s)
           S == {i \in 1 .. n : s[i] = x}
           u == Append(s, y)
           U == {i \in 1 .. n + 1 : u[i] = x}
<1>1. n \in Nat /\ DOMAIN s = 1 .. n /\ DOMAIN u = 1 .. n + 1
      /\ (\A i \in 1 .. n : u[i] = s[i]) /\ u[n + 1] = y
  OBVIOUS
<1> HIDE DEF n, u
<1>2. Times(s, x) = Cardinality(S) /\ Times(u, x) = Cardinality(U)
  BY <1>1 DEF Times
<1>3. IsFiniteSet(S)
  <2>1. 1 \in Int /\ n \in Int /\ S \in SUBSET (1 .. n)
    BY <1>1
  <2>2. IsFiniteSet(1 .. n)
    BY <2>1, FS_Interval
  <2> QED BY <2>1, <2>2, FS_Subset
<1>4. Cardinality(S) \in Nat
  BY <1>3, FS_CardinalityType
<1>5. n + 1 \notin S
  BY <1>1
<1>6. CASE y = x
  <2>1. U = S \cup {n + 1}
    BY <1>1, <1>6
  <2>2. Cardinality(U) = Cardinality(S) + 1
    BY <1>3, <1>5, <2>1, FS_AddElement
  <2> QED BY <1>2, <1>4, <1>6, <2>2 DEF u
<1>7. CASE y # x
  <2>1. U = S
    BY <1>1, <1>7
  <2> HIDE DEF S, U
  <2> QED BY <1>2, <1>4, <1>7, <2>1 DEF u
<1> QED BY <1>6, <1>7

\* One or two elements more.
LEMMA ConcatSnoc ==
  ASSUME NEW T, NEW s \in Seq(T), NEW y \in T, NEW z \in T
  PROVE  /\ s \o <<y>> = Append(s, y)
         /\ s \o <<y, z>> = Append(Append(s, y), z)
<1>1. s \o <<y>> = Append(s, y)
  OBVIOUS
<1>2. s \o <<y, z>> = Append(Append(s, y), z)
  OBVIOUS
<1> QED BY <1>1, <1>2

\* The last of a sequence and the last of its end are the same.
LEMMA LastIs ==
  ASSUME NEW T, NEW s \in Seq(T), NEW y \in T
  PROVE  /\ Last(Append(s, y)) = y
         /\ Append(s, y) # << >>
         /\ Append(s, y) \in Seq(T)
         /\ Len(Append(s, y)) = Len(s) + 1
BY DEF Last

\* Two rows may be printed next to each other.
Beside(rows, a, b) ==
  Gap \in {a, b} \/ \E j \in 1 .. Len(rows) - 1 : a = rows[j] /\ b = rows[j + 1]

\* Neighbours in s are neighbours in the rows, or there is a gap between them.
NextTo(rows, s) == \A i \in 1 .. Len(s) - 1 : Beside(rows, s[i], s[i + 1])

\* A row more that follows the last one printed.
LEMMA NextToSnoc ==
  ASSUME NEW rows, NEW s \in Seq(Int), NEW y \in Int, NextTo(rows, s),
         s = << >> \/ Beside(rows, Last(s), y)
  PROVE  NextTo(rows, Append(s, y))
<1> DEFINE n == Len(s)
           u == Append(s, y)
<1>1. n \in Nat /\ Len(u) = n + 1 /\ (\A i \in 1 .. n : u[i] = s[i]) /\ u[n + 1] = y
  OBVIOUS
<1>2. s = << >> <=> n = 0
  OBVIOUS
<1>3. Last(s) = s[n]
  BY DEF Last
<1> HIDE DEF n, u
<1> SUFFICES ASSUME NEW i, i \in 1 .. Len(u) - 1 PROVE Beside(rows, u[i], u[i + 1])
  BY DEF NextTo, u
<1>4. CASE i = n
  <2>1. i \in 1 .. n /\ i + 1 = n + 1 /\ n # 0
    BY <1>1, <1>4
  <2>2. Beside(rows, s[n], y)
    BY <1>2, <1>3, <2>1
  <2> QED BY <1>1, <1>4, <2>1, <2>2
<1>5. CASE i # n
  <2>1. i \in 1 .. n - 1 /\ i \in 1 .. n /\ i + 1 \in 1 .. n
    BY <1>1, <1>5
  <2>2. Beside(rows, s[i], s[i + 1])
    BY <2>1 DEF NextTo, n
  <2> QED BY <1>1, <2>1, <2>2
<1> QED BY <1>4, <1>5

\* What has been printed, out, when the search has come to row k of the rows.
Printed(rows, pat, marked, k, out) ==
  /\ out \in Seq(Int)
  /\ Len(out) <= 2 * k
  /\ Times(out, pat) = Times(SubSeq(rows, 1, k), pat)
  /\ k \in marked => out # << >> /\ Last(out) = rows[k]
  /\ (\A i \in marked : i > k) => out = << >>
  /\ NextTo(rows, out)

\* One row more of a search has been printed.
LEMMA PrintedNext ==
  ASSUME NEW rows \in Seq(Text), NEW pat \in Text, NEW marked, NEW k \in Nat, NEW out,
         k + 1 <= Len(rows), marked \subseteq 1 .. Len(rows),
         rows[k + 1] = pat => k + 1 \in marked,
         Printed(rows, pat, marked, k, out),
         NEW piece,
         piece = IF k + 1 \notin marked THEN << >>
                 ELSE IF k \notin marked /\ \E i \in marked : i < k + 1
                 THEN <<Gap, rows[k + 1]>> ELSE <<rows[k + 1]>>
  PROVE  Printed(rows, pat, marked, k + 1, out \o piece)
<1> DEFINE r == rows[k + 1]
           l == Len(out)
           N == Len(rows)
           old == SubSeq(rows, 1, k)
           t == Times(old, pat)
<1>1. /\ out \in Seq(Int) /\ l <= 2 * k /\ l \in Nat
      /\ Times(out, pat) = t
      /\ k \in marked => out # << >> /\ Last(out) = rows[k]
      /\ (\A i \in marked : i > k) => out = << >>
      /\ NextTo(rows, out)
  BY DEF Printed
<1>2. r \in Text /\ r \in Int /\ Gap \in Int /\ Gap # pat /\ N \in Nat /\ k + 1 \in 1 .. N
  <2>1. N \in Nat /\ k + 1 \in 1 .. N
    OBVIOUS
  <2>2. r \in Text
    BY <2>1
  <2> QED BY <2>1, <2>2, TextIsNoGap
<1>3. old \in Seq(Text) /\ SubSeq(rows, 1, k + 1) = Append(old, r)
  OBVIOUS
<1>4. Times(SubSeq(rows, 1, k + 1), pat) = t + (IF r = pat THEN 1 ELSE 0) /\ t \in Nat
  <2> HIDE DEF old, r
  <2>1. Times(Append(old, r), pat) = Times(old, pat) + (IF r = pat THEN 1 ELSE 0)
        /\ Times(old, pat) \in Nat
    BY <1>2, <1>3, TimesSnoc
  <2> QED BY <1>3, <2>1 DEF t
<1>5. piece = IF k + 1 \notin marked THEN << >>
              ELSE IF k \notin marked /\ \E i \in marked : i < k + 1
              THEN <<Gap, r>> ELSE <<r>>
  OBVIOUS
<1>6. r = pat => k + 1 \in marked
  OBVIOUS
<1>7. \A i \in marked : i \in Nat
  OBVIOUS
<1> HIDE DEF r, l, N, old, t
<1>8. CASE k + 1 \notin marked
  <2>1. out \o piece = out
    BY <1>1, <1>5, <1>8
  <2>2. Times(SubSeq(rows, 1, k + 1), pat) = t
    BY <1>4, <1>6, <1>8
  <2>3. (\A i \in marked : i > k + 1) => \A i \in marked : i > k
    BY <1>7
  <2>4. Len(out) <= 2 * (k + 1)
    BY <1>1 DEF l
  <2>5. Printed(rows, pat, marked, k + 1, out)
    BY <1>1, <1>8, <2>2, <2>3, <2>4, Zenon DEF Printed
  <2> QED BY <2>1, <2>5
<1>9. CASE k + 1 \in marked
  <2>1. ~ \A i \in marked : i > k + 1
    BY <1>9
  <2> SUFFICES /\ out \o piece \in Seq(Int)
               /\ Len(out \o piece) <= 2 * (k + 1)
               /\ Times(out \o piece, pat) = t + (IF r = pat THEN 1 ELSE 0)
               /\ out \o piece # << >> /\ Last(out \o piece) = r
               /\ NextTo(rows, out \o piece)
    BY <1>4, <2>1, Zenon DEF Printed, r
  <2>2. CASE k \notin marked /\ \E i \in marked : i < k + 1
    <3> DEFINE u == Append(out, Gap)
               w == Append(u, r)
    <3>1. out \o piece = w
      <4>1. piece = <<Gap, r>>
        BY <1>5, <1>9, <2>2
      <4>2. out \in Seq(Int) /\ Gap \in Int /\ r \in Int
        BY <1>1, <1>2
      <4>3. out \o <<Gap, r>> = Append(Append(out, Gap), r)
        BY <4>2, ConcatSnoc
      <4> QED BY <4>1, <4>3
    <3>2. u \in Seq(Int) /\ Len(u) = l + 1 /\ Last(u) = Gap
      <4>1. out \in Seq(Int) /\ Gap \in Int
        BY <1>1, <1>2
      <4> QED BY <4>1, LastIs, Zenon DEF l, u
    <3>3. Times(u, pat) = t
      <4>0. out \in Seq(Int) /\ Gap \in Int
        BY <1>1, <1>2
      <4>1. Gap # pat
        BY <1>2
      <4>2. Times(u, pat) = Times(out, pat)
        BY <4>0, <4>1, TimesSnoc, Zenon DEF u
      <4> QED BY <1>1, <4>2 DEF t
    <3>4. NextTo(rows, u)
      <4>1. Beside(rows, Last(out), Gap)
        BY DEF Beside
      <4> QED BY <1>1, <1>2, <4>1, NextToSnoc, Zenon DEF u
    <3>5. Beside(rows, Last(u), r)
      BY <3>2 DEF Beside
    <3> HIDE DEF u
    <3>6. w \in Seq(Int) /\ Len(w) = l + 2 /\ w # << >> /\ Last(w) = r
      <4>1. /\ Last(w) = r /\ w # << >> /\ w \in Seq(Int)
            /\ Len(w) = Len(u) + 1
        BY <1>2, <3>2, LastIs, Zenon
      <4> QED BY <1>1, <3>2, <4>1
    <3>7. Times(w, pat) = t + (IF r = pat THEN 1 ELSE 0)
      <4>1. Times(w, pat) = Times(u, pat) + (IF r = pat THEN 1 ELSE 0)
        <5>1. u \in Seq(Int) /\ r \in Int
          BY <1>2, <3>2
        <5>2. /\ r = pat => Times(w, pat) = Times(u, pat) + 1
              /\ r # pat => Times(w, pat) = Times(u, pat)
          BY <5>1, TimesSnoc, Zenon DEF w
        <5> QED BY <1>4, <3>3, <5>2
      <4> QED BY <3>3, <4>1
    <3>8. NextTo(rows, w)
      BY <1>2, <3>2, <3>4, <3>5, NextToSnoc, Zenon DEF w
    <3> HIDE DEF w
    <3>9. Len(w) <= 2 * (k + 1)
      BY <1>1, <3>6
    <3> QED BY <3>1, <3>6, <3>7, <3>8, <3>9
  <2>3. CASE ~ (k \notin marked /\ \E i \in marked : i < k + 1)
    <3> DEFINE w == Append(out, r)
    <3>1. out \o piece = w
      <4>1. piece = <<r>>
        BY <1>5, <1>9, <2>3
      <4> QED BY <1>1, <1>2, <4>1, ConcatSnoc
    <3>2. w \in Seq(Int) /\ Len(w) = l + 1 /\ w # << >> /\ Last(w) = r
      <4>1. out \in Seq(Int) /\ r \in Int
        BY <1>1, <1>2
      <4> QED BY <4>1, LastIs, Zenon DEF l, w
    <3>3. Times(w, pat) = t + (IF r = pat THEN 1 ELSE 0)
      <4>1. Times(w, pat) = Times(out, pat) + (IF r = pat THEN 1 ELSE 0)
        <5>1. out \in Seq(Int) /\ r \in Int
          BY <1>1, <1>2
        <5>2. /\ r = pat => Times(w, pat) = Times(out, pat) + 1
              /\ r # pat => Times(w, pat) = Times(out, pat)
          BY <5>1, TimesSnoc, Zenon DEF w
        <5> QED BY <1>1, <1>4, <5>2
      <4> QED BY <1>1, <4>1
    <3>4. out = << >> \/ Beside(rows, Last(out), r)
      <4>1. CASE k \in marked
        <5>1. k \in 1 .. N - 1
          BY <1>2, <1>7, <4>1 DEF N
        <5>2. Last(out) = rows[k] /\ r = rows[k + 1]
          BY <1>1, <4>1 DEF r
        <5> QED BY <5>1, <5>2 DEF Beside, N
      <4>2. CASE k \notin marked
        <5>1. \A i \in marked : i > k
          BY <1>7, <2>3, <4>2
        <5> QED BY <1>1, <5>1
      <4> QED BY <4>1, <4>2
    <3>5. NextTo(rows, w)
      BY <1>1, <1>2, <3>4, NextToSnoc, Zenon DEF w
    <3> HIDE DEF w
    <3>6. Len(w) <= 2 * (k + 1)
      BY <1>1, <3>2
    <3> QED BY <3>1, <3>2, <3>3, <3>5, <3>6
  <2> QED BY <2>2, <2>3
<1> QED BY <1>8, <1>9

\* A whole search.
LEMMA GrepIs ==
  ASSUME NEW rows \in Seq(Text), NEW pat \in Text, NEW ctx \in Nat
  PROVE  LET out == GrepLines(rows, pat, ctx) IN
         /\ out \in Seq(Int) /\ Len(out) <= 2 * Len(rows)
         /\ Times(out, pat) = Times(rows, pat)
         /\ NextTo(rows, out)
<1> DEFINE N == Len(rows)
           M == Marked(rows, pat, ctx)
           parted(i) == i - 1 \notin M /\ \E k \in M : k < i
           piece(i) == IF i \notin M THEN << >>
                       ELSE IF parted(i) THEN <<Gap, rows[i]>> ELSE <<rows[i]>>
           ss == [i \in 1 .. N |-> piece(i)]
           out == GrepLines(rows, pat, ctx)
<1>1. N \in Nat /\ DOMAIN rows = 1 .. N /\ \A i \in 1 .. N : rows[i] \in Text
  OBVIOUS
<1>2. out = FlattenSeq(ss)
  BY <1>1 DEF GrepLines
<1>3. M \subseteq 1 .. N /\ \A i \in 1 .. N : rows[i] = pat => i \in M
  BY <1>1 DEF Marked
<1> HIDE DEF M, N
<1>4. \A i \in 1 .. N : piece(i) \in Seq(Int)
  <2> SUFFICES ASSUME NEW i, i \in 1 .. N PROVE piece(i) \in Seq(Int)
    OBVIOUS
  <2> DEFINE r == rows[i]
  <2>1. r \in Int /\ Gap \in Int
    BY <1>1, TextIsNoGap
  <2> HIDE DEF r
  <2>2. << >> \in Seq(Int) /\ <<r>> \in Seq(Int) /\ <<Gap, r>> \in Seq(Int)
    BY <2>1
  <2> QED BY <2>2, Zenon DEF r
<1> HIDE DEF piece
<1>5. ss \in Seq(Seq(Int)) /\ Len(ss) = N /\ \A i \in 1 .. N : ss[i] = piece(i)
  BY <1>1, <1>4
<1> HIDE DEF ss, out
<1>6. PICK F : Builds(F, ss, Int)
  BY <1>5, FlattenBuilt
<1>7. /\ F[0] = << >> /\ F[N] = out
      /\ \A k \in 0 .. N - 1 : F[k + 1] = F[k] \o ss[k + 1]
  BY <1>2, <1>5, <1>6, Zenon DEF Builds
<1> DEFINE P(k) == Printed(rows, pat, M, k, F[k])
           S == {k \in Nat : k <= N => P(k)}
<1>8. P(0)
  <2>1. SubSeq(rows, 1, 0) = << >> /\ << >> \in Seq(Int) /\ Len(<< >>) = 0
    OBVIOUS
  <2>2. 0 \notin M
    BY <1>3
  <2>3. NextTo(rows, << >>)
    BY <2>1 DEF NextTo
  <2>4. /\ << >> \in Seq(Int) /\ Len(<< >>) <= 2 * 0
        /\ Times(<< >>, pat) = Times(SubSeq(rows, 1, 0), pat)
    <3>1. Times(<< >>, pat) = Times(SubSeq(rows, 1, 0), pat)
      BY <2>1, Zenon
    <3> QED BY <2>1, <3>1
  <2>5. Printed(rows, pat, M, 0, << >>)
    BY <2>2, <2>3, <2>4, Zenon DEF Printed
  <2> QED BY <1>7, <2>5
<1>9. ASSUME NEW k \in Nat, k + 1 <= N, P(k) PROVE P(k + 1)
  <2> DEFINE e == F[k]
             p == piece(k + 1)
  <2>1. k + 1 <= Len(rows) /\ M \subseteq 1 .. Len(rows)
        /\ (rows[k + 1] = pat => k + 1 \in M)
    BY <1>1, <1>3, <1>9 DEF N
  <2>2. Printed(rows, pat, M, k, e)
    BY <1>9, Zenon
  <2>3. p = IF k + 1 \notin M THEN << >>
            ELSE IF k \notin M /\ \E i \in M : i < k + 1
            THEN <<Gap, rows[k + 1]>> ELSE <<rows[k + 1]>>
    <3>1. (k + 1) - 1 = k
      OBVIOUS
    <3> QED BY <3>1, Zenon DEF piece
  <2>4. F[k + 1] = e \o p
    <3>1. k \in 0 .. N - 1 /\ k + 1 \in 1 .. N
      BY <1>1, <1>9
    <3> QED BY <1>5, <1>7, <3>1
  <2> HIDE DEF e, p
  <2>5. Printed(rows, pat, M, k + 1, e \o p)
    BY <2>1, <2>2, <2>3, PrintedNext
  <2> QED BY <2>4, <2>5
<1> HIDE DEF P
<1>10. 0 \in S /\ \A k \in Nat : k \in S => k + 1 \in S
  BY <1>1, <1>8, <1>9
<1>11. Nat \subseteq S
  <2> HIDE DEF S
  <2> QED BY <1>10, Induct
<1>12. P(N)
  BY <1>1, <1>11
<1>13. SubSeq(rows, 1, N) = rows
  BY DEF N
<1>14. /\ out \in Seq(Int) /\ Len(out) <= 2 * N
       /\ Times(out, pat) = Times(SubSeq(rows, 1, N), pat)
       /\ NextTo(rows, out)
  BY <1>7, <1>12, Zenon DEF P, Printed
<1> QED BY <1>13, <1>14 DEF out, N

\* A limit keeps the end.
LEMMA CapKeepsLast ==
  ASSUME NEW out \in Seq(Int), NEW limit \in Nat \ {0}
  PROVE  /\ Last(CapJoin(out, limit)) = Last(out)
         /\ Len(out) <= limit => CapJoin(out, limit) = out
<1> DEFINE a == Newest(out, limit)
           l == Len(out)
<1>1. l \in Nat /\ Last(out) = out[l]
  BY DEF Last
<1>2. CASE l > limit
  <2>1. /\ a \in Seq(Int) /\ Len(a) = IF l > limit THEN limit ELSE l
        /\ \A i \in 1 .. Len(a) : a[i] = out[l - Len(a) + i]
    BY NewestIs
  <2> DEFINE la == Len(a)
  <2>2. la = limit /\ la \in Nat /\ la \in 1 .. la /\ la # 0
    BY <1>2, <2>1
  <2> HIDE DEF a, l
  <2>3. a[la] = out[l - la + la]
    BY <2>1, <2>2
  <2>4. l - la + la = l
    BY <1>1, <2>2
  <2> DEFINE c == <<Elided>> \o a
  <2>5. Len(c) = 1 + la /\ c[1 + la] = a[la]
    BY <2>1, <2>2 DEF Elided
  <2>6. Last(c) = out[l]
    BY <2>3, <2>4, <2>5 DEF Last
  <2>7. CapJoin(out, limit) = c
    BY <1>2 DEF CapJoin, a, l
  <2>8. ~ (Len(out) <= limit)
    BY <1>1, <1>2 DEF l
  <2> QED BY <1>1, <2>6, <2>7, <2>8
<1>3. CASE ~ (l > limit)
  BY <1>3 DEF CapJoin
<1> QED BY <1>2, <1>3

\* A history is rendered as rows.
LEMMA RenderedIs ==
  ASSUME NEW h \in Seq(SegType)
  PROVE  Rendered(h) \in Seq(Text)
<1> DEFINE ss == [i \in DOMAIN h |-> RenderSegment(h[i])]
<1>1. Len(h) \in Nat /\ DOMAIN h = 1 .. Len(h) /\ \A i \in 1 .. Len(h) : h[i] \in SegType
  OBVIOUS
<1>2. \A i \in 1 .. Len(h) : RenderSegment(h[i]) \in Seq(Text)
  <2> SUFFICES ASSUME NEW seg \in SegType PROVE RenderSegment(seg) \in Seq(Text)
    BY <1>1
  <2>1. CASE seg.kind = "lines"
    <3>1. RenderSegment(seg) \in Seq(Nat)
      BY <2>1 DEF RenderSegment, SegType
    <3> QED BY <3>1, RowsAreText
  <2>2. CASE seg.kind # "lines"
    BY <2>2, ReadBack
  <2> QED BY <2>1, <2>2
<1>3. ss \in Seq(Seq(Text))
  BY <1>1, <1>2
<1> HIDE DEF ss
<1>4. FlattenSeq(ss) \in Seq(Text)
  BY <1>3, FlattenType
<1> QED BY <1>4 DEF Rendered, ss

\* A search gives every match as often as the history has it, puts rows next to
\* each other only if they are neighbours there, and a limit takes away from the
\* oldest end only (grepLines and capJoin).
THEOREM SearchesAreWhole == Spec => []SearchIsWhole
<1>1. TInv => SearchIsWhole
  <2> SUFFICES ASSUME TInv PROVE SearchIsWhole
    OBVIOUS
  <2>1. hist \in Seq(SegType)
    BY Zenon DEF TInv, HistoryOK
  <2> DEFINE rows == Rendered(hist)
             pairs == {<<rows[j], rows[j + 1]>> : j \in 1 .. Len(rows) - 1}
  <2>2. rows \in Seq(Text)
    BY <2>1, RenderedIs
  <2> HIDE DEF rows
  <2> SUFFICES ASSUME NEW pat, pat \in ToSet(rows), NEW ctx, ctx \in {0, 1}
               PROVE  LET out == QueryGrep(hist, pat, ctx, 4 * Len(rows)) IN
                      /\ Times(out, pat) = Times(rows, pat)
                      /\ \A i \in 1 .. Len(out) - 1 :
                           Gap \in {out[i], out[i + 1]} \/ <<out[i], out[i + 1]>> \in pairs
                      /\ Last(QueryGrep(hist, pat, ctx, 2)) = Last(out)
    BY DEF SearchIsWhole, rows
  <2> DEFINE g == GrepLines(rows, pat, ctx)
             n == Len(rows)
  <2>3. pat \in Text /\ ctx \in Nat /\ n \in Nat /\ n # 0
    BY <2>2 DEF ToSet
  <2>4. /\ g \in Seq(Int) /\ Len(g) <= 2 * n
        /\ Times(g, pat) = Times(rows, pat)
        /\ NextTo(rows, g)
    BY <2>2, <2>3, GrepIs
  <2> HIDE DEF g
  <2>5. 4 * n \in Nat \ {0} /\ 2 \in Nat \ {0} /\ Len(g) <= 4 * n
    <3>1. Len(g) \in Nat
      BY <2>4
    <3> HIDE DEF n
    <3> QED BY <2>3, <2>4, <3>1
  <2>6. CapJoin(g, 4 * n) = g /\ Last(CapJoin(g, 2)) = Last(g)
    BY <2>4, <2>5, CapKeepsLast
  <2>7. QueryGrep(hist, pat, ctx, 4 * n) = g /\ QueryGrep(hist, pat, ctx, 2) = CapJoin(g, 2)
    BY <2>6 DEF QueryGrep, g, rows
  <2>8. \A i \in 1 .. Len(g) - 1 :
          Gap \in {g[i], g[i + 1]} \/ <<g[i], g[i + 1]>> \in pairs
    BY <2>4 DEF NextTo, Beside
  <2> QED BY <2>4, <2>6, <2>7, <2>8
<1> QED BY <1>1, TypeInvariant, PTL
=============================================================================
