------------------------------ MODULE Streams ------------------------------
(***************************************************************************)
(* The live output of one session on its way to the user.  A stream        *)
(* (plugins/claude, Stream) tails the session's transcript from its end    *)
(* and hands each turn, over a channel without a buffer, to one of three   *)
(* consumers: the pump of a live tail (service/watch.go), the loop of a    *)
(* narration (service/narrate.go), or the loop of the ambient narration    *)
(* that the fleet watcher starts by itself (service/ambient.go and         *)
(* ambientSync in service/stream.go).  What they say goes to the SSE       *)
(* clients, through buffers that drop what does not fit.                   *)
(*                                                                         *)
(* A stream and its consumer are an instance, numbered as they are begun.  *)
(***************************************************************************)
EXTENDS Naturals, Sequences, FiniteSets, SequencesExt, Functions

CONSTANTS
  Records,    \* the transcript: what each record projects to, "" for nothing
  Noise,      \* what l1Distill does not take for a state of the session
  SseCap,     \* the buffer of an SSE client
  DeltaCap,   \* narrateMaxChars, in turns: how much of a delta the model is given
  MinSpeak,   \* the least time between two utterances
  MaxTime, MaxStarts   \* bounds

ASSUME BoundsAssumption ==
  /\ SseCap \in Nat \ {0} /\ DeltaCap \in Nat \ {0} /\ MaxStarts \in Nat
  /\ MinSpeak \in Nat /\ MaxTime \in Nat /\ MinSpeak <= MaxTime
  /\ Len(Records) \in Nat \ {0}

VARIABLES
  kind,      \* the consumer: "tail", "narration" or "ambient"
  written,   \* how many records the transcript has; it is created by the first
  inst,      \* the instances
  active,    \* the instance under the session's key; 0 for none
  cells,     \* the ambient cells, by the instance that made them
  cellOf,    \* the cell under the session's key; 0 for none
  now,       \* the clock
  client,    \* the buffer of an SSE client
  got        \* what it has read about tails

vars == <<kind, written, inst, active, cells, cellOf, now, client, got>>

Instances == 1 .. MaxStarts

NoInst == [pc |-> "none", open |-> FALSE, cancelled |-> FALSE, from |-> 0,
           off |-> 0, buf |-> << >>, said |-> << >>, cell |-> 0]

\* The clock starts at MinSpeak, so that a time in the past is 0.
NewCell == [snapshot |-> "", distillRev |-> 0, spokenRev |-> 0, nudged |-> FALSE,
            lastSpoken |-> 0]

Init ==
  /\ kind \in {"tail", "narration", "ambient"}
  /\ written \in {0, 1}
  /\ inst = [i \in Instances |-> NoInst]
  /\ active = 0
  /\ cells = [i \in Instances |-> NewCell] /\ cellOf = 0
  /\ now = MinSpeak
  /\ client = << >> /\ got = << >>

Unused == {i \in Instances : inst[i].pc = "none"}
Next1 == CHOOSE i \in Unused : \A j \in Unused : i <= j

Projected(r) == Records[r] # ""

Utterance == <<"narration", 0>>

\* Mutant: a slow client keeps everything.
BroadcastAll(m) == client' = Append(client, m)

\* A slow client: what does not fit is dropped.
Broadcast(m) == client' = IF Len(client) < SseCap THEN Append(client, m) ELSE client

(***************************************************************************)
(* The transcript, the clock, and the client.                              *)
(***************************************************************************)
Write ==
  /\ written < Len(Records)
  /\ written' = written + 1
  /\ UNCHANGED <<kind, inst, active, cells, cellOf, now, client, got>>

Pass ==
  /\ kind = "ambient" /\ now < MaxTime
  /\ now' = now + 1
  /\ UNCHANGED <<kind, written, inst, active, cells, cellOf, client, got>>

ClientReads ==
  /\ client # << >>
  /\ client' = Tail(client)
  /\ got' = IF Head(client) = Utterance THEN got ELSE Append(got, Head(client))
  /\ UNCHANGED <<kind, written, inst, active, cells, cellOf, now>>

(***************************************************************************)
(* Starting and stopping at the user's request: the key is taken under the *)
(* lock; a request that finds it taken does nothing.  Stopping cancels the *)
(* context and leaves the key to the consumer.                             *)
(***************************************************************************)
\* Nobody has the session's key in the hub of its kind.
KeyIsFree == active = 0

\* Mutant: the key is looked at and taken in two steps, and the second wins.
StartAnyway ==
  /\ kind # "ambient" /\ Unused # {}
  /\ inst' = [inst EXCEPT ![Next1].pc = "registered"]
  /\ active' = Next1
  /\ UNCHANGED <<kind, written, cells, cellOf, now, client, got>>

Start ==
  /\ kind # "ambient" /\ Unused # {} /\ KeyIsFree
  /\ inst' = [inst EXCEPT ![Next1].pc = "registered"]
  /\ active' = Next1
  /\ UNCHANGED <<kind, written, cells, cellOf, now, client, got>>

\* Mutant: the stream begins at the start of the transcript.
ObservedWhole(i) == [i EXCEPT !.open = written > 0]

\* Observe fixes the point the stream begins at; without a transcript the
\* channel is closed from the start.
Observed(i) == [i EXCEPT !.open = written > 0, !.from = written, !.off = written]

Observe(i) ==
  /\ kind # "ambient" /\ inst[i].pc = "registered"
  /\ inst' = [inst EXCEPT ![i] = [Observed(@) EXCEPT !.pc = "loop"]]
  /\ UNCHANGED <<kind, written, active, cells, cellOf, now, client, got>>

Stop ==
  /\ kind # "ambient" /\ active # 0
  /\ inst' = [inst EXCEPT ![active].cancelled = TRUE]
  /\ UNCHANGED <<kind, written, active, cells, cellOf, now, client, got>>

(***************************************************************************)
(* ambientSync, on the watcher's tick: a session of the fleet without an   *)
(* entry gets a stream, an entry and a loop; an entry whose session is not *)
(* listed (it left, or its source did not answer) goes with its cell.      *)
(***************************************************************************)
\* start: an old cell is set back, so that it may speak at once.
SetBack(c) ==
  IF now - c.lastSpoken < MinSpeak THEN [c EXCEPT !.lastSpoken = now - MinSpeak] ELSE c

SyncStart ==
  /\ kind = "ambient" /\ Unused # {} /\ KeyIsFree
  /\ LET i == Next1
     IN /\ inst' = [inst EXCEPT ![i] = [Observed(@) EXCEPT !.pc = "registered"]]
        /\ active' = i
        /\ IF cellOf = 0 THEN cellOf' = i /\ UNCHANGED cells
           ELSE cells' = [cells EXCEPT ![cellOf] = SetBack(@)] /\ UNCHANGED cellOf
  /\ UNCHANGED <<kind, written, now, client, got>>

SyncStop ==
  /\ kind = "ambient" /\ active # 0
  /\ inst' = [inst EXCEPT ![active].cancelled = TRUE]
  /\ active' = 0 /\ cellOf' = 0
  /\ UNCHANGED <<kind, written, cells, now, client, got>>

\* The loop looks its cell up, and makes one when it has gone already.
AmbientBegins(i) ==
  /\ kind = "ambient" /\ inst[i].pc = "registered"
  /\ LET c == IF cellOf = 0 THEN i ELSE cellOf IN
       /\ inst' = [inst EXCEPT ![i].pc = "loop", ![i].cell = c]
       /\ cellOf' = c
  /\ UNCHANGED <<kind, written, active, cells, now, client, got>>

(***************************************************************************)
(* The stream.                                                             *)
(***************************************************************************)
\* The stream of an ambient narration has the context of the watcher, which
\* is never cancelled.
Close(i) ==
  /\ inst[i].open /\ inst[i].cancelled /\ kind # "ambient"
  /\ inst' = [inst EXCEPT ![i].open = FALSE]
  /\ UNCHANGED <<kind, written, active, cells, cellOf, now, client, got>>

\* The next record is read; unless it projects to nothing, the consumer takes
\* it from the channel: the pump broadcasts it, the loops keep it.
HandOver(i) ==
  /\ inst[i].open /\ inst[i].pc = "loop" /\ inst[i].off < written
  /\ LET r == inst[i].off + 1 IN
       /\ inst' = [inst EXCEPT ![i].off = r,
            ![i].buf = IF Projected(r) /\ kind # "tail" THEN Append(@, r) ELSE @]
       /\ IF Projected(r) /\ kind = "tail" THEN Broadcast(<<"tail", r>>)
          ELSE UNCHANGED client
  /\ UNCHANGED <<kind, written, active, cells, cellOf, now, got>>

(***************************************************************************)
(* The pump, which ends with its channel.                                  *)
(***************************************************************************)
PumpEnds(i) ==
  /\ kind = "tail" /\ inst[i].pc = "loop" /\ ~inst[i].open
  /\ Broadcast(<<"tail-end", i>>)
  /\ inst' = [inst EXCEPT ![i].pc = "end"]
  /\ UNCHANGED <<kind, written, active, cells, cellOf, now, got>>

\* Mutant: the consumer leaves its key behind.
LeaveKey(i) ==
  /\ inst[i].pc = "end" /\ kind # "ambient"
  /\ inst' = [inst EXCEPT ![i].pc = "done"]
  /\ UNCHANGED <<kind, written, active, cells, cellOf, now, client, got>>

\* The deferred drop of the pump and of the narration's loop.
DropKey(i) ==
  /\ inst[i].pc = "end" /\ kind # "ambient"
  /\ inst' = [inst EXCEPT ![i].pc = "done"]
  /\ active' = 0
  /\ UNCHANGED <<kind, written, cells, cellOf, now, client, got>>

(***************************************************************************)
(* The loop of a narration: each tick, and the end of the channel, give    *)
(* the model what has been kept, cut down to its newest part, and wait for *)
(* its answer.  What is cut is not kept for the next time.                 *)
(***************************************************************************)
Delta(buf) ==
  IF Len(buf) <= DeltaCap THEN buf ELSE SubSeq(buf, Len(buf) - DeltaCap + 1, Len(buf))

\* Mutant: what was given to the model is not forgotten.
FlushAgain(i) ==
  /\ kind = "narration" /\ inst[i].pc = "loop" /\ inst[i].buf # << >>
  /\ inst' = [inst EXCEPT ![i].pc = "say", ![i].said = @ \o Delta(inst[i].buf)]
  /\ UNCHANGED <<kind, written, active, cells, cellOf, now, client, got>>

Flush(i) ==
  /\ kind = "narration" /\ inst[i].pc = "loop" /\ inst[i].buf # << >>
  /\ inst' = [inst EXCEPT ![i].pc = "say", ![i].said = @ \o Delta(inst[i].buf),
                          ![i].buf = << >>]
  /\ UNCHANGED <<kind, written, active, cells, cellOf, now, client, got>>

\* The model has a line, or none: it has failed, or has nothing to say.
Narrated(i) ==
  /\ kind = "narration" /\ inst[i].pc = "say"
  /\ Broadcast(Utterance) \/ UNCHANGED client
  /\ inst' = [inst EXCEPT ![i].pc = "loop"]
  /\ UNCHANGED <<kind, written, active, cells, cellOf, now, got>>

\* The loop ends at once when it is cancelled; when the channel has been
\* closed, after a last flush.
NarrationEnds(i) ==
  /\ kind = "narration" /\ inst[i].pc = "loop"
  /\ inst[i].cancelled \/ (~inst[i].open /\ inst[i].buf = << >>)
  /\ inst' = [inst EXCEPT ![i].pc = "end"]
  /\ UNCHANGED <<kind, written, active, cells, cellOf, now, client, got>>

(***************************************************************************)
(* The loop of an ambient narration.                                       *)
(***************************************************************************)
\* l1Distill: the last record that is not noise.
Distilled(buf) ==
  LET meant == SelectSeq(buf, LAMBDA r : Records[r] \notin Noise)
  IN IF meant = << >> THEN "" ELSE Records[Last(meant)]

\* Mutant: the gap to the last utterance is not looked at.
GateOpen(c, quiet) == ~c.nudged /\ ~quiet

Gate(c, quiet) == ~c.nudged /\ ~quiet /\ now - c.lastSpoken >= MinSpeak

\* The cell advances when what was kept distils to another state, whether it
\* is spoken of or not; in quiet hours, or too soon, it is not.
Distil(i) ==
  /\ kind = "ambient" /\ inst[i].pc = "loop" /\ inst[i].buf # << >>
  /\ \E quiet \in BOOLEAN :
     LET k == inst[i].cell
         c == cells[k]
         snapshot == Distilled(inst[i].buf)
         changed == snapshot # "" /\ snapshot # c.snapshot
         advanced == [c EXCEPT !.snapshot = snapshot, !.distillRev = @ + 1]
         speak == changed /\ advanced.distillRev > c.spokenRev /\ Gate(c, quiet)
     IN /\ cells' = IF changed
                    THEN [cells EXCEPT ![k] = [advanced EXCEPT !.nudged = speak \/ @]]
                    ELSE cells
        /\ inst' = [inst EXCEPT ![i].buf = << >>,
                                ![i].pc = IF speak THEN "say" ELSE "loop"]
  /\ UNCHANGED <<kind, written, active, cellOf, now, client, got>>

Spoken(i) ==
  /\ kind = "ambient" /\ inst[i].pc = "say"
  /\ LET k == inst[i].cell IN
       cells' = [cells EXCEPT ![k].nudged = FALSE, ![k].lastSpoken = now,
                              ![k].spokenRev = cells[k].distillRev]
  /\ Broadcast(Utterance) \/ UNCHANGED client
  /\ inst' = [inst EXCEPT ![i].pc = "loop"]
  /\ UNCHANGED <<kind, written, active, cellOf, now, got>>

\* A closed channel ends the loop, and leaves the entry under the key; the
\* stream, when it is open, stays behind, with nobody to hand a record to.
AmbientEnds(i) ==
  /\ kind = "ambient" /\ inst[i].pc = "loop"
  /\ inst[i].cancelled \/ (~inst[i].open /\ inst[i].buf = << >>)
  /\ inst' = [inst EXCEPT ![i] = [NoInst EXCEPT !.pc = "done", !.open = inst[i].open]]
  /\ UNCHANGED <<kind, written, active, cells, cellOf, now, client, got>>

Consume(i) ==
  \/ PumpEnds(i) \/ DropKey(i)
  \/ Flush(i) \/ Narrated(i) \/ NarrationEnds(i)
  \/ AmbientBegins(i) \/ Distil(i) \/ Spoken(i) \/ AmbientEnds(i)

Next ==
  \/ Write \/ Pass \/ ClientReads
  \/ Start \/ Stop \/ SyncStart \/ SyncStop
  \/ \E i \in Instances : Observe(i) \/ HandOver(i) \/ Close(i) \/ Consume(i)

Spec == Init /\ [][Next]_vars

\* The goroutines of an instance run, the model answers or is given up after
\* its timeout, and a select that may end is not passed over for ever.
FairSpec ==
  Spec /\ \A i \in Instances :
            WF_vars(Observe(i)) /\ WF_vars(Close(i)) /\ WF_vars(Consume(i))
         /\ WF_vars(AmbientEnds(i)) /\ WF_vars(NarrationEnds(i))

(***************************************************************************)
(* Properties.                                                             *)
(***************************************************************************)
Pcs == {"none", "registered", "loop", "say", "end", "done"}

TypeOK ==
  /\ written \in 0 .. Len(Records) /\ now \in MinSpeak .. MaxTime
  /\ active \in 0 .. MaxStarts /\ cellOf \in 0 .. MaxStarts
  /\ \A i \in Instances :
       /\ inst[i].pc \in Pcs /\ inst[i].cell \in 0 .. MaxStarts
       /\ inst[i].from <= inst[i].off /\ inst[i].off <= written
       /\ cells[i].spokenRev <= cells[i].distillRev
       /\ cells[i].lastSpoken \in 0 .. now
  /\ Len(client) <= SseCap

\* A session has one live consumer at most: every other one has been told to
\* stop (the maps of the hubs, ambientSync).
Running(i) == inst[i].pc \in {"registered", "loop", "say"}
OneLoop ==
  \A i, j \in Instances :
    i # j /\ Running(i) /\ Running(j) => inst[i].cancelled \/ inst[j].cancelled

\* A client sees the lines of a tail in order and at most once, whatever it
\* misses, and none of a tail that it has been told has ended: a tail that is
\* begun again comes after the end of the one before (pump, handleWatch).
EndIsLast ==
  \A m, n \in DOMAIN got :
    m < n =>
      /\ got[m][1] = "tail" /\ got[n][1] = "tail" => got[m][2] < got[n][2]
      /\ got[m][1] = "tail-end" /\ got[n][1] = "tail"
         => got[n][2] > inst[got[m][2]].off
      /\ got[m][1] = "tail-end" /\ got[n][1] = "tail-end" => got[m][2] < got[n][2]

\* What the model has been given and what is still kept are turns written since
\* the narration began, in order and none of them twice; and no turn the stream
\* has read is missing but for the older part of a burst: DeltaCap later turns
\* were given to the model in its place (narrateLoop, narrator.line).
ToldOnce ==
  kind = "narration" =>
    \A i \in Instances :
      LET said == inst[i].said
          told == said \o inst[i].buf
          read == {r \in inst[i].from + 1 .. inst[i].off : Projected(r)}
      IN /\ \A m, n \in DOMAIN told : m < n => told[m] < told[n]
         /\ ToSet(told) \subseteq read
         /\ \A r \in read \ ToSet(told) :
              \E m \in DOMAIN said : r < said[m] /\ m + DeltaCap <= Len(said) + 1

\* Between two utterances about a session there is the least time, however
\* long the model takes for the first (the gate of ambientLoop); a session that
\* left the fleet and came back begins anew.
GapHeld ==
  [][\A c \in Instances :
       cells'[c].lastSpoken > cells[c].lastSpoken
       => cells'[c].lastSpoken - cells[c].lastSpoken >= MinSpeak]_vars

\* What was told to stop ends, and gives its key back, so that it can be begun
\* again (handleUnwatch and pump, handleUnnarrate and narrateLoop, ambientSync).
StoppedEnds ==
  \A i \in Instances :
    inst[i].cancelled ~> (inst[i].pc = "done" /\ active # i)
=============================================================================
