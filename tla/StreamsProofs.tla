--------------------------- MODULE StreamsProofs ---------------------------
(***************************************************************************)
(* One consumer per session, the gap between two utterances, what a        *)
(* narration tells and what a client sees of a tail, for any transcript,   *)
(* any number of starts, any gap and any buffer.                           *)
(***************************************************************************)
EXTENDS Streams, WellFoundedInduction, TLAPS

Snapshots == {""} \cup {Distilled(buf) : buf \in Seq(Nat)}

Inst == [pc : Pcs, open : BOOLEAN, cancelled : BOOLEAN, from : Nat, off : Nat,
         buf : Seq(Nat), said : Seq(Nat), cell : Nat]
Cell == [snapshot : Snapshots, distillRev : Nat, spokenRev : Nat,
         nudged : BOOLEAN, lastSpoken : Nat]
Messages == {"tail", "tail-end", "narration"} \X Nat

\* What TypeOK leaves to the definitions of the variables.
Shape ==
  /\ kind \in {"tail", "narration", "ambient"}
  /\ inst \in [Instances -> Inst]
  /\ cells \in [Instances -> Cell]
  /\ client \in Seq(Messages)

\* A consumer that has not been told to stop is the one under the key; the pump
\* and the loop of a narration stay under it until they have given it back.
KeyInv ==
  \A i \in Instances :
    \/ inst[i].pc \in {"none", "done"}
    \/ active = i
    \/ kind = "ambient" /\ inst[i].cancelled

\* An utterance about a session is under way for one loop at a time, although
\* two loops may share a cell, and the gap to the last one has passed.
SayInv ==
  kind = "ambient" =>
    \A i \in Instances :
      /\ inst[i].pc \in {"loop", "say"} => inst[i].cell \in Instances
      /\ inst[i].pc = "say" =>
           /\ cells[inst[i].cell].nudged
           /\ now - cells[inst[i].cell].lastSpoken >= MinSpeak
           /\ \A j \in Instances :
                j # i /\ inst[j].pc = "say" => inst[j].cell # inst[i].cell

\* The inductive invariant of the consumers.
IInv == Shape /\ TypeOK /\ KeyInv /\ SayInv

\* The instance that is begun next has not been begun.
LEMMA FreshInstance == ASSUME Unused # {} PROVE Next1 \in Unused
<1>1. Unused \subseteq Nat
  BY BoundsAssumption DEF Unused, Instances
<1>2. PICK i \in Unused : \A j \in Unused : <<j, i>> \notin OpToRel(<, Nat)
  BY <1>1, NatLessThanWellFounded, WFMin
<1>3. \A j \in Unused : i <= j
  <2> SUFFICES ASSUME NEW j \in Unused, ~(i <= j) PROVE FALSE
    OBVIOUS
  <2>1. i \in Nat /\ j \in Nat /\ j < i
    BY <1>1
  <2> QED
    BY <1>2, <2>1 DEF OpToRel
<1> QED
  BY <1>3 DEF Next1

\* A message that is broadcast leaves the buffer well formed.
LEMMA Broadcasting ==
  ASSUME client \in Seq(Messages),
         Len(client) <= SseCap,
         NEW m \in Messages,
         Broadcast(m)
  PROVE  /\ client' \in Seq(Messages)
         /\ Len(client') <= SseCap
BY BoundsAssumption DEF Broadcast

\* It holds in the beginning.
LEMMA InitIInv == Init => IInv
<1> SUFFICES ASSUME Init PROVE IInv
  OBVIOUS
<1>1. NoInst \in Inst /\ NewCell \in Cell
  BY DEF NoInst, Inst, NewCell, Cell, Snapshots, Pcs
<1>2. << >> \in Seq(Messages)
  OBVIOUS
<1>3. Shape
  BY <1>1, <1>2 DEF Init, Shape
<1>4. TypeOK
  <2>1. written \in 0 .. Len(Records) /\ now \in MinSpeak .. MaxTime
    BY BoundsAssumption DEF Init
  <2>2. active \in 0 .. MaxStarts /\ cellOf \in 0 .. MaxStarts
    BY BoundsAssumption DEF Init
  <2>3. Len(client) <= SseCap
    BY BoundsAssumption DEF Init
  <2>4. ASSUME NEW i \in Instances
        PROVE  /\ inst[i].pc \in Pcs /\ inst[i].cell \in 0 .. MaxStarts
               /\ inst[i].from <= inst[i].off /\ inst[i].off <= written
               /\ cells[i].spokenRev <= cells[i].distillRev
               /\ cells[i].lastSpoken \in 0 .. now
    <3>1. inst[i] = NoInst /\ cells[i] = NewCell
      BY DEF Init
    <3>2. now \in Nat /\ written \in Nat
      BY BoundsAssumption DEF Init
    <3>a. /\ NoInst.pc = "none" /\ NoInst.cell = 0 /\ NoInst.from = 0 /\ NoInst.off = 0
          /\ NewCell.spokenRev = 0 /\ NewCell.distillRev = 0 /\ NewCell.lastSpoken = 0
      BY DEF NoInst, NewCell
    <3>3. /\ inst[i].pc = "none" /\ inst[i].cell = 0 /\ inst[i].from = 0 /\ inst[i].off = 0
          /\ cells[i].spokenRev = 0 /\ cells[i].distillRev = 0 /\ cells[i].lastSpoken = 0
      BY <3>1, <3>a
    <3>4. inst[i].pc \in Pcs
      BY <3>3 DEF Pcs
    <3>5. 0 \in 0 .. MaxStarts /\ 0 <= 0 /\ 0 <= written /\ 0 \in 0 .. now
      BY <3>2, BoundsAssumption
    <3> QED
      BY <3>3, <3>4, <3>5
  <2> QED
    BY <2>1, <2>2, <2>3, <2>4 DEF TypeOK
<1>5. KeyInv /\ SayInv
  <2>1. \A i \in Instances : inst[i].pc = "none"
    BY DEF Init, NoInst
  <2> QED
    BY <2>1 DEF KeyInv, SayInv
<1> QED
  BY <1>3, <1>4, <1>5 DEF IInv

\* The key is held by whoever has not given it back.
LEMMA KeyStep == IInv /\ [Next]_vars => KeyInv'
<1> SUFFICES ASSUME IInv, [Next]_vars PROVE KeyInv'
  OBVIOUS
<1> USE DEF IInv, KeyInv, Shape, Inst
<1>1. CASE Write
  BY <1>1 DEF Write
<1>2. CASE Pass
  BY <1>2 DEF Pass
<1>3. CASE ClientReads
  BY <1>3 DEF ClientReads
<1>4. CASE Start
  <2>1. \A i \in Instances : inst[i].pc \in {"none", "done"}
    BY <1>4, BoundsAssumption DEF Start, KeyIsFree, Instances
  <2>2. \A i \in Instances : i # Next1 => inst'[i] = inst[i]
    BY <1>4 DEF Start
  <2> QED
    BY <1>4, <2>1, <2>2 DEF Start
<1>5. CASE Stop
  BY <1>5 DEF Stop
<1>6. CASE SyncStart
  <2>1. \A i \in Instances : inst[i].pc \in {"none", "done"} \/ inst[i].cancelled
    BY <1>6, BoundsAssumption DEF SyncStart, KeyIsFree, Instances
  <2>2. \A i \in Instances : i # Next1 => inst'[i] = inst[i]
    BY <1>6 DEF SyncStart
  <2> QED
    BY <1>6, <2>1, <2>2 DEF SyncStart
<1>7. CASE SyncStop
  BY <1>7 DEF SyncStop
<1>8. ASSUME NEW i \in Instances, Observe(i) PROVE KeyInv'
  BY <1>8 DEF Observe, Observed
<1>9. ASSUME NEW i \in Instances, HandOver(i) PROVE KeyInv'
  BY <1>9 DEF HandOver
<1>10. ASSUME NEW i \in Instances, Close(i) PROVE KeyInv'
  BY <1>10 DEF Close
<1>11. ASSUME NEW i \in Instances, PumpEnds(i) PROVE KeyInv'
  BY <1>11 DEF PumpEnds
<1>12. ASSUME NEW i \in Instances, DropKey(i) PROVE KeyInv'
  BY <1>12 DEF DropKey
<1>13. ASSUME NEW i \in Instances, Flush(i) PROVE KeyInv'
  BY <1>13 DEF Flush
<1>14. ASSUME NEW i \in Instances, Narrated(i) PROVE KeyInv'
  BY <1>14 DEF Narrated
<1>15. ASSUME NEW i \in Instances, NarrationEnds(i) PROVE KeyInv'
  BY <1>15 DEF NarrationEnds
<1>16. ASSUME NEW i \in Instances, AmbientBegins(i) PROVE KeyInv'
  BY <1>16 DEF AmbientBegins
<1>17. ASSUME NEW i \in Instances, Distil(i) PROVE KeyInv'
  <2>1. \A j \in Instances : j # i => inst'[j] = inst[j]
    BY <1>17 DEF Distil
  <2>2. inst'[i].cancelled = inst[i].cancelled /\ inst[i].pc = "loop"
    BY <1>17 DEF Distil
  <2> QED
    BY <1>17, <2>1, <2>2 DEF Distil
<1>18. ASSUME NEW i \in Instances, Spoken(i) PROVE KeyInv'
  BY <1>18 DEF Spoken
<1>19. ASSUME NEW i \in Instances, AmbientEnds(i) PROVE KeyInv'
  BY <1>19 DEF AmbientEnds, NoInst
<1>20. CASE UNCHANGED vars
  BY <1>20 DEF vars
<1> QED
  BY <1>1, <1>2, <1>3, <1>4, <1>5, <1>6, <1>7, <1>8, <1>9, <1>10, <1>11, <1>12, <1>13,
     <1>14, <1>15, <1>16, <1>17, <1>18, <1>19, <1>20 DEF Next, Consume

\* Loops that share a cell take turns.
LEMMA SayStep == IInv /\ [Next]_vars => SayInv'
<1> SUFFICES ASSUME IInv, [Next]_vars PROVE SayInv'
  OBVIOUS
<1>a. /\ now \in Nat /\ MinSpeak \in Nat /\ cellOf \in 0 .. MaxStarts
      /\ \A c \in Instances : cells[c].lastSpoken \in Nat
  BY BoundsAssumption DEF IInv, Shape, TypeOK, Cell
<1>b. SayInv /\ Shape
  BY DEF IInv
<1> USE <1>b DEF SayInv, Shape, Inst, Cell
<1>1. CASE Write
  BY <1>1 DEF Write
<1>2. CASE Pass
  <2>3. \A c \in Instances :
          now - cells[c].lastSpoken >= MinSpeak => now' - cells[c].lastSpoken >= MinSpeak
    BY <1>2, <1>a DEF Pass
  <2> QED
    BY <1>2, <2>3 DEF Pass
<1>3. CASE ClientReads
  BY <1>3 DEF ClientReads
<1>4. CASE Start
  BY <1>4 DEF Start, KeyIsFree
<1>5. CASE Stop
  BY <1>5 DEF Stop
<1>6. CASE SyncStart
  <2>1. PICK n : inst' = [inst EXCEPT ![n] = [Observed(@) EXCEPT !.pc = "registered"]]
    BY <1>6 DEF SyncStart
  <2>2. \A j \in Instances : inst'[j].pc \in {"loop", "say"} => inst'[j] = inst[j]
    BY <2>1
  <2>3. now' = now /\ kind' = kind /\ kind = "ambient"
    BY <1>6 DEF SyncStart
  <2>4. \A c \in Instances : cells'[c] = cells[c] \/ cells'[c] = SetBack(cells[c])
    BY <1>6 DEF SyncStart
  <2>5. ASSUME NEW c \in Instances
        PROVE  SetBack(cells[c]).nudged = cells[c].nudged
    BY DEF SetBack
  <2>6. ASSUME NEW c \in Instances, now - cells[c].lastSpoken >= MinSpeak
        PROVE  SetBack(cells[c]) = cells[c]
    BY <2>6, <1>a DEF SetBack
  <2> HIDE DEF Shape
  <2>7. \A c \in Instances :
          /\ cells'[c].nudged = cells[c].nudged
          /\ now - cells[c].lastSpoken >= MinSpeak => now' - cells'[c].lastSpoken >= MinSpeak
    BY <2>3, <2>4, <2>5, <2>6
  <2> QED
    BY <2>2, <2>3, <2>7
<1>7. CASE SyncStop
  <2>1. \A j \in Instances : inst'[j].pc = inst[j].pc /\ inst'[j].cell = inst[j].cell
    BY <1>7 DEF SyncStop
  <2>2. cells' = cells /\ now' = now /\ kind' = kind
    BY <1>7 DEF SyncStop
  <2> HIDE DEF Shape
  <2> QED
    BY <2>1, <2>2
<1>8. ASSUME NEW i \in Instances, Observe(i) PROVE SayInv'
  BY <1>8 DEF Observe, Observed
<1>9. ASSUME NEW i \in Instances, HandOver(i) PROVE SayInv'
  <2>1. \A j \in Instances : inst'[j].pc = inst[j].pc /\ inst'[j].cell = inst[j].cell
    BY <1>9 DEF HandOver
  <2>2. cells' = cells /\ now' = now /\ kind' = kind
    BY <1>9 DEF HandOver
  <2> HIDE DEF Shape
  <2> QED
    BY <2>1, <2>2
<1>10. ASSUME NEW i \in Instances, Close(i) PROVE SayInv'
  BY <1>10 DEF Close
<1>11. ASSUME NEW i \in Instances, PumpEnds(i) PROVE SayInv'
  BY <1>11 DEF PumpEnds
<1>12. ASSUME NEW i \in Instances, DropKey(i) PROVE SayInv'
  BY <1>12 DEF DropKey
<1>13. ASSUME NEW i \in Instances, Flush(i) PROVE SayInv'
  BY <1>13 DEF Flush
<1>14. ASSUME NEW i \in Instances, Narrated(i) PROVE SayInv'
  BY <1>14 DEF Narrated
<1>15. ASSUME NEW i \in Instances, NarrationEnds(i) PROVE SayInv'
  BY <1>15 DEF NarrationEnds
<1>16. ASSUME NEW i \in Instances, AmbientBegins(i) PROVE SayInv'
  <2> DEFINE c == IF cellOf = 0 THEN i ELSE cellOf
  <2>1. inst' = [inst EXCEPT ![i].pc = "loop", ![i].cell = c]
    BY <1>16 DEF AmbientBegins
  <2>2. c \in Instances
    BY <1>a, BoundsAssumption DEF Instances
  <2> HIDE DEF c
  <2>3. \A j \in Instances : j # i => inst'[j] = inst[j]
    BY <2>1
  <2>4. inst'[i].pc = "loop" /\ inst'[i].cell = c
    BY <2>1
  <2>5. cells' = cells /\ now' = now /\ kind' = kind
    BY <1>16 DEF AmbientBegins
  <2> HIDE DEF Shape
  <2> QED
    BY <2>2, <2>3, <2>4, <2>5
<1>17. ASSUME NEW i \in Instances, Distil(i) PROVE SayInv'
  <2> DEFINE k == inst[i].cell
  <2>1. k \in Instances /\ kind = "ambient" /\ inst[i].pc = "loop" /\ now' = now
        /\ kind' = kind
    BY <1>17 DEF Distil
  <2>2. \A j \in Instances : j # i => inst'[j] = inst[j]
    BY <1>17 DEF Distil
  <2>4. PICK quiet \in BOOLEAN :
          LET c == cells[k]
              snapshot == Distilled(inst[i].buf)
              changed == snapshot # "" /\ snapshot # c.snapshot
              advanced == [c EXCEPT !.snapshot = snapshot, !.distillRev = @ + 1]
              speak == changed /\ advanced.distillRev > c.spokenRev /\ Gate(c, quiet)
          IN /\ cells' = IF changed
                         THEN [cells EXCEPT ![k] = [advanced EXCEPT !.nudged = speak \/ @]]
                         ELSE cells
             /\ inst' = [inst EXCEPT ![i].buf = << >>,
                                     ![i].pc = IF speak THEN "say" ELSE "loop"]
    <3> HIDE DEF Shape
    <3> QED
      BY <1>17, Zenon DEF Distil
  <2> DEFINE c == cells[k]
             snapshot == Distilled(inst[i].buf)
             changed == snapshot # "" /\ snapshot # c.snapshot
             advanced == [c EXCEPT !.snapshot = snapshot, !.distillRev = @ + 1]
             speak == changed /\ advanced.distillRev > c.spokenRev /\ Gate(c, quiet)
             next == [advanced EXCEPT !.nudged = speak \/ @]
  <2>c. c \in Cell
    BY <2>1
  <2> HIDE DEF k, snapshot
  <2>d. /\ next.lastSpoken = c.lastSpoken
        /\ c.nudged => next.nudged
        /\ speak => next.nudged
    BY <2>c
  <2>e. speak => ~c.nudged /\ now - c.lastSpoken >= MinSpeak
    BY DEF Gate
  <2>f. cells' = IF changed THEN [cells EXCEPT ![k] = next] ELSE cells
    BY <2>4 DEF k, snapshot
  <2>i. inst' = [inst EXCEPT ![i].buf = << >>,
                             ![i].pc = IF speak THEN "say" ELSE "loop"]
    BY <2>4 DEF k, snapshot
  <2>h. speak => changed
    OBVIOUS
  <2> HIDE DEF c, changed, advanced, speak, next
  <2>g. inst'[i].pc = IF speak THEN "say" ELSE "loop"
    BY <2>i
  <2>3. inst'[i].cell = k
    BY <2>i DEF k
  <2>5. \A d \in Instances : d # k => cells'[d] = cells[d]
    BY <2>f
  <2>6. cells'[k].lastSpoken = cells[k].lastSpoken
    BY <2>1, <2>d, <2>f DEF c
  <2>7. cells[k].nudged => cells'[k].nudged
    BY <2>1, <2>d, <2>f DEF c
  <2>8. inst'[i].pc = "say" =>
          /\ ~cells[k].nudged /\ cells'[k].nudged
          /\ now - cells[k].lastSpoken >= MinSpeak
    BY <2>1, <2>d, <2>e, <2>f, <2>g, <2>h DEF c
  <2> HIDE DEF Shape
  <2>9. inst'[i].pc \in {"loop", "say"}
    BY <2>g
  <2>10. ASSUME NEW j \in Instances, inst'[j].pc = "say", j # i
         PROVE  inst[j].pc = "say" /\ inst'[j].cell = inst[j].cell
    BY <2>2, <2>10
  <2> QED
    BY <2>1, <2>2, <2>3, <2>5, <2>6, <2>7, <2>8, <2>10 DEF k
<1>18. ASSUME NEW i \in Instances, Spoken(i) PROVE SayInv'
  <2>1. \A j \in Instances : j # i => inst'[j] = inst[j]
    BY <1>18 DEF Spoken
  <2>2. inst'[i].pc = "loop" /\ inst'[i].cell = inst[i].cell /\ inst[i].pc = "say"
    BY <1>18 DEF Spoken
  <2>3. \A c \in Instances : c # inst[i].cell => cells'[c] = cells[c]
    BY <1>18 DEF Spoken
  <2>4. now' = now /\ kind' = kind /\ kind = "ambient"
    BY <1>18 DEF Spoken
  <2> HIDE DEF Shape
  <2> QED
    BY <2>1, <2>2, <2>3, <2>4
<1>19. ASSUME NEW i \in Instances, AmbientEnds(i) PROVE SayInv'
  BY <1>19 DEF AmbientEnds, NoInst
<1>20. CASE UNCHANGED vars
  BY <1>20 DEF vars
<1> QED
  BY <1>1, <1>2, <1>3, <1>4, <1>5, <1>6, <1>7, <1>8, <1>9, <1>10, <1>11, <1>12, <1>13,
     <1>14, <1>15, <1>16, <1>17, <1>18, <1>19, <1>20 DEF Next, Consume

\* The variables keep their shape.
LEMMA ShapeStep == IInv /\ [Next]_vars => Shape'
<1> SUFFICES ASSUME IInv, [Next]_vars PROVE Shape'
  OBVIOUS
<1>a. /\ now \in Nat /\ written \in Nat /\ now - MinSpeak \in Nat /\ cellOf \in Nat
      /\ Instances \subseteq Nat
  BY BoundsAssumption DEF IInv, TypeOK, Instances
<1>b. Shape /\ Len(client) <= SseCap
  BY DEF IInv, TypeOK
<1>c. \A c \in Cell : SetBack(c) \in Cell
  BY <1>a DEF SetBack, Cell
<1>d. \A i \in Inst : Observed(i) \in Inst
  <2>1. ASSUME NEW i \in Inst, NEW b \in BOOLEAN
        PROVE  [i EXCEPT !.open = b, !.from = written, !.off = written] \in Inst
    BY <1>a DEF Inst
  <2>2. (written > 0) \in BOOLEAN
    OBVIOUS
  <2> QED
    BY <2>1, <2>2, Zenon DEF Observed
<1>e. \A i \in Inst, pc \in Pcs : [i EXCEPT !.pc = pc] \in Inst
  BY DEF Inst
<1>f. Utterance \in Messages /\ \A r \in Nat : <<"tail", r>> \in Messages /\ <<"tail-end", r>> \in Messages
  BY DEF Utterance, Messages
<1>g. \A m \in Messages : Broadcast(m) => client' \in Seq(Messages)
  BY <1>b, Broadcasting DEF Shape
<1>h. NoInst \in Inst
  BY DEF NoInst, Inst, Pcs
<1> USE <1>b DEF Shape
<1>1. CASE Write
  BY <1>1 DEF Write
<1>2. CASE Pass
  BY <1>2 DEF Pass
<1>3. CASE ClientReads
  BY <1>3 DEF ClientReads
<1>4. CASE Start
  <2>1. inst' \in [Instances -> Inst]
    BY <1>4, <1>e DEF Start, Pcs
  <2> QED
    BY <1>4, <2>1 DEF Start
<1>5. CASE Stop
  <2>1. inst' \in [Instances -> Inst]
    BY <1>5 DEF Stop, Inst
  <2> QED
    BY <1>5, <2>1 DEF Stop
<1>6. CASE SyncStart
  <2>1. PICK n : inst' = [inst EXCEPT ![n] = [Observed(@) EXCEPT !.pc = "registered"]]
    BY <1>6 DEF SyncStart
  <2>2. inst' \in [Instances -> Inst]
    BY <2>1, <1>d, <1>e DEF Pcs
  <2>3. cells' \in [Instances -> Cell]
    BY <1>6, <1>c DEF SyncStart
  <2> QED
    BY <1>6, <2>2, <2>3 DEF SyncStart
<1>7. CASE SyncStop
  <2>1. inst' \in [Instances -> Inst]
    BY <1>7 DEF SyncStop, Inst
  <2> QED
    BY <1>7, <2>1 DEF SyncStop
<1>8. ASSUME NEW i \in Instances, Observe(i) PROVE Shape'
  <2>1. inst' \in [Instances -> Inst]
    BY <1>8, <1>d, <1>e DEF Observe, Pcs
  <2> QED
    BY <1>8, <2>1 DEF Observe
<1>9. ASSUME NEW i \in Instances, HandOver(i) PROVE Shape'
  <2> DEFINE r == inst[i].off + 1
             b == IF Projected(r) /\ kind # "tail" THEN Append(inst[i].buf, r)
                  ELSE inst[i].buf
  <2>1. r \in Nat /\ b \in Seq(Nat)
    BY DEF Inst
  <2>4. inst' = [inst EXCEPT ![i].off = r, ![i].buf = b]
    BY <1>9 DEF HandOver
  <2>2. inst' \in [Instances -> Inst]
    <3> HIDE DEF r, b
    <3> QED
      BY <2>1, <2>4 DEF Inst
  <2>3. client' \in Seq(Messages)
    BY <1>9, <2>1, <1>f, <1>g DEF HandOver
  <2> QED
    BY <1>9, <2>2, <2>3 DEF HandOver
<1>10. ASSUME NEW i \in Instances, Close(i) PROVE Shape'
  <2>1. inst' \in [Instances -> Inst]
    BY <1>10 DEF Close, Inst
  <2> QED
    BY <1>10, <2>1 DEF Close
<1>11. ASSUME NEW i \in Instances, PumpEnds(i) PROVE Shape'
  <2>1. inst' \in [Instances -> Inst]
    BY <1>11, <1>e DEF PumpEnds, Pcs
  <2>2. client' \in Seq(Messages)
    BY <1>11, <1>a, <1>f, <1>g DEF PumpEnds
  <2> QED
    BY <1>11, <2>1, <2>2 DEF PumpEnds
<1>12. ASSUME NEW i \in Instances, DropKey(i) PROVE Shape'
  <2>1. inst' \in [Instances -> Inst]
    BY <1>12, <1>e DEF DropKey, Pcs
  <2> QED
    BY <1>12, <2>1 DEF DropKey
<1>13. ASSUME NEW i \in Instances, Flush(i) PROVE Shape'
  <2>1. inst[i].said \o Delta(inst[i].buf) \in Seq(Nat) /\ << >> \in Seq(Nat)
    <3> DEFINE a == inst[i].said
               b == inst[i].buf
    <3>1. a \in Seq(Nat) /\ b \in Seq(Nat) /\ DeltaCap \in Nat \ {0}
      BY BoundsAssumption DEF Inst
    <3> HIDE DEF a, b
    <3>2. Delta(b) \in Seq(Nat)
      BY <3>1 DEF Delta
    <3>3. a \o Delta(b) \in Seq(Nat)
      BY <3>1, <3>2
    <3> QED
      BY <3>3 DEF a, b
  <2>2. inst' \in [Instances -> Inst]
    BY <1>13, <2>1 DEF Flush, Inst, Pcs
  <2> QED
    BY <1>13, <2>2 DEF Flush
<1>14. ASSUME NEW i \in Instances, Narrated(i) PROVE Shape'
  <2>1. inst' \in [Instances -> Inst]
    BY <1>14, <1>e DEF Narrated, Pcs
  <2>2. client' \in Seq(Messages)
    BY <1>14, <1>f, <1>g DEF Narrated
  <2> QED
    BY <1>14, <2>1, <2>2 DEF Narrated
<1>15. ASSUME NEW i \in Instances, NarrationEnds(i) PROVE Shape'
  <2>1. inst' \in [Instances -> Inst]
    BY <1>15, <1>e DEF NarrationEnds, Pcs
  <2> QED
    BY <1>15, <2>1 DEF NarrationEnds
<1>16. ASSUME NEW i \in Instances, AmbientBegins(i) PROVE Shape'
  <2> DEFINE c == IF cellOf = 0 THEN i ELSE cellOf
  <2>1. c \in Nat
    BY <1>a
  <2>2. inst' = [inst EXCEPT ![i].pc = "loop", ![i].cell = c]
    BY <1>16 DEF AmbientBegins
  <2> HIDE DEF c
  <2> DEFINE looping == [inst EXCEPT ![i].pc = "loop"]
  <2>4. looping \in [Instances -> Inst]
    BY <1>e DEF Pcs
  <2>5. inst' = [looping EXCEPT ![i].cell = c]
    BY <2>2
  <2> HIDE DEF looping
  <2>3. inst' \in [Instances -> Inst]
    BY <2>1, <2>4, <2>5 DEF Inst
  <2> QED
    BY <1>16, <2>3 DEF AmbientBegins
<1>17. ASSUME NEW i \in Instances, Distil(i) PROVE Shape'
  <2> DEFINE snapshot == Distilled(inst[i].buf)
  <2>1. snapshot \in Snapshots
    BY DEF Snapshots, Inst
  <2> HIDE DEF snapshot
  <2>2. PICK pc \in Pcs : inst' = [inst EXCEPT ![i].buf = << >>, ![i].pc = pc]
    BY <1>17 DEF Distil, Pcs
  <2>3. << >> \in Seq(Nat)
    OBVIOUS
  <2>4. inst' \in [Instances -> Inst]
    BY <2>2, <2>3 DEF Inst
  <2>5. PICK quiet \in BOOLEAN :
          LET k == inst[i].cell
              c == cells[k]
              changed == snapshot # "" /\ snapshot # c.snapshot
              advanced == [c EXCEPT !.snapshot = snapshot, !.distillRev = @ + 1]
              speak == changed /\ advanced.distillRev > c.spokenRev /\ Gate(c, quiet)
          IN cells' = IF changed
                      THEN [cells EXCEPT ![k] = [advanced EXCEPT !.nudged = speak \/ @]]
                      ELSE cells
    BY <1>17, Zenon DEF Distil, snapshot
  <2> DEFINE k == inst[i].cell
             advanced == [cells[k] EXCEPT !.snapshot = snapshot, !.distillRev = @ + 1]
  <2>7. k \in Instances
    BY <1>17 DEF Distil, IInv, SayInv
  <2>8. advanced \in Cell
    <3>1. ASSUME NEW x \in Cell, NEW n \in Nat
          PROVE  [x EXCEPT !.snapshot = snapshot, !.distillRev = n] \in Cell
      BY <2>1 DEF Cell
    <3>2. cells[k] \in Cell
      BY <2>7
    <3> HIDE DEF k
    <3>3. cells[k].distillRev + 1 \in Nat
      BY <3>2 DEF Cell
    <3> QED
      BY <3>1, <3>2, <3>3
  <2>9. ASSUME NEW x \in Cell, NEW speak \in BOOLEAN
        PROVE  [x EXCEPT !.nudged = speak \/ @] \in Cell
    BY DEF Cell
  <2>10. \A speak \in BOOLEAN : [advanced EXCEPT !.nudged = speak \/ @] \in Cell
    BY <2>8, <2>9
  <2> HIDE DEF k
  <2>11. PICK speak \in BOOLEAN, changed \in BOOLEAN :
           cells' = IF changed
                    THEN [cells EXCEPT ![k] = [advanced EXCEPT !.nudged = speak \/ @]]
                    ELSE cells
    BY <2>5, Zenon DEF k
  <2> HIDE DEF advanced
  <2>6. cells' \in [Instances -> Cell]
    BY <2>10, <2>11
  <2> QED
    BY <1>17, <2>4, <2>6 DEF Distil
<1>18. ASSUME NEW i \in Instances, Spoken(i) PROVE Shape'
  <2>1. inst' \in [Instances -> Inst]
    BY <1>18, <1>e DEF Spoken, Pcs
  <2>2. \A k \in Instances : cells[k].distillRev \in Nat
    BY DEF Cell
  <2>3. inst[i].cell \in Instances
    BY <1>18 DEF Spoken, IInv, SayInv
  <2>4. cells' \in [Instances -> Cell]
    <3> DEFINE k == inst[i].cell
               d == cells[k].distillRev
    <3>1. cells' = [cells EXCEPT ![k].nudged = FALSE, ![k].lastSpoken = now,
                                 ![k].spokenRev = d]
      BY <1>18 DEF Spoken
    <3>2. d \in Nat /\ k \in Instances
      BY <2>2, <2>3
    <3> HIDE DEF d, k
    <3>3. \A c \in Cell : [c EXCEPT !.nudged = FALSE, !.lastSpoken = now, !.spokenRev = d] \in Cell
      BY <1>a, <3>2 DEF Cell
    <3> QED
      BY <3>1, <3>2, <3>3
  <2>5. client' \in Seq(Messages)
    BY <1>18, <1>f, <1>g DEF Spoken
  <2> QED
    BY <1>18, <2>1, <2>4, <2>5 DEF Spoken
<1>19. ASSUME NEW i \in Instances, AmbientEnds(i) PROVE Shape'
  <2>1. [NoInst EXCEPT !.pc = "done", !.open = inst[i].open] \in Inst
    BY <1>h DEF Inst, Pcs
  <2>2. inst' \in [Instances -> Inst]
    BY <1>19, <2>1 DEF AmbientEnds
  <2> QED
    BY <1>19, <2>2 DEF AmbientEnds
<1>20. CASE UNCHANGED vars
  BY <1>20 DEF vars
<1> QED
  BY <1>1, <1>2, <1>3, <1>4, <1>5, <1>6, <1>7, <1>8, <1>9, <1>10, <1>11, <1>12, <1>13,
     <1>14, <1>15, <1>16, <1>17, <1>18, <1>19, <1>20 DEF Next, Consume

\* What TypeOK says of one instance, and of one cell.
PerInst(i) ==
  /\ inst[i].pc \in Pcs /\ inst[i].cell \in 0 .. MaxStarts
  /\ inst[i].from <= inst[i].off /\ inst[i].off <= written

PerCell(c) ==
  cells[c].spokenRev <= cells[c].distillRev /\ cells[c].lastSpoken \in 0 .. now

Scalars ==
  /\ written \in 0 .. Len(Records) /\ now \in MinSpeak .. MaxTime
  /\ active \in 0 .. MaxStarts /\ cellOf \in 0 .. MaxStarts
  /\ Len(client) <= SseCap

\* TypeOK, in parts.
LEMMA TypeParts ==
  TypeOK <=> /\ Scalars
             /\ \A i \in Instances : PerInst(i)
             /\ \A c \in Instances : PerCell(c)
BY DEF TypeOK, PerInst, PerCell, Scalars

\* The numbers stay in their ranges.
LEMMA ScalarStep == IInv /\ [Next]_vars => Scalars'
<1> SUFFICES ASSUME IInv, [Next]_vars PROVE Scalars'
  OBVIOUS
<1>a. Scalars /\ Shape
  BY TypeParts DEF IInv
<1>b. Utterance \in Messages
      /\ \A r \in Nat : <<"tail", r>> \in Messages /\ <<"tail-end", r>> \in Messages
  BY DEF Utterance, Messages
<1>c. \A m \in Messages : Broadcast(m) => Len(client') <= SseCap
  BY <1>a, Broadcasting DEF Scalars, Shape
<1>d. Instances \subseteq 1 .. MaxStarts /\ MaxStarts \in Nat
  BY BoundsAssumption DEF Instances
<1>e. Unused # {} => Next1 \in 0 .. MaxStarts
  <2>1. Unused \subseteq Instances
    BY DEF Unused
  <2>2. Instances \subseteq 0 .. MaxStarts
    BY <1>d
  <2>3. Unused # {} => Next1 \in Unused
    BY FreshInstance
  <2> QED
    BY <2>1, <2>2, <2>3
<1> USE <1>a DEF Scalars
<1>1. CASE Write
  BY <1>1, BoundsAssumption DEF Write
<1>2. CASE Pass
  BY <1>2, BoundsAssumption DEF Pass
<1>3. CASE ClientReads
  <2>1. Len(client') <= SseCap
    BY <1>3, BoundsAssumption DEF ClientReads, Shape
  <2> QED
    BY <1>3, <2>1 DEF ClientReads
<1>4. CASE Start
  BY <1>4, <1>e DEF Start
<1>5. CASE Stop
  BY <1>5 DEF Stop
<1>6. CASE SyncStart
  BY <1>6, <1>e DEF SyncStart
<1>7. CASE SyncStop
  BY <1>7, <1>d DEF SyncStop
<1>8. ASSUME NEW i \in Instances, Observe(i) PROVE Scalars'
  BY <1>8 DEF Observe
<1>9. ASSUME NEW i \in Instances, HandOver(i) PROVE Scalars'
  <2>1. inst[i].off + 1 \in Nat
    BY DEF Shape, Inst
  <2>2. Len(client') <= SseCap
    BY <1>9, <2>1, <1>b, <1>c DEF HandOver
  <2> QED
    BY <1>9, <2>2 DEF HandOver
<1>10. ASSUME NEW i \in Instances, Close(i) PROVE Scalars'
  BY <1>10 DEF Close
<1>11. ASSUME NEW i \in Instances, PumpEnds(i) PROVE Scalars'
  <2>1. i \in Nat
    BY <1>d
  <2>2. Len(client') <= SseCap
    BY <1>11, <2>1, <1>b, <1>c DEF PumpEnds
  <2> QED
    BY <1>11, <2>2 DEF PumpEnds
<1>12. ASSUME NEW i \in Instances, DropKey(i) PROVE Scalars'
  BY <1>12, <1>d DEF DropKey
<1>13. ASSUME NEW i \in Instances, Flush(i) PROVE Scalars'
  BY <1>13 DEF Flush
<1>14. ASSUME NEW i \in Instances, Narrated(i) PROVE Scalars'
  <2>1. Len(client') <= SseCap
    BY <1>14, <1>b, <1>c DEF Narrated
  <2> QED
    BY <1>14, <2>1 DEF Narrated
<1>15. ASSUME NEW i \in Instances, NarrationEnds(i) PROVE Scalars'
  BY <1>15 DEF NarrationEnds
<1>16. ASSUME NEW i \in Instances, AmbientBegins(i) PROVE Scalars'
  <2>1. cellOf' \in 0 .. MaxStarts
    BY <1>16, <1>d DEF AmbientBegins
  <2> QED
    BY <1>16, <2>1 DEF AmbientBegins
<1>17. ASSUME NEW i \in Instances, Distil(i) PROVE Scalars'
  BY <1>17 DEF Distil
<1>18. ASSUME NEW i \in Instances, Spoken(i) PROVE Scalars'
  <2>1. Len(client') <= SseCap
    BY <1>18, <1>b, <1>c DEF Spoken
  <2> QED
    BY <1>18, <2>1 DEF Spoken
<1>19. ASSUME NEW i \in Instances, AmbientEnds(i) PROVE Scalars'
  BY <1>19 DEF AmbientEnds
<1>20. CASE UNCHANGED vars
  BY <1>20 DEF vars
<1> QED
  BY <1>1, <1>2, <1>3, <1>4, <1>5, <1>6, <1>7, <1>8, <1>9, <1>10, <1>11, <1>12, <1>13,
     <1>14, <1>15, <1>16, <1>17, <1>18, <1>19, <1>20 DEF Next, Consume

\* A stream stays between the point it began at and the end of the transcript.
LEMMA InstStep ==
  ASSUME IInv, [Next]_vars, NEW k \in Instances PROVE PerInst(k)'
<1>a. /\ Shape /\ PerInst(k) /\ written \in Nat /\ cellOf \in 0 .. MaxStarts
      /\ 0 \in 0 .. MaxStarts /\ inst[k] \in Inst
  BY TypeParts, BoundsAssumption DEF IInv, Scalars, Shape
<1> DEFINE Same == /\ inst'[k].cell = inst[k].cell /\ inst'[k].from = inst[k].from
                   /\ inst'[k].off = inst[k].off
<1>b. ASSUME Same, inst'[k].pc \in Pcs, written' = written PROVE PerInst(k)'
  BY <1>a, <1>b DEF PerInst
<1>c. ASSUME inst'[k] = inst[k], written' = written PROVE PerInst(k)'
  BY <1>a, <1>c DEF PerInst
<1> USE <1>a DEF Shape
<1>1. CASE Write
  BY <1>1 DEF Write, PerInst, Inst
<1>2. CASE UNCHANGED <<inst, written>>
  BY <1>2, <1>c
<1>4. CASE Start
  <2>1. Same /\ inst'[k].pc \in Pcs
    BY <1>4 DEF Start, PerInst, Pcs, Inst
  <2> QED
    BY <1>4, <1>b, <2>1 DEF Start
<1>5. CASE Stop
  <2>1. Same /\ inst'[k].pc \in Pcs
    BY <1>5 DEF Stop, PerInst, Inst
  <2> QED
    BY <1>5, <1>b, <2>1 DEF Stop
<1>6. CASE SyncStart
  <2>1. PICK n : inst' = [inst EXCEPT ![n] = [Observed(@) EXCEPT !.pc = "registered"]]
    BY <1>6 DEF SyncStart
  <2>2. CASE n = k
    BY <1>6, <2>1, <2>2 DEF SyncStart, Observed, Inst, PerInst, Pcs
  <2> QED
    BY <1>6, <1>c, <2>1, <2>2 DEF SyncStart
<1>7. CASE SyncStop
  <2>1. Same /\ inst'[k].pc \in Pcs
    BY <1>7 DEF SyncStop, PerInst, Inst
  <2> QED
    BY <1>7, <1>b, <2>1 DEF SyncStop
<1>8. ASSUME NEW i \in Instances, Observe(i) PROVE PerInst(k)'
  <2>1. CASE i = k
    BY <1>8, <2>1 DEF Observe, Observed, Inst, PerInst, Pcs
  <2> QED
    BY <1>8, <1>c, <2>1 DEF Observe
<1>9. ASSUME NEW i \in Instances, HandOver(i) PROVE PerInst(k)'
  <2>1. CASE i = k
    <3>1. /\ inst'[k].cell = inst[k].cell /\ inst'[k].from = inst[k].from
          /\ inst'[k].pc = inst[k].pc /\ inst'[k].off = inst[k].off + 1
          /\ inst[k].off < written /\ written' = written
      BY <1>9, <2>1 DEF HandOver, Inst
    <3>2. inst[k].off \in Nat /\ inst[k].from \in Nat
      BY DEF Inst
    <3> QED
      BY <3>1, <3>2 DEF PerInst
  <2> QED
    BY <1>9, <1>c, <2>1 DEF HandOver
<1>10. ASSUME NEW i \in Instances, Close(i) PROVE PerInst(k)'
  <2>1. Same /\ inst'[k].pc \in Pcs
    BY <1>10 DEF Close, PerInst, Inst
  <2> QED
    BY <1>10, <1>b, <2>1 DEF Close
<1>11. ASSUME NEW i \in Instances, PumpEnds(i) PROVE PerInst(k)'
  <2>1. Same /\ inst'[k].pc \in Pcs
    BY <1>11 DEF PumpEnds, PerInst, Inst, Pcs
  <2> QED
    BY <1>11, <1>b, <2>1 DEF PumpEnds
<1>12. ASSUME NEW i \in Instances, DropKey(i) PROVE PerInst(k)'
  <2>1. Same /\ inst'[k].pc \in Pcs
    BY <1>12 DEF DropKey, PerInst, Inst, Pcs
  <2> QED
    BY <1>12, <1>b, <2>1 DEF DropKey
<1>13. ASSUME NEW i \in Instances, Flush(i) PROVE PerInst(k)'
  <2>1. Same /\ inst'[k].pc \in Pcs
    BY <1>13 DEF Flush, PerInst, Inst, Pcs
  <2> QED
    BY <1>13, <1>b, <2>1 DEF Flush
<1>14. ASSUME NEW i \in Instances, Narrated(i) PROVE PerInst(k)'
  <2>1. Same /\ inst'[k].pc \in Pcs
    BY <1>14 DEF Narrated, PerInst, Inst, Pcs
  <2> QED
    BY <1>14, <1>b, <2>1 DEF Narrated
<1>15. ASSUME NEW i \in Instances, NarrationEnds(i) PROVE PerInst(k)'
  <2>1. Same /\ inst'[k].pc \in Pcs
    BY <1>15 DEF NarrationEnds, PerInst, Inst, Pcs
  <2> QED
    BY <1>15, <1>b, <2>1 DEF NarrationEnds
<1>16. ASSUME NEW i \in Instances, AmbientBegins(i) PROVE PerInst(k)'
  <2> DEFINE c == IF cellOf = 0 THEN i ELSE cellOf
  <2>1. c \in 0 .. MaxStarts
    BY BoundsAssumption DEF Instances
  <2>2. inst' = [inst EXCEPT ![i].pc = "loop", ![i].cell = c] /\ written' = written
    BY <1>16 DEF AmbientBegins
  <2> HIDE DEF c
  <2>3. CASE i = k
    <3>1. /\ inst'[k].cell = c /\ inst'[k].from = inst[k].from
          /\ inst'[k].pc = "loop" /\ inst'[k].off = inst[k].off
      BY <2>2, <2>3 DEF Inst
    <3> QED
      BY <2>1, <2>2, <3>1 DEF PerInst, Pcs
  <2> QED
    BY <1>c, <2>2, <2>3
<1>17. ASSUME NEW i \in Instances, Distil(i) PROVE PerInst(k)'
  <2>1. PICK pc \in Pcs : inst' = [inst EXCEPT ![i].buf = << >>, ![i].pc = pc]
    BY <1>17 DEF Distil, Pcs
  <2>2. Same /\ inst'[k].pc \in Pcs
    BY <2>1 DEF PerInst, Inst
  <2> QED
    BY <1>17, <1>b, <2>2 DEF Distil
<1>18. ASSUME NEW i \in Instances, Spoken(i) PROVE PerInst(k)'
  <2>1. Same /\ inst'[k].pc \in Pcs
    BY <1>18 DEF Spoken, PerInst, Inst, Pcs
  <2> QED
    BY <1>18, <1>b, <2>1 DEF Spoken
<1>19. ASSUME NEW i \in Instances, AmbientEnds(i) PROVE PerInst(k)'
  <2>1. CASE i = k
    BY <1>19, <2>1 DEF AmbientEnds, NoInst, PerInst, Pcs
  <2> QED
    BY <1>19, <1>c, <2>1 DEF AmbientEnds
<1> QED
  BY <1>1, <1>2, <1>4, <1>5, <1>6, <1>7, <1>8, <1>9, <1>10, <1>11, <1>12, <1>13, <1>14,
     <1>15, <1>16, <1>17, <1>18, <1>19 DEF Next, Consume, Pass, ClientReads, vars

\* Distilling advances one cell, and no cell's time.
LEMMA DistilAdvances ==
  ASSUME IInv, NEW i \in Instances, Distil(i), NEW k \in Instances
  PROVE  \/ cells'[k] = cells[k]
         \/ /\ cells'[k].lastSpoken = cells[k].lastSpoken
            /\ cells'[k].spokenRev = cells[k].spokenRev
            /\ cells'[k].distillRev = cells[k].distillRev + 1
<1> DEFINE snapshot == Distilled(inst[i].buf)
<1> HIDE DEF snapshot
<1>1. PICK c \in Instances : c = inst[i].cell
  BY DEF Distil, IInv, SayInv
<1>2. cells[c] \in Cell /\ cells \in [Instances -> Cell]
  BY DEF IInv, Shape
<1>3. PICK quiet \in BOOLEAN :
        LET d == cells[c]
            changed == snapshot # "" /\ snapshot # d.snapshot
            advanced == [d EXCEPT !.snapshot = snapshot, !.distillRev = @ + 1]
            speak == changed /\ advanced.distillRev > d.spokenRev /\ Gate(d, quiet)
        IN cells' = IF changed
                    THEN [cells EXCEPT ![c] = [advanced EXCEPT !.nudged = speak \/ @]]
                    ELSE cells
  BY <1>1, Zenon DEF Distil, snapshot
<1> DEFINE advanced == [cells[c] EXCEPT !.snapshot = snapshot, !.distillRev = @ + 1]
<1>4. PICK speak \in BOOLEAN, changed \in BOOLEAN :
        cells' = IF changed
                 THEN [cells EXCEPT ![c] = [advanced EXCEPT !.nudged = speak \/ @]]
                 ELSE cells
  BY <1>3, Zenon
<1>5. CASE c = k
  BY <1>2, <1>4, <1>5 DEF Cell
<1> HIDE DEF advanced
<1> QED
  BY <1>2, <1>4, <1>5

\* No cell claims an utterance that was not due, or one in the future.
LEMMA CellStep ==
  ASSUME IInv, [Next]_vars, NEW k \in Instances PROVE PerCell(k)'
<1>a. /\ Shape /\ PerCell(k) /\ now \in Nat /\ MinSpeak \in Nat /\ now >= MinSpeak
      /\ cells[k] \in Cell
  BY TypeParts, BoundsAssumption DEF IInv, Scalars, Shape
<1> USE <1>a DEF Shape
<1>1. CASE UNCHANGED <<cells, now>>
  BY <1>1 DEF PerCell
<1>2. CASE Pass
  BY <1>2 DEF Pass, PerCell, Cell
<1>3. CASE SyncStart
  <2>1. cells'[k] = cells[k] \/ cells'[k] = SetBack(cells[k])
    BY <1>3 DEF SyncStart
  <2>2. now' = now
    BY <1>3 DEF SyncStart
  <2>3. CASE now - cells[k].lastSpoken < MinSpeak /\ cells'[k] = SetBack(cells[k])
    <3>1. /\ cells'[k].lastSpoken = now - MinSpeak
          /\ cells'[k].spokenRev = cells[k].spokenRev
          /\ cells'[k].distillRev = cells[k].distillRev
      BY <2>3 DEF SetBack, Cell
    <3> QED
      BY <2>2, <3>1 DEF PerCell
  <2> QED
    BY <2>1, <2>2, <2>3 DEF SetBack, PerCell
<1>4. ASSUME NEW i \in Instances, Distil(i) PROVE PerCell(k)'
  <2>2. \/ cells'[k] = cells[k]
        \/ /\ cells'[k].lastSpoken = cells[k].lastSpoken
           /\ cells'[k].spokenRev = cells[k].spokenRev
           /\ cells'[k].distillRev = cells[k].distillRev + 1
    BY <1>4, DistilAdvances
  <2>3. now' = now
    BY <1>4 DEF Distil
  <2> QED
    BY <2>2, <2>3 DEF PerCell, Cell
<1>5. ASSUME NEW i \in Instances, Spoken(i) PROVE PerCell(k)'
  <2>1. PICK c \in Instances : c = inst[i].cell
    BY <1>5 DEF Spoken, IInv, SayInv
  <2>2. cells' = [cells EXCEPT ![c].nudged = FALSE, ![c].lastSpoken = now,
                               ![c].spokenRev = cells[c].distillRev] /\ now' = now
    BY <1>5, <2>1 DEF Spoken
  <2>3. CASE c = k
    <3>1. /\ cells'[k].lastSpoken = now
          /\ cells'[k].spokenRev = cells[k].distillRev
          /\ cells'[k].distillRev = cells[k].distillRev
      BY <2>2, <2>3 DEF Cell
    <3>2. cells[k].distillRev \in Nat
      BY DEF Cell
    <3> QED
      BY <2>2, <3>1, <3>2 DEF PerCell
  <2> QED
    BY <2>2, <2>3 DEF PerCell
<1> QED
  BY <1>1, <1>2, <1>3, <1>4, <1>5 DEF Next, Consume, vars, Write, ClientReads, Start,
     Stop, SyncStop, Observe, HandOver, Close, PumpEnds, DropKey, Flush, Narrated,
     NarrationEnds, AmbientBegins, AmbientEnds

\* The invariant, in every reachable state.
LEMMA Invariant == Spec => []IInv
<1>1. IInv /\ [Next]_vars => IInv'
  <2> SUFFICES ASSUME IInv, [Next]_vars PROVE IInv'
    OBVIOUS
  <2>1. TypeOK'
    <3>1. \A k \in Instances : PerInst(k)'
      BY InstStep
    <3>2. \A k \in Instances : PerCell(k)'
      BY CellStep
    <3> QED
      BY <3>1, <3>2, ScalarStep DEF TypeOK, PerInst, PerCell, Scalars
  <2> QED
    BY <2>1, ShapeStep, KeyStep, SayStep DEF IInv
<1> QED
  BY <1>1, InitIInv, PTL DEF Spec

\* Every variable stays in its range: no stream reads past the transcript, no
\* cell claims an utterance for a state it has not reached, and the client's
\* buffer is never overrun (Stream, ambientLoop, Broadcast).
THEOREM TypeCorrect == Spec => []TypeOK
<1>1. IInv => TypeOK
  BY DEF IInv
<1> QED
  BY <1>1, Invariant, PTL

\* A session has one live consumer at most, for any number of starts and stops
\* in any order: of two that run, one has been told to stop.
THEOREM OneConsumer == Spec => []OneLoop
<1>1. IInv => OneLoop
  <2> SUFFICES ASSUME IInv, NEW i \in Instances, NEW j \in Instances, i # j,
                      Running(i), Running(j)
               PROVE  inst[i].cancelled \/ inst[j].cancelled
    BY DEF OneLoop
  <2> QED
    BY DEF IInv, KeyInv, Running
<1> QED
  BY <1>1, Invariant, PTL

\* Two utterances about a session are at least MinSpeak apart, however long the
\* model takes, and although a loop that was told to stop may share its cell
\* with the loop that came after it.
THEOREM GapRespected == Spec => GapHeld
<1> DEFINE Held == \A c \in Instances :
             cells'[c].lastSpoken > cells[c].lastSpoken
             => cells'[c].lastSpoken - cells[c].lastSpoken >= MinSpeak
<1>1. IInv /\ [Next]_vars => [Held]_vars
  <2> SUFFICES ASSUME IInv, [Next]_vars, NEW c \in Instances,
                      cells'[c].lastSpoken > cells[c].lastSpoken
               PROVE  cells'[c].lastSpoken - cells[c].lastSpoken >= MinSpeak
    BY DEF Held
  <2>a. Shape /\ now \in Nat /\ MinSpeak \in Nat /\ cells[c] \in Cell
    BY BoundsAssumption DEF IInv, Shape, TypeOK
  <2> USE <2>a DEF Shape
  <2>1. CASE UNCHANGED cells
    BY <2>1 DEF Cell
  <2>2. CASE SyncStart
    <3>1. cells'[c] = cells[c] \/ cells'[c] = SetBack(cells[c])
      BY <2>2 DEF SyncStart
    <3> QED
      BY <3>1 DEF SetBack, Cell
  <2>3. ASSUME NEW i \in Instances, Distil(i) PROVE cells'[c].lastSpoken = cells[c].lastSpoken
    BY <2>3, DistilAdvances DEF Cell
  <2>4. ASSUME NEW i \in Instances, Spoken(i)
        PROVE  cells'[c].lastSpoken - cells[c].lastSpoken >= MinSpeak
    <3>1. PICK d \in Instances : d = inst[i].cell
      BY <2>4 DEF Spoken, IInv, SayInv
    <3>2. cells' = [cells EXCEPT ![d].nudged = FALSE, ![d].lastSpoken = now,
                                 ![d].spokenRev = cells[d].distillRev]
      BY <2>4, <3>1 DEF Spoken
    <3>3. CASE d = c
      <4>1. cells'[c].lastSpoken = now
        BY <3>2, <3>3 DEF Cell
      <4>2. now - cells[c].lastSpoken >= MinSpeak
        BY <2>4, <3>1, <3>3 DEF Spoken, IInv, SayInv
      <4> QED
        BY <4>1, <4>2
    <3>4. CASE d # c
      BY <3>2, <3>4 DEF Cell
    <3> QED
      BY <3>3, <3>4
  <2>5. \/ UNCHANGED cells \/ SyncStart
        \/ \E i \in Instances : Distil(i) \/ Spoken(i)
    BY DEF Next, Consume, vars, Write, Pass, ClientReads, Start, Stop, SyncStop, Observe,
           HandOver, Close, PumpEnds, DropKey, Flush, Narrated, NarrationEnds,
           AmbientBegins, AmbientEnds
  <2> QED
    BY <2>1, <2>2, <2>3, <2>4, <2>5 DEF Cell
<1> QED
  BY <1>1, Invariant, PTL DEF Spec, GapHeld

\* What a narration has told and still keeps are turns its stream has read, and
\* all of them but for the older parts of bursts.
ReadBy(v) == {r \in v.from + 1 .. v.off : Projected(r)}

PushedOut(r, said) == \E m \in DOMAIN said : r < said[m] /\ m + DeltaCap <= Len(said) + 1

Whole(v) ==
  LET told == v.said \o v.buf IN
  /\ \A m, n \in DOMAIN told : m < n => told[m] < told[n]
  /\ ToSet(told) \subseteq ReadBy(v)
  /\ \A r \in ReadBy(v) \ ToSet(told) : PushedOut(r, v.said)

\* Before the stream is there, nothing is.
Fresh(v) == v.pc \in {"none", "registered"} => v.said = << >> /\ v.buf = << >>

\* The inductive invariant of what is told.
TellInv == kind = "narration" => \A i \in Instances : Whole(inst[i]) /\ Fresh(inst[i])

\* A stream that begins has read nothing.
LEMMA WholeFresh ==
  ASSUME NEW v, v.said = << >>, v.buf = << >>, NEW n \in Nat, v.from = n, v.off = n
  PROVE  Whole(v)
<1>1. v.said \o v.buf = << >> /\ DOMAIN << >> = {} /\ ToSet(<< >>) = {}
  BY DEF ToSet
<1>2. ReadBy(v) = {}
  BY DEF ReadBy
<1> QED BY <1>1, <1>2 DEF Whole

\* One more record is read.
LEMMA WholeNext ==
  ASSUME NEW v \in Inst, v.from <= v.off, Whole(v), NEW w \in Inst,
         w.said = v.said, w.from = v.from, w.off = v.off + 1,
         w.buf = IF Projected(v.off + 1) THEN Append(v.buf, v.off + 1) ELSE v.buf
  PROVE  Whole(w)
<1> DEFINE told == v.said \o v.buf
           r == v.off + 1
           f == v.from
           T == ReadBy(v)
           U == ReadBy(w)
           n == Len(told)
<1>1. v.said \in Seq(Nat) /\ v.buf \in Seq(Nat) /\ r \in Nat /\ f \in Nat /\ f <= v.off
      /\ v.off \in Nat
  BY DEF Inst
<1>2. told \in Seq(Nat) /\ n \in Nat /\ DOMAIN told = 1 .. n
  <2> DEFINE a == v.said
             b == v.buf
  <2>1. a \in Seq(Nat) /\ b \in Seq(Nat)
    BY <1>1
  <2> HIDE DEF a, b
  <2>2. a \o b \in Seq(Nat) /\ Len(a \o b) \in Nat /\ DOMAIN (a \o b) = 1 .. Len(a \o b)
    BY <2>1
  <2> QED BY <2>2 DEF a, b
<1>3. /\ \A m, l \in 1 .. n : m < l => told[m] < told[l]
      /\ ToSet(told) \subseteq T
      /\ \A q \in T \ ToSet(told) : PushedOut(q, w.said)
  BY <1>2 DEF Whole
<1>4. /\ U = IF Projected(r) THEN T \cup {r} ELSE T
      /\ \A q \in T : q < r
  BY <1>1 DEF ReadBy
<1>5. CASE ~Projected(r)
  <2>1. w.said \o w.buf = told
    BY <1>5
  <2>2. U = T
    BY <1>4, <1>5
  <2> HIDE DEF told, T
  <2> QED BY <1>2, <1>3, <2>1, <2>2 DEF Whole
<1>6. CASE Projected(r)
  <2> DEFINE all == Append(told, r)
  <2>1. w.said \o w.buf = all
    <3>1. w.buf = Append(v.buf, r) /\ w.said = v.said
      BY <1>6
    <3> DEFINE a == v.said
               b == v.buf
    <3>2. a \in Seq(Nat) /\ b \in Seq(Nat) /\ w.said = a /\ w.buf = Append(b, r)
          /\ told = a \o b
      BY <1>1, <3>1
    <3> HIDE DEF a, b, r, told
    <3>3. a \o Append(b, r) = Append(a \o b, r)
      <4>1. r \in Nat /\ a \in Seq(Nat) /\ b \in Seq(Nat)
        BY <1>1, <3>2
      <4> QED BY <4>1
    <3> QED BY <3>2, <3>3
  <2> HIDE DEF told
  <2>2. /\ DOMAIN all = 1 .. n + 1
        /\ \A m \in 1 .. n : all[m] = told[m]
        /\ all[n + 1] = r
    BY <1>2 DEF n
  <2>3. \A m \in 1 .. n : told[m] < r
    <3>1. \A m \in 1 .. n : told[m] \in T
      BY <1>2, <1>3 DEF ToSet
    <3> QED BY <1>3, <1>4, <3>1
  <2> HIDE DEF all, n, r
  <2>4. ASSUME NEW m, m \in 1 .. n + 1, NEW l, l \in 1 .. n + 1, m < l
        PROVE  all[m] < all[l]
    <3>1. m \in 1 .. n
      BY <1>2, <2>4
    <3>2. CASE l \in 1 .. n
      BY <1>3, <2>2, <2>4, <3>1, <3>2
    <3>3. CASE l \notin 1 .. n
      <4>1. l = n + 1
        BY <1>2, <2>4, <3>3
      <4> QED BY <2>2, <2>3, <3>1, <4>1
    <3> QED BY <3>2, <3>3
  <2>5. ToSet(all) = ToSet(told) \cup {r}
    <3>1. 1 .. n + 1 = (1 .. n) \cup {n + 1}
      BY <1>2
    <3> QED BY <1>2, <2>2, <3>1 DEF ToSet
  <2>6. /\ ToSet(all) \subseteq U
        /\ \A q \in U \ ToSet(all) : PushedOut(q, w.said)
    BY <1>3, <1>4, <1>6, <2>5 DEF r
  <2> HIDE DEF U
  <2> QED BY <2>1, <2>2, <2>4, <2>6 DEF Whole, U
<1> QED BY <1>5, <1>6

\* Where the elements of two joined sequences are.
LEMMA Joined ==
  ASSUME NEW a \in Seq(Nat), NEW e \in Seq(Nat)
  PROVE  /\ a \o e \in Seq(Nat) /\ Len(a \o e) = Len(a) + Len(e)
         /\ DOMAIN (a \o e) = 1 .. Len(a) + Len(e)
         /\ \A m \in 1 .. Len(a) : (a \o e)[m] = a[m]
         /\ \A m \in 1 .. Len(e) : (a \o e)[Len(a) + m] = e[m]
<1>1. \A m \in 1 .. Len(e) : (a \o e)[Len(a) + m] = e[m]
  <2> SUFFICES ASSUME NEW m \in 1 .. Len(e) PROVE (a \o e)[Len(a) + m] = e[m]
    OBVIOUS
  <2>1. Len(a) + m > Len(a) /\ Len(a) + m \in 1 .. Len(a) + Len(e)
        /\ Len(a) + m - Len(a) = m
    OBVIOUS
  <2> QED BY <2>1
<1> QED BY <1>1

\* What has been kept is given to the model, and its older part is cut.
LEMMA WholeCut ==
  ASSUME NEW v \in Inst, Whole(v), NEW w,
         w.said = v.said \o Delta(v.buf), w.buf = << >>, w.from = v.from, w.off = v.off
  PROVE  Whole(w)
<1> DEFINE a == v.said
           b == v.buf
           l == Len(a)
           d == IF Len(b) <= DeltaCap THEN 0 ELSE Len(b) - DeltaCap
           told == a \o b
           now1 == a \o Delta(b)
<1>1. a \in Seq(Nat) /\ b \in Seq(Nat) /\ DeltaCap \in Nat \ {0}
  BY BoundsAssumption DEF Inst
<1>2. /\ \A m, n \in DOMAIN told : m < n => told[m] < told[n]
      /\ ToSet(told) \subseteq ReadBy(v)
      /\ \A r \in ReadBy(v) \ ToSet(told) : PushedOut(r, a)
  BY DEF Whole
<1>3. /\ w.said \o w.buf = now1 /\ w.said = now1 /\ ReadBy(w) = ReadBy(v)
  <2>1. Delta(b) \in Seq(Nat)
    <3> HIDE DEF b
    <3> QED BY <1>1 DEF Delta
  <2>2. now1 \in Seq(Nat)
    <3> HIDE DEF a, b
    <3> QED BY <1>1, <2>1
  <2>3. now1 \o << >> = now1
    <3> HIDE DEF now1
    <3> QED BY <2>2
  <2> QED BY <2>3 DEF ReadBy
<1> HIDE DEF a, b
<1>4. /\ l = Len(a) /\ l \in Nat /\ DOMAIN a = 1 .. l
      /\ Len(b) \in Nat /\ d \in 0 .. Len(b) /\ (d > 0 => Len(b) = DeltaCap + d)
  BY <1>1
<1>5. /\ told \in Seq(Nat) /\ DOMAIN told = 1 .. l + Len(b)
      /\ \A m \in 1 .. l : told[m] = a[m]
      /\ \A m \in 1 .. Len(b) : told[l + m] = b[m]
  BY <1>1, Joined
<1>6. /\ Delta(b) \in Seq(Nat) /\ Len(Delta(b)) = Len(b) - d
      /\ \A m \in 1 .. Len(b) - d : Delta(b)[m] = b[m + d]
  BY <1>1 DEF Delta
<1> DEFINE k == Len(b) - d
<1>7. /\ now1 \in Seq(Nat) /\ Len(now1) = l + k /\ DOMAIN now1 = 1 .. l + k
      /\ \A m \in 1 .. l : now1[m] = a[m]
      /\ \A m \in 1 .. k : now1[l + m] = b[m + d]
  <2> DEFINE e == Delta(b)
  <2>1. e \in Seq(Nat) /\ Len(e) = k /\ \A m \in 1 .. k : e[m] = b[m + d]
    BY <1>6
  <2> HIDE DEF e, k, l, d
  <2>2. /\ a \o e \in Seq(Nat) /\ Len(a \o e) = l + k /\ DOMAIN (a \o e) = 1 .. l + k
        /\ \A m \in 1 .. l : (a \o e)[m] = a[m]
        /\ \A m \in 1 .. k : (a \o e)[l + m] = e[m]
    <3>1. /\ a \o e \in Seq(Nat) /\ Len(a \o e) = Len(a) + Len(e)
          /\ DOMAIN (a \o e) = 1 .. Len(a) + Len(e)
          /\ \A m \in 1 .. Len(a) : (a \o e)[m] = a[m]
          /\ \A m \in 1 .. Len(e) : (a \o e)[Len(a) + m] = e[m]
      BY <1>1, <2>1, Joined
    <3>2. Len(a) = l /\ Len(e) = k
      BY <1>4, <2>1
    <3> QED BY ONLY <3>1, <3>2
  <2> QED BY <2>1, <2>2 DEF e
<1> DEFINE At(m) == IF m <= l THEN m ELSE m + d
<1>8. k \in Nat /\ Len(b) = k + d /\ d \in Nat /\ (d > 0 => k = DeltaCap)
  BY <1>1, <1>4
<1> HIDE DEF l, d, k, now1, told
<1>9. ASSUME NEW m \in DOMAIN now1
      PROVE  At(m) \in DOMAIN told /\ now1[m] = told[At(m)]
  <2>1. CASE m <= l
    BY <1>4, <1>5, <1>7, <1>8, <1>9, <2>1
  <2>2. CASE ~ m <= l
    <3>1. m - l \in 1 .. k /\ m - l + d \in 1 .. Len(b) /\ m \in Nat
      <4>1. /\ l \in Nat /\ d \in Nat /\ k \in Nat /\ Len(b) = k + d /\ m \in 1 .. l + k
            /\ ~ m <= l
        BY <1>4, <1>7, <1>8, <1>9, <2>2
      <4> QED BY ONLY <4>1
    <3>2. now1[l + (m - l)] = b[m - l + d] /\ told[l + (m - l + d)] = b[m - l + d]
      BY <1>5, <1>7, <3>1
    <3>3. l + (m - l) = m /\ l + (m - l + d) = m + d /\ m + d \in 1 .. l + Len(b)
      <4>1. l \in Nat /\ d \in Nat /\ k \in Nat /\ Len(b) = k + d /\ m \in 1 .. l + k
        BY <1>4, <1>7, <1>8, <1>9
      <4> QED BY ONLY <4>1
    <3> QED BY <1>5, <2>2, <3>2, <3>3
  <2> QED BY <2>1, <2>2
<1>10. \A m, n \in DOMAIN now1 : m < n => At(m) < At(n)
  BY <1>4, <1>7, <1>8
<1> HIDE DEF At
<1>11. \A m, n \in DOMAIN now1 : m < n => now1[m] < now1[n]
  BY <1>2, <1>9, <1>10
<1>12. ToSet(now1) \subseteq ToSet(told)
  BY <1>9 DEF ToSet
<1>13. ASSUME NEW r \in ReadBy(v) \ ToSet(now1) PROVE PushedOut(r, now1)
  <2>1. CASE r \notin ToSet(told)
    <3>1. PICK m \in 1 .. l : r < a[m] /\ m + DeltaCap <= l + 1
      BY <1>2, <1>4, <2>1 DEF PushedOut
    <3>2. m \in DOMAIN now1 /\ now1[m] = a[m] /\ m + DeltaCap <= Len(now1) + 1
      BY <1>1, <1>4, <1>7, <1>8, <3>1
    <3> QED BY <3>1, <3>2 DEF PushedOut
  <2>2. CASE r \in ToSet(told)
    <3>1. PICK p \in DOMAIN told : told[p] = r
      BY <2>2 DEF ToSet
    <3>2. p \in Nat /\ p \in 1 .. l + k + d
      BY <1>4, <1>5, <1>8, <3>1
    <3>3. ~ p <= l
      <4>1. ASSUME p <= l PROVE FALSE
        <5>1. p \in DOMAIN now1 /\ now1[p] = r
          BY <1>4, <1>5, <1>7, <1>8, <3>1, <3>2, <4>1
        <5> QED BY <5>1 DEF ToSet
      <4> QED BY <4>1
    <3>4. p <= l + d
      <4>1. ASSUME ~ p <= l + d PROVE FALSE
        <5>1. /\ p - d - l \in 1 .. k /\ p - l \in 1 .. Len(b)
              /\ l + (p - d - l) = p - d /\ p - d - l + d = p - l /\ l + (p - l) = p
          <6>1. /\ l \in Nat /\ k \in Nat /\ d \in Nat /\ p \in 1 .. l + k + d /\ ~ p <= l + d
                /\ Len(b) = k + d
            BY <1>4, <1>8, <3>2, <4>1
          <6> QED BY ONLY <6>1
        <5>2. now1[p - d] = b[p - l] /\ told[p] = b[p - l]
          BY <1>5, <1>7, <5>1
        <5>3. p - d \in DOMAIN now1
          <6>1. l \in Nat /\ k \in Nat /\ d \in Nat /\ p \in 1 .. l + k + d /\ ~ p <= l + d
            BY <1>4, <1>8, <3>2, <4>1
          <6>2. p - d \in 1 .. l + k
            BY ONLY <6>1
          <6> QED BY <1>7, <6>2
        <5> QED BY <3>1, <5>2, <5>3 DEF ToSet
      <4> QED BY <4>1
    <3>5. d > 0 /\ k = DeltaCap
      BY <1>4, <1>8, <3>2, <3>3, <3>4
    <3>6. /\ 1 \in 1 .. k /\ 1 + d \in 1 .. Len(b)
          /\ l + 1 \in DOMAIN now1 /\ l + (1 + d) \in DOMAIN told /\ p < l + (1 + d)
      <4>1. k >= 1 /\ l \in Nat /\ k \in Nat /\ d \in Nat /\ Len(b) = k + d
        BY <1>1, <1>4, <1>8, <3>5
      <4>2. 1 \in 1 .. k /\ 1 + d \in 1 .. k + d /\ l + 1 \in 1 .. l + k
            /\ l + (1 + d) \in 1 .. l + (k + d) /\ p < l + (1 + d)
        BY <3>2, <3>4, <4>1
      <4> QED BY <1>5, <1>7, <4>1, <4>2
    <3>7. now1[l + 1] = told[l + (1 + d)]
      BY <1>5, <1>7, <3>6
    <3>8. r < now1[l + 1]
      BY <1>2, <3>1, <3>6, <3>7
    <3>9. l + 1 + DeltaCap <= Len(now1) + 1
      BY <1>1, <1>4, <1>7, <3>5
    <3> QED BY <3>6, <3>8, <3>9 DEF PushedOut
  <2> QED BY <2>1, <2>2
<1>14. ToSet(now1) \subseteq ReadBy(v)
  BY <1>2, <1>12
<1> QED BY <1>3, <1>11, <1>13, <1>14 DEF Whole

\* Nothing has been told at the start.
LEMMA TellInit == Init => TellInv
<1> SUFFICES ASSUME Init, NEW i \in Instances PROVE Whole(inst[i]) /\ Fresh(inst[i])
  BY DEF TellInv
<1>1. /\ inst[i].said = << >> /\ inst[i].buf = << >>
      /\ inst[i].from = 0 /\ inst[i].off = 0
  BY DEF Init, NoInst
<1> QED BY <1>1, WholeFresh DEF Fresh

\* Every step keeps what was told and what is held back whole and in order.
LEMMA TellStep == IInv /\ TellInv /\ [Next]_vars => TellInv'
<1> SUFFICES ASSUME IInv, TellInv, [Next]_vars, kind' = "narration", NEW k \in Instances
             PROVE  Whole(inst[k])' /\ Fresh(inst[k])'
  BY DEF TellInv
<1>a. kind = "narration"
  BY DEF Next, Consume, vars, Write, Pass, ClientReads, Start, Stop, SyncStart, SyncStop,
         Observe, HandOver, Close, PumpEnds, DropKey, Flush, Narrated, NarrationEnds,
         AmbientBegins, Distil, Spoken, AmbientEnds
<1>b. Whole(inst[k]) /\ Fresh(inst[k])
  BY <1>a, Zenon DEF TellInv
<1>c. /\ inst \in [Instances -> Inst] /\ inst[k] \in Inst
      /\ inst[k].from <= inst[k].off /\ written \in Nat
  BY BoundsAssumption DEF IInv, Shape, TypeOK
<1>d. ASSUME /\ inst'[k].said = inst[k].said /\ inst'[k].buf = inst[k].buf
             /\ inst'[k].from = inst[k].from /\ inst'[k].off = inst[k].off
             /\ inst'[k].pc \in {"none", "registered"} => inst[k].pc \in {"none", "registered"}
      PROVE  Whole(inst[k])' /\ Fresh(inst[k])'
  BY <1>b, <1>d DEF Whole, ReadBy, Fresh
<1>e. ASSUME inst'[k] = inst[k] PROVE Whole(inst[k])' /\ Fresh(inst[k])'
  BY <1>d, <1>e
<1>1. CASE Start
  <2>1. Next1 \in Instances /\ inst[Next1].pc = "none"
    <3>1. Next1 \in Unused
      BY <1>1, FreshInstance DEF Start
    <3> QED BY <3>1 DEF Unused
  <2> QED BY <1>1, <1>c, <1>d, <2>1 DEF Start, Inst
<1>2. CASE Stop
  BY <1>2, <1>c, <1>d DEF Stop, Inst
<1>3. ASSUME NEW i \in Instances, Observe(i) PROVE Whole(inst[k])' /\ Fresh(inst[k])'
  <2>1. CASE i # k
    BY <1>3, <1>c, <1>e, <2>1 DEF Observe
  <2>2. CASE i = k
    <3>1. /\ inst'[k].from = written /\ inst'[k].off = written
          /\ inst'[k].said = inst[k].said /\ inst'[k].buf = inst[k].buf
          /\ inst'[k].pc = "loop" /\ inst[k].pc = "registered"
      BY <1>3, <1>c, <2>2 DEF Observe, Observed, Inst
    <3>2. inst'[k].said = << >> /\ inst'[k].buf = << >>
      BY <1>b, <3>1 DEF Fresh
    <3>3. Whole(inst'[k])
      BY <1>c, <3>1, <3>2, WholeFresh
    <3> QED BY <3>1, <3>3 DEF Whole, Fresh
  <2> QED BY <2>1, <2>2
<1>4. ASSUME NEW i \in Instances, HandOver(i) PROVE Whole(inst[k])' /\ Fresh(inst[k])'
  <2>1. CASE i # k
    BY <1>4, <1>c, <1>e, <2>1 DEF HandOver
  <2>2. CASE i = k
    <3> DEFINE w == inst'[k]
    <3>1. /\ w.from = inst[k].from /\ w.off = inst[k].off + 1
          /\ w.said = inst[k].said
          /\ w.buf = IF Projected(inst[k].off + 1) THEN Append(inst[k].buf, inst[k].off + 1)
                     ELSE inst[k].buf
          /\ w.pc = inst[k].pc /\ inst[k].pc = "loop"
      BY <1>4, <1>a, <1>c, <2>2 DEF HandOver, Inst
    <3>2. w \in Inst
      BY ShapeStep, Zenon DEF Shape
    <3>3. Whole(w)
      <4> HIDE DEF w
      <4> QED BY <1>b, <1>c, <3>1, <3>2, WholeNext
    <3> QED BY <3>1, <3>3 DEF Whole, Fresh
  <2> QED BY <2>1, <2>2
<1>5. ASSUME NEW i \in Instances, Flush(i) PROVE Whole(inst[k])' /\ Fresh(inst[k])'
  <2>1. CASE i # k
    BY <1>5, <1>c, <1>e, <2>1 DEF Flush
  <2>2. CASE i = k
    <3>1. /\ inst'[k].from = inst[k].from /\ inst'[k].off = inst[k].off
          /\ inst'[k].said = inst[k].said \o Delta(inst[k].buf) /\ inst'[k].buf = << >>
          /\ inst'[k].pc = "say"
      BY <1>5, <1>c, <2>2 DEF Flush, Inst
    <3>2. Whole(inst'[k])
      BY <1>b, <1>c, <3>1, WholeCut
    <3> QED BY <3>1, <3>2 DEF Whole, Fresh
  <2> QED BY <2>1, <2>2
<1>6. ASSUME NEW i \in Instances, Close(i) \/ Narrated(i) \/ NarrationEnds(i) \/ DropKey(i)
      PROVE Whole(inst[k])' /\ Fresh(inst[k])'
  <2>1. /\ inst'[k].said = inst[k].said /\ inst'[k].buf = inst[k].buf
        /\ inst'[k].from = inst[k].from /\ inst'[k].off = inst[k].off
    <3>1. CASE Close(i)
      BY <3>1, <1>c DEF Close, Inst
    <3>2. CASE Narrated(i)
      BY <3>2, <1>c DEF Narrated, Inst
    <3>3. CASE NarrationEnds(i)
      BY <3>3, <1>c DEF NarrationEnds, Inst
    <3>4. CASE DropKey(i)
      BY <3>4, <1>c DEF DropKey, Inst
    <3> QED BY <1>6, <3>1, <3>2, <3>3, <3>4
  <2>2. inst'[k].pc = inst[k].pc \/ inst'[k].pc \in {"loop", "end", "done"}
    <3>1. CASE Close(i)
      BY <3>1, <1>c DEF Close, Inst
    <3>2. CASE Narrated(i)
      BY <3>2, <1>c DEF Narrated, Inst
    <3>3. CASE NarrationEnds(i)
      BY <3>3, <1>c DEF NarrationEnds, Inst
    <3>4. CASE DropKey(i)
      BY <3>4, <1>c DEF DropKey, Inst
    <3> QED BY <1>6, <3>1, <3>2, <3>3, <3>4
  <2> QED BY <1>d, <2>1, <2>2
<1>7. CASE UNCHANGED inst
  BY <1>7, <1>e
<1> QED
  BY <1>a, <1>1, <1>2, <1>3, <1>4, <1>5, <1>6, <1>7 DEF Next, Consume, vars, Write, Pass,
     ClientReads, SyncStart, SyncStop, PumpEnds, AmbientBegins, Distil, Spoken, AmbientEnds

\* What is streamed to a narration is told in order and once, and nothing of it
\* is lost but the older part of a burst, for any transcript, any cap and however
\* the flushes fall between its records (narrateLoop, narrator.line).
THEOREM NarrationTellsOnce == Spec => []ToldOnce
<1>1. TellInv => ToldOnce
  BY DEF TellInv, Whole, ReadBy, PushedOut, ToldOnce
<1> QED
  BY <1>1, TellInit, TellStep, Invariant, PTL DEF Spec

\* There is a least instance that has not been begun.
LEMMA FreshLeast == ASSUME Unused # {} PROVE \E n \in Unused : \A j \in Unused : n <= j
<1>1. Unused \subseteq Nat
  BY DEF Unused, Instances
<1>2. PICK i \in Unused : \A j \in Unused : <<j, i>> \notin OpToRel(<, Nat)
  BY <1>1, NatLessThanWellFounded, WFMin
<1>3. ASSUME NEW j \in Unused, ~(i <= j) PROVE FALSE
  <2>1. i \in Nat /\ j \in Nat /\ j < i
    BY <1>1, <1>3
  <2> QED
    BY <1>2, <2>1 DEF OpToRel
<1> QED
  BY <1>3

\* What EndIsLast says of two messages, x before y.
Rel(x, y) ==
  /\ x[1] = "tail" /\ y[1] = "tail" => x[2] < y[2]
  /\ x[1] = "tail-end" /\ y[1] = "tail" => y[2] > inst[x[2]].off
  /\ x[1] = "tail-end" /\ y[1] = "tail-end" => x[2] < y[2]

\* A line that was sent has been read by the stream that is in the loop now; a
\* tail whose end was sent has ended, and reads no further.
Known(x) ==
  /\ x[1] = "tail" =>
       /\ kind = "tail" /\ x[2] <= written
       /\ \A i \in Instances : inst[i].pc = "loop" => x[2] <= inst[i].off
  /\ x[1] = "tail-end" =>
       /\ kind = "tail" /\ x[2] \in Instances /\ inst[x[2]].pc \in {"end", "done"}
       /\ \A i \in Instances : inst[i].pc = "loop" => inst[x[2]].off <= inst[i].off

KnownMessages == {x \in Messages : Known(x)}
Related == {p \in KnownMessages \X KnownMessages : Rel(p[1], p[2])}

\* What has been read, g, and then what is in the buffer, c.
Chained(g, c, P) ==
  /\ \A m, n \in DOMAIN g : m < n => <<g[m], g[n]>> \in P
  /\ \A m \in DOMAIN g, n \in DOMAIN c : <<g[m], c[n]>> \in P
  /\ \A m, n \in DOMAIN c : m < n => <<c[m], c[n]>> \in P

\* Tails are begun in order, and one ends before the next is begun.
InOrder ==
  kind = "tail" =>
    \A i, j \in Instances :
      i # j /\ inst[j].pc # "none" /\ inst[i].pc \in {"none", "registered", "loop"}
      => j < i

\* Any message in the channel, or before it, is related to all later ones.
MessagesOK ==
  /\ got \in Seq(KnownMessages) /\ client \in Seq(KnownMessages)
  /\ Chained(got, client, Related)

\* A chain stays one when more may follow each other.
LEMMA ChainMore ==
  ASSUME NEW g, NEW c, NEW P, NEW Q, P \subseteq Q, Chained(g, c, P)
  PROVE  Chained(g, c, Q)
BY Zenon DEF Chained

\* A message more at the end of the channel.
LEMMA ChainAppend ==
  ASSUME NEW K, NEW P, NEW g \in Seq(K), NEW c \in Seq(K), NEW y,
         Chained(g, c, P), \A x \in K : <<x, y>> \in P
  PROVE  Chained(g, Append(c, y), P)
<1> DEFINE d == Append(c, y)
           l == Len(c)
<1>1. /\ l \in Nat /\ DOMAIN c = 1 .. l /\ DOMAIN d = 1 .. l + 1 /\ d[l + 1] = y
      /\ \A n \in 1 .. l : d[n] = c[n] /\ c[n] \in K
      /\ \A m \in DOMAIN g : g[m] \in K
  OBVIOUS
<1> HIDE DEF d, l
<1>2. ASSUME NEW m \in DOMAIN g, NEW n \in 1 .. l + 1 PROVE <<g[m], d[n]>> \in P
  <2>1. n \in 1 .. l \/ n = l + 1
    BY <1>1
  <2> QED BY <1>1, <2>1 DEF Chained
<1>3. ASSUME NEW m \in 1 .. l + 1, NEW n \in 1 .. l + 1, m < n PROVE <<d[m], d[n]>> \in P
  <2>1. m \in 1 .. l /\ (n \in 1 .. l \/ n = l + 1)
    BY <1>1, <1>3
  <2> QED BY <1>1, <1>3, <2>1 DEF Chained
<1> QED BY <1>1, <1>2, <1>3 DEF Chained, d

\* The client reads the message at the head of the channel.
LEMMA ChainRead ==
  ASSUME NEW K, NEW P, NEW g \in Seq(K), NEW c \in Seq(K), c # << >>, Chained(g, c, P)
  PROVE  Chained(g, Tail(c), P) /\ Chained(Append(g, Head(c)), Tail(c), P)
<1> DEFINE t == Tail(c)
           h == Append(g, Head(c))
           k == Len(g)
           l == Len(c)
<1>1. /\ l \in Nat \ {0} /\ DOMAIN c = 1 .. l /\ DOMAIN t = 1 .. l - 1
      /\ \A n \in 1 .. l - 1 : t[n] = c[n + 1]
  OBVIOUS
<1>2. /\ k \in Nat /\ DOMAIN g = 1 .. k /\ DOMAIN h = 1 .. k + 1 /\ h[k + 1] = c[1]
      /\ \A n \in 1 .. k : h[n] = g[n]
  OBVIOUS
<1> HIDE DEF t, h, k, l
<1>3. \A n \in 1 .. l - 1 : n + 1 \in 1 .. l /\ 1 < n + 1
  BY <1>1
<1>4. 1 \in 1 .. l
  BY <1>1
<1>5. ASSUME NEW m \in 1 .. l - 1, NEW n \in 1 .. l - 1, m < n PROVE <<t[m], t[n]>> \in P
  <2>1. m + 1 \in 1 .. l /\ n + 1 \in 1 .. l /\ m + 1 < n + 1
    BY <1>1, <1>5
  <2> QED BY <1>1, <2>1 DEF Chained
<1>6. ASSUME NEW m \in 1 .. k, NEW n \in 1 .. l - 1 PROVE <<g[m], t[n]>> \in P
  BY <1>1, <1>2, <1>3 DEF Chained
<1>7. Chained(g, t, P)
  BY <1>1, <1>2, <1>5, <1>6 DEF Chained
<1>8. ASSUME NEW m \in 1 .. k + 1, NEW n \in 1 .. l - 1 PROVE <<h[m], t[n]>> \in P
  <2>1. m \in 1 .. k \/ m = k + 1
    BY <1>2
  <2>2. <<c[1], t[n]>> \in P
    BY <1>1, <1>3, <1>4 DEF Chained
  <2> QED BY <1>2, <1>6, <2>1, <2>2
<1>9. ASSUME NEW m \in 1 .. k + 1, NEW n \in 1 .. k + 1, m < n PROVE <<h[m], h[n]>> \in P
  <2>1. m \in 1 .. k /\ (n \in 1 .. k \/ n = k + 1)
    BY <1>2, <1>9
  <2>2. <<g[m], c[1]>> \in P
    BY <1>1, <1>2, <1>4, <2>1 DEF Chained
  <2> QED BY <1>2, <1>9, <2>1, <2>2 DEF Chained
<1>10. Chained(h, t, P)
  BY <1>1, <1>2, <1>5, <1>8, <1>9 DEF Chained
<1> QED BY <1>7, <1>10 DEF t, h

\* A step after which the tails that have ended have read no more, and the one
\* that is in the loop no less.
Onward ==
  /\ kind' = kind
  /\ kind = "tail" =>
       /\ written <= written'
       /\ \A i \in Instances :
            /\ inst[i].pc \in {"end", "done"} =>
                 inst'[i].pc \in {"end", "done"} /\ inst'[i].off = inst[i].off
            /\ inst'[i].pc = "loop" =>
                 \/ inst[i].pc = "loop" /\ inst[i].off <= inst'[i].off
                 \/ inst'[i].off = written

\* What is known, and what may follow it, only grows.
LEMMA StaysKnown ==
  ASSUME IInv, IInv', Onward
  PROVE  KnownMessages \subseteq KnownMessages' /\ Related \subseteq Related'
<1>a. /\ written \in Nat /\ written' \in Nat
      /\ \A i \in Instances : inst[i].off \in Nat /\ inst'[i].off \in Nat
                              /\ inst[i].off <= written
  BY BoundsAssumption DEF IInv, TypeOK, Shape, Inst
<1>1. ASSUME NEW x \in Messages, Known(x) PROVE Known(x)'
  <2>0. x[2] \in Nat
    BY DEF Messages
  <2>1. CASE x[1] = "tail"
    <3>1. /\ kind = "tail" /\ x[2] <= written
          /\ \A i \in Instances : inst[i].pc = "loop" => x[2] <= inst[i].off
      BY <1>1, <2>1 DEF Known
    <3>2. x[2] <= written'
      BY <1>a, <2>0, <3>1 DEF Onward
    <3>3. ASSUME NEW i \in Instances, inst'[i].pc = "loop" PROVE x[2] <= inst'[i].off
      BY <1>a, <2>0, <3>1, <3>3 DEF Onward
    <3> QED BY <2>1, <3>1, <3>2, <3>3 DEF Known, Onward
  <2>2. CASE x[1] = "tail-end"
    <3>1. /\ kind = "tail" /\ x[2] \in Instances /\ inst[x[2]].pc \in {"end", "done"}
          /\ \A i \in Instances : inst[i].pc = "loop" => inst[x[2]].off <= inst[i].off
      BY <1>1, <2>2 DEF Known
    <3>2. inst'[x[2]].pc \in {"end", "done"} /\ inst'[x[2]].off = inst[x[2]].off
      BY <3>1 DEF Onward
    <3>3. ASSUME NEW i \in Instances, inst'[i].pc = "loop"
          PROVE  inst'[x[2]].off <= inst'[i].off
      BY <1>a, <3>1, <3>2, <3>3 DEF Onward
    <3> QED BY <2>2, <3>1, <3>2, <3>3 DEF Known, Onward
  <2>3. CASE x[1] \notin {"tail", "tail-end"}
    BY <2>3 DEF Known
  <2> QED BY <2>1, <2>2, <2>3
<1>2. ASSUME NEW x \in Messages, Known(x), NEW y \in Messages, Rel(x, y) PROVE Rel(x, y)'
  <2>1. x[1] = "tail-end" => inst'[x[2]].off = inst[x[2]].off
    BY <1>2 DEF Known, Onward
  <2> QED BY <1>2, <2>1 DEF Rel
<1>3. KnownMessages \subseteq KnownMessages'
  BY <1>1 DEF KnownMessages
<1>4. ASSUME NEW p \in Related PROVE p \in Related'
  <2>1. PICK x \in KnownMessages, y \in KnownMessages : p = <<x, y>> /\ Rel(x, y)
    BY DEF Related
  <2>2. x \in Messages /\ Known(x) /\ y \in Messages
    BY DEF KnownMessages
  <2>3. Rel(x, y)'
    BY <1>2, <2>1, <2>2
  <2>4. x \in KnownMessages' /\ y \in KnownMessages'
    BY <1>3
  <2> QED BY <2>1, <2>3, <2>4 DEF Related
<1> QED BY <1>3, <1>4

\* What is sent comes after everything that was.
LEMMA Sending ==
  ASSUME IInv, IInv', MessagesOK, Onward, got' = got,
         NEW m, m \in KnownMessages', \A x \in KnownMessages' : x \in KnownMessages => Rel(x, m)',
         Broadcast(m)
  PROVE  MessagesOK'
<1>1. KnownMessages \subseteq KnownMessages' /\ Related \subseteq Related'
  BY StaysKnown
<1>2. got \in Seq(KnownMessages) /\ client \in Seq(KnownMessages)
      /\ Chained(got, client, Related)
  BY DEF MessagesOK
<1>3. ASSUME NEW x \in KnownMessages PROVE <<x, m>> \in Related'
  BY <1>1 DEF Related
<1> DEFINE K == KnownMessages
           L == KnownMessages'
           R == Related'
<1>4. K \subseteq L /\ m \in L /\ got \in Seq(K) /\ client \in Seq(K)
      /\ \A x \in K : <<x, m>> \in R
  BY <1>1, <1>2, <1>3
<1>5. Chained(got, client, R)
  BY <1>1, <1>2, ChainMore
<1> HIDE DEF K, L, R
<1>6. got \in Seq(L) /\ client \in Seq(L) /\ Append(client, m) \in Seq(L)
  BY <1>4
<1>7. Chained(got, Append(client, m), R)
  BY <1>4, <1>5, ChainAppend
<1>8. client' = client \/ client' = Append(client, m)
  BY DEF Broadcast
<1>9. got' \in Seq(L) /\ client' \in Seq(L) /\ Chained(got', client', R)
  BY <1>5, <1>6, <1>7, <1>8
<1> QED BY <1>9 DEF MessagesOK, L, R, Chained

\* Nothing is sent.
LEMMA NotSending ==
  ASSUME IInv, IInv', MessagesOK, Onward, UNCHANGED <<client, got>>
  PROVE  MessagesOK'
<1>1. KnownMessages \subseteq KnownMessages' /\ Related \subseteq Related'
  BY StaysKnown
<1>2. got \in Seq(KnownMessages) /\ client \in Seq(KnownMessages)
      /\ Chained(got, client, Related)
  BY DEF MessagesOK
<1> DEFINE K == KnownMessages
           L == KnownMessages'
           R == Related'
<1>3. K \subseteq L /\ got \in Seq(K) /\ client \in Seq(K) /\ Chained(got, client, R)
  BY <1>1, <1>2, ChainMore
<1> HIDE DEF K, L, R
<1>4. got' \in Seq(L) /\ client' \in Seq(L) /\ Chained(got', client', R)
  BY <1>3
<1> QED BY <1>4 DEF MessagesOK, L, R, Chained

\* The client reads.
LEMMA Reading ==
  ASSUME IInv, IInv', MessagesOK, ClientReads
  PROVE  MessagesOK'
<1>0. Onward
  <2>1. written \in Nat /\ \A i \in Instances : inst[i].off \in Nat
    BY BoundsAssumption DEF IInv, TypeOK, Shape, Inst
  <2> QED BY <2>1 DEF ClientReads, Onward
<1>1. KnownMessages \subseteq KnownMessages' /\ Related \subseteq Related'
  BY <1>0, StaysKnown
<1>2. got \in Seq(KnownMessages) /\ client \in Seq(KnownMessages)
      /\ Chained(got, client, Related)
  BY DEF MessagesOK
<1> DEFINE K == KnownMessages
           L == KnownMessages'
           R == Related'
<1>3. K \subseteq L /\ got \in Seq(K) /\ client \in Seq(K) /\ Chained(got, client, R)
  BY <1>1, <1>2, ChainMore
<1>4. client # << >> /\ client' = Tail(client)
      /\ (got' = got \/ got' = Append(got, Head(client)))
  BY DEF ClientReads
<1> HIDE DEF K, L, R
<1>5. Chained(got, Tail(client), R) /\ Chained(Append(got, Head(client)), Tail(client), R)
  BY <1>3, <1>4, ChainRead
<1>6. Tail(client) \in Seq(K) /\ Head(client) \in K
  BY <1>3, <1>4
<1>7. Append(got, Head(client)) \in Seq(L) /\ got \in Seq(L) /\ Tail(client) \in Seq(L)
  BY <1>3, <1>6
<1>8. got' \in Seq(L) /\ client' \in Seq(L) /\ Chained(got', client', R)
  BY <1>4, <1>5, <1>7
<1> QED BY <1>8 DEF MessagesOK, L, R, Chained

\* An utterance is related to every message.
LEMMA Uttering ==
  ASSUME IInv, IInv', MessagesOK, Onward, got' = got,
         Broadcast(Utterance) \/ UNCHANGED client
  PROVE  MessagesOK'
<1>1. Utterance \in KnownMessages'
  BY DEF KnownMessages, Known, Utterance, Messages
<1>2. \A x : Rel(x, Utterance)'
  BY DEF Rel, Utterance
<1>3. CASE Broadcast(Utterance)
  BY <1>1, <1>2, <1>3, Sending
<1>4. CASE UNCHANGED client
  BY <1>4, NotSending
<1> QED BY <1>3, <1>4

\* A record goes to the clients.
LEMMA TailSends ==
  ASSUME IInv, IInv', InOrder, MessagesOK, NEW i \in Instances, HandOver(i)
  PROVE  MessagesOK'
<1>a. /\ inst \in [Instances -> Inst] /\ inst[i] \in Inst /\ written \in Nat
      /\ inst[i].off \in Nat
  <2>1. inst \in [Instances -> Inst] /\ inst[i] \in Inst
    BY DEF IInv, Shape
  <2>2. written \in Nat
    <3>1. Len(Records) \in Nat /\ written \in 0 .. Len(Records)
      BY BoundsAssumption DEF IInv, TypeOK
    <3> QED BY <3>1
  <2>3. inst[i].off \in Nat
    BY <2>1 DEF Inst
  <2> QED BY <2>1, <2>2, <2>3
<1>1. /\ inst[i].pc = "loop" /\ inst[i].off < written /\ written' = written
      /\ kind' = kind /\ got' = got
  BY DEF HandOver
<1>2. /\ inst'[i].off = inst[i].off + 1 /\ inst'[i].pc = "loop"
      /\ \A j \in Instances : j # i => inst'[j] = inst[j]
  BY <1>a, <1>1 DEF HandOver, Inst
<1>3. kind = "tail" => \A j \in Instances : j # i => inst'[j].pc # "loop"
  BY <1>1, <1>2 DEF IInv, KeyInv
<1>4. Onward
  <2>1. ASSUME NEW j \in Instances
        PROVE  /\ inst[j].pc \in {"end", "done"} =>
                    inst'[j].pc \in {"end", "done"} /\ inst'[j].off = inst[j].off
               /\ inst'[j].pc = "loop" =>
                    \/ inst[j].pc = "loop" /\ inst[j].off <= inst'[j].off
                    \/ inst'[j].off = written
    <3>1. CASE j = i
      BY <1>a, <1>1, <1>2, <3>1
    <3>2. CASE j # i
      <4>1. inst[j].off \in Nat /\ inst'[j] = inst[j]
        BY <1>a, <1>2, <3>2 DEF Inst
      <4> QED BY <4>1
    <3> QED BY <3>1, <3>2
  <2> QED BY <1>a, <1>1, <2>1 DEF Onward
<1>r. PICK r \in Nat : r = inst[i].off + 1
  BY <1>a
<1> DEFINE m == <<"tail", r>>
<1>5. /\ r \in Nat /\ r <= written /\ m \in Messages /\ m[1] = "tail" /\ m[2] = r
      /\ inst'[i].off = r /\ r = inst[i].off + 1
  BY <1>a, <1>1, <1>2, <1>r DEF Messages
<1> HIDE DEF m
<1>6. CASE Projected(r) /\ kind = "tail"
  <2>1. Broadcast(m)
    BY <1>6, <1>r DEF HandOver, m
  <2>2. m \in KnownMessages'
    <3>1. \A j \in Instances : inst'[j].pc = "loop" => r <= inst'[j].off
      <4> SUFFICES ASSUME NEW j \in Instances, inst'[j].pc = "loop" PROVE r <= inst'[j].off
        OBVIOUS
      <4>1. j = i
        BY <1>3, <1>6
      <4> QED BY <1>5, <4>1
    <3>2. Known(m)'
      BY <1>1, <1>5, <1>6, <3>1 DEF Known
    <3> QED BY <1>5, <3>2 DEF KnownMessages
  <2>3. ASSUME NEW x \in KnownMessages, x \in KnownMessages' PROVE Rel(x, m)'
    <3>1. x \in Messages /\ Known(x) /\ x[2] \in Nat
      BY DEF KnownMessages, Messages
    <3>2. CASE x[1] = "tail"
      <4>1. x[2] <= inst[i].off
        BY <1>1, <3>1, <3>2 DEF Known
      <4>2. x[2] < r
        BY <1>a, <1>5, <3>1, <4>1
      <4> QED BY <1>5, <3>2, <4>2 DEF Rel
    <3>3. CASE x[1] = "tail-end"
      <4>1. x[2] \in Instances /\ inst[x[2]].off <= inst[i].off
            /\ inst[x[2]].pc \in {"end", "done"}
        BY <1>1, <3>1, <3>3 DEF Known
      <4>2. inst'[x[2]] = inst[x[2]] /\ inst[x[2]].off \in Nat
        BY <1>a, <1>1, <1>2, <4>1 DEF Inst
      <4>3. r > inst'[x[2]].off
        BY <1>a, <1>5, <4>1, <4>2
      <4> QED BY <1>5, <3>3, <4>3 DEF Rel
    <3>4. CASE x[1] \notin {"tail", "tail-end"}
      BY <3>4 DEF Rel
    <3> QED BY <3>2, <3>3, <3>4
  <2> QED BY <1>1, <1>4, <2>1, <2>2, <2>3, Sending
<1>7. CASE ~(Projected(r) /\ kind = "tail")
  <2>1. client' = client
    BY <1>7, <1>r DEF HandOver
  <2> QED BY <1>1, <1>4, <2>1, NotSending
<1> QED BY <1>6, <1>7

\* A tail tells its clients that it has ended.
LEMMA EndSends ==
  ASSUME IInv, IInv', InOrder, MessagesOK, NEW i \in Instances, PumpEnds(i)
  PROVE  MessagesOK'
<1>a. /\ inst \in [Instances -> Inst] /\ inst[i] \in Inst /\ written \in Nat
  BY BoundsAssumption DEF IInv, Shape, TypeOK
<1>b. i \in Nat /\ \A j \in Instances : j \in Nat
  BY DEF Instances
<1>1. /\ inst[i].pc = "loop" /\ written' = written /\ kind = "tail"
      /\ kind' = kind /\ got' = got /\ Broadcast(<<"tail-end", i>>)
      /\ inst' = [inst EXCEPT ![i].pc = "end"]
  BY DEF PumpEnds
<1>2. /\ inst'[i].off = inst[i].off /\ inst'[i].pc = "end"
      /\ \A j \in Instances : j # i => inst'[j] = inst[j]
  BY <1>a, <1>1 DEF Inst
<1>3. \A j \in Instances : inst'[j].pc # "loop"
  BY <1>1, <1>2 DEF IInv, KeyInv
<1>4. Onward
  BY <1>a, <1>1, <1>2, <1>3 DEF Onward
<1> DEFINE m == <<"tail-end", i>>
<1>5. m \in Messages /\ m[1] = "tail-end" /\ m[2] = i
  BY <1>b DEF Messages
<1>6. m \in KnownMessages'
  <2>1. Known(m)'
    BY <1>1, <1>2, <1>3, <1>5 DEF Known
  <2> QED BY <1>5, <2>1 DEF KnownMessages
<1>7. ASSUME NEW x \in KnownMessages, x \in KnownMessages' PROVE Rel(x, m)'
  <2>1. x \in Messages /\ Known(x)
    BY DEF KnownMessages
  <2>2. CASE x[1] = "tail-end"
    <3>1. x[2] \in Instances /\ inst[x[2]].pc \in {"end", "done"}
      BY <2>1, <2>2 DEF Known
    <3>2. x[2] < i
      BY <1>1, <3>1 DEF InOrder
    <3> QED BY <1>5, <2>2, <3>2 DEF Rel
  <2>3. CASE x[1] # "tail-end"
    BY <1>5, <2>3 DEF Rel
  <2> QED BY <2>2, <2>3
<1>8. Broadcast(m)
  BY <1>1
<1> HIDE DEF m
<1> QED BY <1>1, <1>4, <1>6, <1>7, <1>8, Sending

\* Nothing has been sent at the start.
LEMMA EndInit == Init => InOrder /\ MessagesOK
<1> SUFFICES ASSUME Init PROVE InOrder /\ MessagesOK
  OBVIOUS
<1>1. \A i \in Instances : inst[i].pc = "none"
  BY DEF Init, NoInst
<1>2. got = << >> /\ client = << >> /\ DOMAIN << >> = {}
  BY DEF Init
<1>3. MessagesOK
  BY <1>2 DEF MessagesOK, Chained
<1> QED BY <1>1, <1>3 DEF InOrder

\* An instance that is begun comes after all that were, and these have ended.
LEMMA OrderStep ==
  ASSUME IInv, InOrder, [Next]_vars
  PROVE  InOrder'
<1> SUFFICES ASSUME kind = "tail",
                    NEW i \in Instances, NEW j \in Instances, i # j, inst'[j].pc # "none",
                    inst'[i].pc \in {"none", "registered", "loop"}
             PROVE  j < i
  BY DEF InOrder, Next, Consume, vars, Write, Pass, ClientReads, Start, Stop, SyncStart,
         SyncStop, Observe, HandOver, Close, PumpEnds, DropKey, Flush, Narrated,
         NarrationEnds, AmbientBegins, Distil, Spoken, AmbientEnds
<1>a. inst \in [Instances -> Inst] /\ inst[i] \in Inst /\ inst[j] \in Inst
  BY DEF IInv, Shape
<1>b. i \in Nat /\ j \in Nat
  BY DEF Instances
<1>1. ASSUME inst[j].pc # "none", inst[i].pc \in {"none", "registered", "loop"}
      PROVE  j < i
  BY <1>1 DEF InOrder
<1>2. CASE Start
  <2>1. /\ Next1 \in Instances /\ inst[Next1].pc = "none"
        /\ \A k \in Unused : Next1 <= k
    <3>1. \A k \in Unused : k \in Nat
      BY DEF Unused, Instances
    <3>2. Next1 \in Unused
      BY <1>2, FreshInstance DEF Start
    <3>3. PICK n \in Unused : \A k \in Unused : n <= k
      BY <1>2, FreshLeast DEF Start
    <3>4. \A k \in Unused : Next1 <= k
      BY <3>3 DEF Next1
    <3> QED BY <3>2, <3>4 DEF Unused
  <2>2. /\ inst'[Next1].pc = "registered"
        /\ \A k \in Instances : k # Next1 => inst'[k] = inst[k]
    BY <1>2, <1>a, <2>1 DEF Start, Inst
  <2>3. CASE i = Next1
    <3>1. inst[j].pc # "none" /\ inst[i].pc = "none"
      BY <2>1, <2>2, <2>3
    <3> QED BY <1>1, <3>1
  <2>4. CASE i # Next1 /\ j # Next1
    BY <1>1, <2>2, <2>4
  <2>5. CASE j = Next1
    <3>1. inst[i].pc \in {"none", "registered", "loop"} /\ inst'[i] = inst[i]
      BY <2>2, <2>5
    <3>2. inst[i].pc \notin {"registered", "loop"}
      BY <1>2 DEF Start, KeyIsFree, IInv, KeyInv, Instances
    <3>3. i \in Unused
      BY <3>1, <3>2 DEF Unused
    <3> QED BY <1>b, <2>1, <2>5, <3>3
  <2> QED BY <2>3, <2>4, <2>5
<1>3. CASE Stop
  BY <1>1, <1>3, <1>a DEF Stop, Inst
<1>4. ASSUME NEW k \in Instances, Observe(k) PROVE j < i
  BY <1>1, <1>4, <1>a DEF Observe, Inst
<1>5. ASSUME NEW k \in Instances, HandOver(k) PROVE j < i
  BY <1>1, <1>5, <1>a DEF HandOver, Inst
<1>6. ASSUME NEW k \in Instances, Close(k) PROVE j < i
  BY <1>1, <1>6, <1>a DEF Close, Inst
<1>7. ASSUME NEW k \in Instances, PumpEnds(k) PROVE j < i
  BY <1>1, <1>7, <1>a DEF PumpEnds, Inst
<1>8. ASSUME NEW k \in Instances, DropKey(k) PROVE j < i
  BY <1>1, <1>8, <1>a DEF DropKey, Inst
<1>9. CASE UNCHANGED inst
  BY <1>1, <1>9
<1> QED
  BY <1>2, <1>3, <1>4, <1>5, <1>6, <1>7, <1>8, <1>9 DEF Next, Consume, vars, Write, Pass,
     ClientReads, SyncStart, SyncStop, Flush, Narrated, NarrationEnds, AmbientBegins,
     Distil, Spoken, AmbientEnds

\* Every step keeps the messages in an order they may follow each other in.
LEMMA MessageStep ==
  ASSUME IInv, IInv', InOrder, MessagesOK, [Next]_vars
  PROVE  MessagesOK'
<1>a. /\ inst \in [Instances -> Inst] /\ written \in Nat
      /\ \A i \in Instances : inst[i] \in Inst /\ inst[i].off \in Nat
  BY BoundsAssumption DEF IInv, Shape, TypeOK, Inst
<1>1. CASE Write
  <2>1. Onward
    BY <1>1, <1>a DEF Write, Onward
  <2> QED BY <1>1, <2>1, NotSending DEF Write
<1>2. CASE Pass
  <2>1. Onward
    BY <1>2, <1>a DEF Pass, Onward
  <2> QED BY <1>2, <2>1, NotSending DEF Pass
<1>3. CASE ClientReads
  BY <1>3, Reading
<1>4. CASE Start
  <2>1. Next1 \in Instances /\ inst[Next1].pc = "none"
    BY <1>4, FreshInstance DEF Start, Unused
  <2>2. ASSUME NEW i \in Instances
        PROVE  inst'[i].off = inst[i].off
               /\ (inst'[i].pc = inst[i].pc
                   \/ (inst[i].pc = "none" /\ inst'[i].pc = "registered"))
    <3>1. CASE i = Next1
      BY <1>4, <1>a, <2>1, <3>1 DEF Start, Inst
    <3>2. CASE i # Next1
      <4>1. inst'[i] = inst[i]
        BY <1>4, <1>a, <3>2 DEF Start
      <4>2. inst'[i].off = inst[i].off /\ inst'[i].pc = inst[i].pc
        BY <4>1, Zenon
      <4> QED BY <4>2, Zenon
    <3> QED BY <3>1, <3>2
  <2>3. Onward
    BY <1>4, <1>a, <2>2 DEF Start, Onward
  <2> QED BY <1>4, <2>3, NotSending DEF Start
<1>5. CASE Stop
  <2>2. ASSUME NEW i \in Instances PROVE inst'[i].off = inst[i].off /\ inst'[i].pc = inst[i].pc
    BY <1>5, <1>a DEF Stop, Inst
  <2>3. Onward
    BY <1>5, <1>a, <2>2 DEF Stop, Onward
  <2> QED BY <1>5, <2>3, NotSending DEF Stop
<1>6. ASSUME kind # "tail", kind' = kind PROVE Onward
  BY <1>6 DEF Onward
<1>7. CASE SyncStart
  BY <1>6, <1>7, NotSending DEF SyncStart
<1>8. CASE SyncStop
  BY <1>6, <1>8, NotSending DEF SyncStop
<1>9. ASSUME NEW i \in Instances, Observe(i) PROVE MessagesOK'
  <2>2. ASSUME NEW j \in Instances
        PROVE  \/ inst'[j] = inst[j]
               \/ inst[j].pc = "registered" /\ inst'[j].pc = "loop" /\ inst'[j].off = written
    BY <1>9, <1>a DEF Observe, Observed, Inst
  <2>3. Onward
    <3>1. kind' = kind /\ written' = written
      BY <1>9 DEF Observe
    <3>2. ASSUME NEW j \in Instances
          PROVE  /\ inst[j].pc \in {"end", "done"} =>
                      inst'[j].pc \in {"end", "done"} /\ inst'[j].off = inst[j].off
                 /\ inst'[j].pc = "loop" =>
                      \/ inst[j].pc = "loop" /\ inst[j].off <= inst'[j].off
                      \/ inst'[j].off = written
      <4>1. inst[j].off \in Nat
        BY <1>a
      <4> QED BY <2>2, <4>1
    <3> QED BY <1>a, <3>1, <3>2 DEF Onward
  <2> QED BY <1>9, <2>3, NotSending DEF Observe
<1>10. ASSUME NEW i \in Instances, HandOver(i) PROVE MessagesOK'
  BY <1>10, TailSends
<1>11. ASSUME NEW i \in Instances, Close(i) PROVE MessagesOK'
  <2>2. ASSUME NEW j \in Instances PROVE inst'[j].off = inst[j].off /\ inst'[j].pc = inst[j].pc
    BY <1>11, <1>a DEF Close, Inst
  <2>3. Onward
    BY <1>11, <1>a, <2>2 DEF Close, Onward
  <2> QED BY <1>11, <2>3, NotSending DEF Close
<1>12. ASSUME NEW i \in Instances, PumpEnds(i) PROVE MessagesOK'
  BY <1>12, EndSends
<1>13. ASSUME NEW i \in Instances, DropKey(i) PROVE MessagesOK'
  <2>2. ASSUME NEW j \in Instances
        PROVE  inst'[j].off = inst[j].off
               /\ (inst'[j].pc = inst[j].pc
                   \/ (inst[j].pc = "end" /\ inst'[j].pc = "done"))
    <3>1. CASE j = i
      BY <1>13, <1>a, <3>1 DEF DropKey, Inst
    <3>2. CASE j # i
      <4>1. inst'[j] = inst[j]
        BY <1>13, <1>a, <3>2 DEF DropKey
      <4>2. inst'[j].off = inst[j].off /\ inst'[j].pc = inst[j].pc
        BY <4>1, Zenon
      <4> QED BY <4>2, Zenon
    <3> QED BY <3>1, <3>2
  <2>3. Onward
    BY <1>13, <1>a, <2>2 DEF DropKey, Onward
  <2> QED BY <1>13, <2>3, NotSending DEF DropKey
<1>14. ASSUME NEW i \in Instances, Flush(i) PROVE MessagesOK'
  BY <1>6, <1>14, NotSending DEF Flush
<1>15. ASSUME NEW i \in Instances, Narrated(i) PROVE MessagesOK'
  BY <1>6, <1>15, Uttering DEF Narrated
<1>16. ASSUME NEW i \in Instances, NarrationEnds(i) PROVE MessagesOK'
  BY <1>6, <1>16, NotSending DEF NarrationEnds
<1>17. ASSUME NEW i \in Instances, AmbientBegins(i) PROVE MessagesOK'
  BY <1>6, <1>17, NotSending DEF AmbientBegins
<1>18. ASSUME NEW i \in Instances, Distil(i) PROVE MessagesOK'
  BY <1>6, <1>18, NotSending DEF Distil
<1>19. ASSUME NEW i \in Instances, Spoken(i) PROVE MessagesOK'
  BY <1>6, <1>19, Uttering DEF Spoken
<1>20. ASSUME NEW i \in Instances, AmbientEnds(i) PROVE MessagesOK'
  BY <1>6, <1>20, NotSending DEF AmbientEnds
<1>21. CASE UNCHANGED vars
  <2>1. Onward
    BY <1>21, <1>a DEF vars, Onward
  <2> QED BY <1>21, <2>1, NotSending DEF vars
<1> QED
  BY <1>1, <1>2, <1>3, <1>4, <1>5, <1>7, <1>8, <1>9, <1>10, <1>11, <1>12, <1>13, <1>14,
     <1>15, <1>16, <1>17, <1>18, <1>19, <1>20, <1>21 DEF Next, Consume

\* A client sees the lines of a tail in order and at most once, and none of a
\* tail that it has been told has ended, for any transcript, any buffer and any
\* number of tails begun one after the other (pump, handleWatch, Broadcast).
THEOREM TailEndsLast == Spec => []EndIsLast
<1>1. MessagesOK => EndIsLast
  <2> SUFFICES ASSUME MessagesOK, NEW m \in DOMAIN got, NEW n \in DOMAIN got, m < n
               PROVE  Rel(got[m], got[n])
    BY DEF EndIsLast, Rel
  <2>1. <<got[m], got[n]>> \in Related
    BY DEF MessagesOK, Chained
  <2> QED BY <2>1 DEF Related
<1>2. IInv /\ IInv' /\ InOrder /\ MessagesOK /\ [Next]_vars => InOrder' /\ MessagesOK'
  BY OrderStep, MessageStep
<1> QED
  BY <1>1, <1>2, EndInit, Invariant, PTL DEF Spec
=============================================================================
