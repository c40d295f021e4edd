--------------------------- MODULE ScheduleProofs ---------------------------
(***************************************************************************)
(* The safety of the scratchpad scheduler, for any number of rows, any     *)
(* works and any number of failed calls and restarts.                      *)
(***************************************************************************)
EXTENDS Schedule, TLAPS

\* What the tick still has to do is as it was listed, except that the user may
\* have closed some of it; the row between the two tables is closed, due, not
\* the user's and not yet in the cue.
TickInv ==
  /\ \A i \in due : pad[i] # "none" /\ runAt[i] = "due"
  /\ ended \subseteq Closed
  /\ moving # None => /\ pad[moving] = "completed"
                      /\ runAt[moving] = "due"
                      /\ moving \notin byUser
                      /\ cue[moving] = "none"

\* A row is for some work, and as long as it is not closed it has no history.
RowInv ==
  \A i \in Ids :
    /\ pad[i] # "none" => work[i] \in Works
    /\ i \notin Closed => cue[i] = "none" /\ i \notin byUser

IInv == TypeOK /\ TickInv /\ RowInv /\ OneLife /\ NothingVanishes /\ NoTwins

\* The actions that are about one row.
Actions ==
  \E i \in Ids :
    \/ \E w \in Works, repeats \in BOOLEAN, when \in {"never", "later"} :
         AddTask(i, w, repeats, when)
    \/ \E end \in {"completed", "failed"} : CloseTask(i, end)
    \/ Promote(i) \/ Rearm(i) \/ OutOfIds(i)
    \/ PromoteFails(i) \/ RearmFails(i)
    \/ TimePasses(i) \/ CueEnds(i)

\* Every step is one of these.
LEMMA Cases ==
  Next <=> Actions \/ StartTick \/ Enqueue \/ EndTick \/ EnqueueFails \/ Restart
  BY DEF Next, User, Tick, Failures, World, Actions

\* The tables are empty to begin with.
LEMMA InitInv == Init => IInv
  <1> SUFFICES ASSUME Init PROVE IInv
    OBVIOUS
  <1>1. TypeOK
    BY ScheduleAssumption DEF Init, TypeOK
  <1>2. Closed = {} /\ Pending = {}
    BY DEF Init, Closed, Pending
  <1> QED
    BY <1>1, <1>2 DEF Init, IInv, TickInv, RowInv, OneLife, NothingVanishes, NoTwins

\* Inserting a row into the scratchpad, by the user or by a re-arm.
LEMMA InsertStep ==
  ASSUME IInv, NEW i \in Fresh, NEW w \in Works, NEW repeats \in BOOLEAN,
         NEW when \in {"never", "later"}, ~ PadHas(w), Insert(i, w, repeats, when),
         due' = due, moving' = moving, cue' = cue, ghost' = ghost,
         pc' \in {"wait", "scan"}, ended' \subseteq ended, faults' \in 0 .. MaxFaults
  PROVE  IInv'
  <1> USE DEF Fresh, ghost
  <1> i \in Ids /\ pad[i] = "none"
    OBVIOUS
  <1>1. TypeOK'
    BY DEF IInv, TypeOK, Insert
  <1>2. /\ Closed' = Closed
        /\ Pending' = Pending \cup {i}
        /\ i \notin Closed \cup Pending
    BY <1>1 DEF IInv, TypeOK, Insert, Closed, Pending
  <1>3. TickInv'
    BY <1>2 DEF IInv, TypeOK, TickInv, Insert
  <1>4. RowInv'
    BY <1>2 DEF IInv, TypeOK, RowInv, Insert
  <1>5. OneLife'
    BY <1>2 DEF IInv, TypeOK, RowInv, OneLife, Insert
  <1>6. NothingVanishes'
    BY <1>2 DEF IInv, NothingVanishes
  <1>7. NoTwins'
    <2>1. cue[i] # "live"
      BY <1>2 DEF IInv, RowInv
    <2>2. \A j \in Pending : work[j] # w
      BY DEF PadHas
    <2>3. \A j \in Ids : work'[j] = IF j = i THEN w ELSE work[j]
      BY DEF IInv, TypeOK, Insert
    <2> QED
      BY <1>2, <2>1, <2>2, <2>3 DEF IInv, NoTwins
  <1> QED
    BY <1>1, <1>3, <1>4, <1>5, <1>6, <1>7 DEF IInv

\* Actions that leave the rows, the cue and their history alone.
LEMMA IdleStep ==
  ASSUME IInv, UNCHANGED <<rows, cue, moving, ghost>>, due' \subseteq due,
         pc' \in {"wait", "scan"}, ended' \subseteq ended, faults' \in 0 .. MaxFaults
  PROVE  IInv'
  <1> USE DEF rows, ghost
  <1>1. Closed' = Closed /\ Pending' = Pending
    BY DEF Closed, Pending
  <1>2. TypeOK'
    BY DEF IInv, TypeOK
  <1>3. TickInv' /\ RowInv'
    BY <1>1 DEF IInv, TickInv, RowInv
  <1>4. OneLife' /\ NothingVanishes' /\ NoTwins'
    BY <1>1 DEF IInv, OneLife, NothingVanishes, NoTwins
  <1> QED
    BY <1>2, <1>3, <1>4 DEF IInv

\* Closing a pending row, by the user, by a promotion or by half of one.
LEMMA CloseStep ==
  ASSUME IInv, NEW i \in Pending, NEW end \in {"completed", "failed"},
         pad' = [pad EXCEPT ![i] = end],
         UNCHANGED <<work, cron, runAt, cue, pc, ended, skipped>>,
         due' \subseteq due, faults' \in 0 .. MaxFaults,
         \/ byUser' = byUser \cup {i} /\ UNCHANGED <<moving, lost>>
         \/ lost' = lost \cup {i} /\ UNCHANGED <<moving, byUser>>
         \/ /\ end = "completed" /\ runAt[i] = "due" /\ moving = None
            /\ moving' = i /\ UNCHANGED <<byUser, lost>>
  PROVE  IInv'
  <1> i \in Ids /\ pad[i] = "pending"
    BY DEF Pending
  <1>1. TypeOK'
    BY DEF IInv, TypeOK
  <1>2. /\ Closed' = Closed \cup {i}
        /\ Pending' = Pending \ {i}
        /\ i \notin Closed
    BY DEF IInv, TypeOK, Closed, Pending
  <1>3. cue[i] = "none" /\ i \notin byUser
    BY <1>2 DEF IInv, RowInv
  <1>4. moving # i
    BY ScheduleAssumption DEF IInv, TickInv
  <1>5. TickInv'
    BY <1>2, <1>3, <1>4 DEF IInv, TypeOK, TickInv
  <1>6. RowInv'
    BY <1>2 DEF IInv, TypeOK, RowInv
  <1>7. OneLife'
    BY <1>3 DEF IInv, TypeOK, OneLife
  <1>8. NothingVanishes'
    <2>1. moving # None => moving' = moving
      OBVIOUS
    <2> SUFFICES ASSUME NEW j \in (Closed \cup {i}) \ byUser'
                 PROVE  \/ cue[j] # "none" \/ moving' = j
                        \/ j \in lost' \cup skipped
      BY <1>2 DEF NothingVanishes
    <2>2. j \in Ids /\ j # None
      BY ScheduleAssumption DEF Closed
    <2>3. CASE j = i
      BY <2>3
    <2>4. CASE j \in Closed
      BY <2>1, <2>2, <2>4 DEF IInv, NothingVanishes
    <2> QED
      BY <2>3, <2>4
  <1>9. NoTwins'
    BY <1>2 DEF IInv, NoTwins
  <1> QED
    BY <1>1, <1>5, <1>6, <1>7, <1>8, <1>9 DEF IInv

\* The row between the tables arrives, or it does not.
LEMMA ArriveStep ==
  ASSUME IInv, moving # None, moving' = None, UNCHANGED <<rows, byUser>>,
         due' \subseteq due, ended' \subseteq ended, pc' \in {"wait", "scan"},
         faults' \in 0 .. MaxFaults,
         \/ /\ UNCHANGED cue
            /\ \/ skipped' = skipped \cup {moving} /\ lost' = lost
               \/ lost' = lost \cup {moving} /\ skipped' = skipped
         \/ /\ ~ CueHas(work[moving])
            /\ cue' = [cue EXCEPT ![moving] = "live"]
            /\ \/ UNCHANGED <<lost, skipped>>
               \/ lost' = lost \cup {moving} /\ skipped' = skipped
  PROVE  IInv'
  <1> USE DEF rows
  <1> moving \in Ids
    BY DEF IInv, TypeOK
  <1>1. TypeOK'
    BY DEF IInv, TypeOK
  <1>2. Closed' = Closed /\ Pending' = Pending /\ moving \in Closed
    BY DEF IInv, TickInv, Closed, Pending
  <1>3. TickInv'
    BY <1>2 DEF IInv, TickInv
  <1>4. \A j \in Ids : cue'[j] = cue[j] \/ (j = moving /\ cue'[j] = "live")
    BY DEF IInv, TypeOK
  <1>5. RowInv'
    BY <1>2, <1>4 DEF IInv, RowInv
  <1>6. OneLife'
    BY <1>4 DEF IInv, TickInv, OneLife
  <1>7. NothingVanishes'
    <2>1. \/ moving \in lost' \cup skipped'
          \/ cue'[moving] = "live"
      BY DEF IInv, TypeOK
    <2>2. lost \subseteq lost' /\ skipped \subseteq skipped'
      OBVIOUS
    <2>3. \A j \in Ids : cue[j] # "none" => cue'[j] # "none"
      BY <1>4
    <2> SUFFICES ASSUME NEW j \in Closed \ byUser
                 PROVE  cue'[j] # "none" \/ j \in lost' \cup skipped'
      BY <1>2 DEF NothingVanishes
    <2> j \in Ids
      BY DEF Closed
    <2>4. CASE j = moving
      BY <2>1, <2>4
    <2>5. CASE j # moving
      BY <2>2, <2>3, <2>5 DEF IInv, NothingVanishes
    <2> QED
      BY <2>4, <2>5
  <1>8. NoTwins'
    <2>1. CASE UNCHANGED cue
      BY <1>2, <2>1 DEF IInv, NoTwins
    <2>2. CASE ~ CueHas(work[moving])
      <3>1. \A j \in Ids : cue[j] = "live" => work[j] # work[moving]
        BY <2>2 DEF CueHas
      <3> QED
        BY <1>2, <1>4, <3>1 DEF IInv, NoTwins
    <2> QED
      BY <2>1, <2>2
  <1> QED
    BY <1>1, <1>3, <1>5, <1>6, <1>7, <1>8 DEF IInv

\* No action breaks the invariant.
LEMMA StepInv == IInv /\ [Next]_vars => IInv'
  <1> SUFFICES ASSUME IInv, [Next]_vars PROVE IInv'
    OBVIOUS
  <1> USE DEF tick
  <1>0. /\ pc \in {"wait", "scan"} /\ ended \subseteq Ids /\ due \subseteq Ids
        /\ faults \in 0 .. MaxFaults /\ MaxFaults \in Nat
    BY ScheduleAssumption DEF IInv, TypeOK
  <1>1. ASSUME Fault PROVE faults' \in 0 .. MaxFaults
    BY <1>0, <1>1 DEF Fault
  <1>2. ASSUME NEW i \in Ids, NEW w \in Works, NEW repeats \in BOOLEAN,
               NEW when \in {"never", "later"}, AddTask(i, w, repeats, when)
        PROVE  IInv'
    BY <1>0, <1>2, InsertStep DEF AddTask
  <1>3. ASSUME NEW i \in Ids, NEW end \in {"completed", "failed"},
               CloseTask(i, end)
        PROVE  IInv'
    BY <1>0, <1>3, CloseStep DEF CloseTask
  <1>4. ASSUME StartTick PROVE IInv'
    <2> USE DEF StartTick, rows, ghost
    <2>1. TypeOK'
      BY <1>4 DEF IInv, TypeOK, Pending, Closed
    <2>2. Closed' = Closed /\ Pending' = Pending
      BY <1>4 DEF Closed, Pending
    <2>3. TickInv'
      BY <1>4, <2>2 DEF IInv, TickInv, Pending
    <2>4. RowInv' /\ OneLife' /\ NothingVanishes' /\ NoTwins'
      BY <1>4, <2>2 DEF IInv, RowInv, OneLife, NothingVanishes, NoTwins
    <2> QED
      BY <2>1, <2>3, <2>4 DEF IInv
  <1>5. ASSUME NEW i \in Ids, Promote(i) PROVE IInv'
    <2>1. CASE i \in Pending
      <3>1. runAt[i] = "due"
        BY <1>5 DEF Promote, IInv, TickInv
      <3> QED
        BY <1>0, <1>5, <2>1, <3>1, CloseStep DEF Promote, ghost
    <2>2. CASE i \notin Pending
      BY <1>0, <1>5, <2>2, IdleStep DEF Promote, rows, ghost
    <2> QED
      BY <2>1, <2>2
  <1>6. ASSUME NEW i \in Ids, PromoteFails(i) PROVE IInv'
    <2>1. CASE UNCHANGED <<pad, lost>>
      BY <1>0, <1>1, <1>6, <2>1, IdleStep DEF PromoteFails, rows, ghost
    <2>2. CASE i \in Pending /\ pad' = [pad EXCEPT ![i] = "completed"]
               /\ lost' = lost \cup {i}
      BY <1>0, <1>1, <1>6, <2>2, CloseStep DEF PromoteFails
    <2> QED
      BY <1>6, <2>1, <2>2 DEF PromoteFails
  <1>7. ASSUME Enqueue PROVE IInv'
    BY <1>0, <1>7, ArriveStep DEF Enqueue
  <1>8. ASSUME EnqueueFails PROVE IInv'
    BY <1>0, <1>1, <1>8, ArriveStep DEF EnqueueFails
  <1>9. ASSUME NEW i \in Ids, Rearm(i) PROVE IInv'
    <2>1. CASE UNCHANGED rows
      BY <1>0, <1>9, <2>1, IdleStep DEF Rearm
    <2>2. CASE ~ PadHas(work[i])
               /\ \E new \in Fresh : Insert(new, work[i], TRUE, "later")
      <3>1. work[i] \in Works
        BY <1>9 DEF Rearm, IInv, TickInv, RowInv, Closed
      <3> QED
        BY <1>0, <1>9, <2>2, <3>1, InsertStep DEF Rearm
    <2> QED
      BY <1>9, <2>1, <2>2 DEF Rearm
  <1>10. ASSUME NEW i \in Ids, RearmFails(i) \/ OutOfIds(i) PROVE IInv'
    BY <1>0, <1>1, <1>10, IdleStep DEF RearmFails, OutOfIds
  <1>11. ASSUME EndTick PROVE IInv'
    BY <1>0, <1>11, IdleStep DEF EndTick
  <1>12. ASSUME NEW i \in Ids, TimePasses(i) PROVE IInv'
    <2> USE DEF TimePasses, ghost
    <2>1. TypeOK'
      BY <1>12 DEF IInv, TypeOK
    <2>2. Closed' = Closed /\ Pending' = Pending
      BY <1>12 DEF Closed, Pending
    <2>3. \A j \in Ids : runAt[j] = "due" => runAt'[j] = "due"
      BY <1>12 DEF IInv, TypeOK
    <2>4. TickInv'
      BY <1>12, <2>2, <2>3 DEF IInv, TypeOK, TickInv
    <2>5. RowInv' /\ OneLife' /\ NothingVanishes' /\ NoTwins'
      BY <1>12, <2>2, <2>3 DEF IInv, RowInv, OneLife, NothingVanishes, NoTwins
    <2> QED
      BY <2>1, <2>4, <2>5 DEF IInv
  <1>13. ASSUME NEW i \in Ids, CueEnds(i) PROVE IInv'
    <2> USE DEF CueEnds, rows, ghost
    <2>1. TypeOK'
      BY <1>13 DEF IInv, TypeOK
    <2>2. Closed' = Closed /\ Pending' = Pending
      BY <1>13 DEF Closed, Pending
    <2>3. \A j \in Ids : /\ cue'[j] = "none" <=> cue[j] = "none"
                         /\ cue'[j] = "live" => cue[j] = "live"
      BY <1>13 DEF IInv, TypeOK
    <2>4. TickInv'
      BY <1>13, <2>2, <2>3, ScheduleAssumption DEF IInv, TypeOK, TickInv
    <2>5. RowInv' /\ OneLife' /\ NoTwins'
      BY <1>13, <2>2, <2>3 DEF IInv, RowInv, OneLife, NoTwins
    <2>6. NothingVanishes'
      BY <1>13, <2>2, <2>3 DEF IInv, NothingVanishes, Closed
    <2> QED
      BY <2>1, <2>4, <2>5, <2>6 DEF IInv
  <1>14. ASSUME Restart PROVE IInv'
    <2> USE DEF Restart, rows
    <2>1. TypeOK'
      BY <1>1, <1>14 DEF IInv, TypeOK
    <2>2. Closed' = Closed /\ Pending' = Pending
      BY <1>14 DEF Closed, Pending
    <2>3. TickInv'
      BY <1>14 DEF IInv, TickInv
    <2>4. RowInv' /\ OneLife' /\ NoTwins'
      BY <1>14, <2>2 DEF IInv, RowInv, OneLife, NoTwins
    <2>5. NothingVanishes'
      BY <1>14, <2>2, ScheduleAssumption DEF IInv, NothingVanishes, Closed
    <2> QED
      BY <2>1, <2>3, <2>4, <2>5 DEF IInv
  <1>15. ASSUME UNCHANGED vars PROVE IInv'
    BY <1>0, <1>15, IdleStep DEF vars
  <1> QED
    BY <1>2, <1>3, <1>4, <1>5, <1>6, <1>7, <1>8, <1>9, <1>10, <1>11, <1>12,
       <1>13, <1>14, <1>15, Cases DEF Actions

\* The invariant behind the theorems below: the tick works on rows as they are.
THEOREM Invariance == Spec => []IInv
  BY InitInv, StepInv, PTL DEF Spec

\* Every variable of the scheduler keeps its type.
THEOREM TypeCorrect == Spec => []TypeOK
  <1>1. IInv => TypeOK
    BY DEF IInv
  <1> QED
    BY <1>1, Invariance, PTL

\* A row is never in the cue and still the user's: promotion from a stale list
\* does not touch what the user has closed.
THEOREM RowsLiveOnce == Spec => []OneLife
  <1>1. IInv => OneLife
    BY DEF IInv
  <1> QED
    BY <1>1, Invariance, PTL

\* A row the scheduler closed is accounted for: in the cue, on its way, turned
\* away as a duplicate, or lost to a failed call or a crash.
THEOREM RowsAccountedFor == Spec => []NothingVanishes
  <1>1. IInv => NothingVanishes
    BY DEF IInv
  <1> QED
    BY <1>1, Invariance, PTL

\* No work is live twice in the scratchpad, nor in the cue.
THEOREM WorkLiveOnce == Spec => []NoTwins
  <1>1. IInv => NoTwins
    BY DEF IInv
  <1> QED
    BY <1>1, Invariance, PTL
=============================================================================
