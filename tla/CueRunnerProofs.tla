-------------------------- MODULE CueRunnerProofs --------------------------
(***************************************************************************)
(* The safety of the release loop, for any set of tasks, any caps and any  *)
(* number of faults, and the proof that it implements the ledger.          *)
(***************************************************************************)
EXTENDS CueRunner, FiniteSetTheorems, TLAPS

Done == InStatus({"done"})

\* Where the tick stands decides what the runner's local variables hold.
PhaseInv ==
  /\ pc = "reconcile" => todo \subseteq Inflight
  /\ pc \in {"inflight", "statuses", "gate"} => todo \subseteq Pending
  /\ pc = "gate" => doneIds \subseteq Done
  /\ released # {} => pc \in {"gate", "dispatch"}
  /\ released \subseteq Pending
  /\ posting # None => /\ pc = "dispatch"
                       /\ posting \in released
                       /\ session \in Sessions

\* The gate's counters cover what is in flight and what it has released, and
\* they are within the caps: this is what lets it count from a snapshot.
CountInv ==
  /\ pc \in {"statuses", "gate", "dispatch"} =>
       /\ Inflight \cup released \subseteq counted
       /\ WithinCaps(counted)
  /\ WithinCaps(Inflight)

\* Whatever the gate released, a source accepted or the table recorded had its
\* dependencies done.
DepsInv ==
  \A t \in Tasks :
    \/ t \in released
    \/ delivered[t] > 0
    => Deps[t] \subseteq Done

\* A row past pending has a session; it is latched only if a snapshot showed
\* that session busy.
RowInv ==
  /\ \A t \in Tasks : status[t] \notin {"none", "pending"} => run[t] \in Sessions
  /\ seen \subseteq worked
  /\ pc = "reconcile" =>
       \A t \in todo : fleet[run[t]] \in Busy => t \in worked

\* A source has taken the task and its session is not yet recorded.
Underway == IF posting = None THEN 0 ELSE 1

\* The window holds at most MaxPerHour dispatches, the one under way included,
\* and each restart can have made the process forget as many: beyond these, only
\* the deliveries of failed calls are less than an hour old.
HourInv ==
  MaxPerHour > 0 =>
    /\ recent + Underway <= MaxPerHour
    /\ lastHour <= MaxPerHour * restarts + recent + Underway + escaped

IInv ==
  /\ TypeOK
  /\ PhaseInv
  /\ CountInv
  /\ DepsInv
  /\ RowInv
  /\ HourInv
  /\ DeliveredOnce
  /\ DoneWasWorked
  /\ OneLivePerKey
-----------------------------------------------------------------------------
(***************************************************************************)
(* Types.                                                                  *)
(***************************************************************************)
LEMMA TypeInit == Init => TypeOK
  BY RunnerAssumption, TasksAssumption, FleetAssumption DEF Init, TypeOK, NoFleet

LEMMA TypeStep == TypeOK /\ [Next]_vars => TypeOK'
  <1> SUFFICES ASSUME TypeOK, [Next]_vars PROVE TypeOK'
    OBVIOUS
  <1> USE RunnerAssumption, TasksAssumption DEF TypeOK, table, pass, hour, ghost
  <1>1. ASSUME NEW t \in Tasks, EnqueueTask(t) PROVE TypeOK'
    BY <1>1 DEF EnqueueTask
  <1>2. CASE StartTick
    BY <1>2 DEF StartTick, Snapshots, Inflight, InStatus, Fault
  <1>3. ASSUME NEW t \in Tasks, ReconcileRow(t) PROVE TypeOK'
    <2>1. Outcome(t) \in {"failed", "busy", "done", "inflight"}
      BY DEF Outcome, Busy
    <2>2. QED
      BY <1>3, <2>1 DEF ReconcileRow
  <1>4. CASE ReadPending \/ ReadInflight \/ ReadStatuses \/ GateEnds
    BY <1>4 DEF ReadPending, ReadInflight, ReadStatuses, GateEnds, Pending,
                Inflight, InStatus, NoFleet
  <1>5. CASE NothingPending \/ ReadFails \/ DispatchEnds
    BY <1>5 DEF NothingPending, ReadFails, DispatchEnds, EndTick, NoFleet, Fault
  <1>6. ASSUME NEW t \in Tasks, Gate(t) PROVE TypeOK'
    BY <1>6 DEF Gate
  <1>7. ASSUME NEW t \in Tasks, Dispatch(t) PROVE TypeOK'
    BY <1>7 DEF Dispatch, Accepts, RunSessions
  <1>8. ASSUME NEW t \in Tasks, DispatchFails(t) PROVE TypeOK'
    BY <1>8 DEF DispatchFails, Accepts, RunSessions, Fault
  <1>9. ASSUME NEW t \in Tasks, DispatchDry(t) \/ ReconcileRowFails(t)
        PROVE TypeOK'
    BY <1>9 DEF DispatchDry, ReconcileRowFails, Fault
  <1>10. CASE MarkInflight
    BY <1>10 DEF MarkInflight, Remember
  <1>11. CASE MarkInflightFails
    BY <1>11 DEF MarkInflightFails, Remember, Fault
  <1>12. ASSUME NEW t \in Tasks, TTLPasses(t) PROVE TypeOK'
    BY <1>12 DEF TTLPasses
  <1>13. CASE HourPasses
    BY <1>13 DEF HourPasses
  <1>14. CASE Restart
    BY <1>14 DEF Restart, EndTick, NoFleet
  <1>15. CASE UNCHANGED vars
    BY <1>15 DEF vars
  <1> QED
    BY <1>1, <1>2, <1>3, <1>4, <1>5, <1>6, <1>7, <1>8, <1>9, <1>10, <1>11,
       <1>12, <1>13, <1>14, <1>15 DEF Next, Runner, Failures, Time
-----------------------------------------------------------------------------
(***************************************************************************)
(* Counting against the caps.                                              *)
(***************************************************************************)
\* Fewer tasks count for no more.
LEMMA CountMonotone ==
  ASSUME NEW S, NEW T \in SUBSET Tasks, S \subseteq T, NEW k
  PROVE  CountOn(S, k) <= CountOn(T, k) /\ CountOn(T, k) \in Nat
  <1> DEFINE A == {u \in S : Target[u] = k}
             B == {u \in T : Target[u] = k}
  <1>1. IsFiniteSet(B)
    BY FS_Subset, TasksAssumption
  <1>2. A \in SUBSET B
    OBVIOUS
  <1>3. Cardinality(A) <= Cardinality(B)
    BY <1>1, <1>2, FS_Subset
  <1>4. Cardinality(B) \in Nat
    BY <1>1, FS_CardinalityType
  <1> QED
    BY <1>3, <1>4 DEF CountOn

\* One more task counts for one more at its own target and for none elsewhere.
LEMMA CountAdded ==
  ASSUME NEW S \in SUBSET Tasks, NEW t \in Tasks, NEW k
  PROVE  /\ Target[t] = k => CountOn(S \cup {t}, k) <= CountOn(S, k) + 1
         /\ Target[t] # k => CountOn(S \cup {t}, k) = CountOn(S, k)
  <1> DEFINE A == {u \in S : Target[u] = k}
  <1>1. IsFiniteSet(A) /\ Cardinality(A) \in Nat
    BY FS_Subset, FS_CardinalityType, TasksAssumption
  <1>2. CASE Target[t] = k
    <2>1. {u \in S \cup {t} : Target[u] = k} = A \cup {t}
      BY <1>2
    <2>2. Cardinality(A \cup {t}) <= Cardinality(A) + 1
      BY <1>1, FS_AddElement
    <2> QED
      BY <1>2, <2>1, <2>2 DEF CountOn
  <1>3. CASE Target[t] # k
    <2>1. {u \in S \cup {t} : Target[u] = k} = A
      BY <1>3
    <2> QED
      BY <1>1, <1>3, <2>1 DEF CountOn
  <1> QED
    BY <1>2, <1>3

LEMMA CapsMonotone ==
  ASSUME NEW T \in SUBSET Tasks, NEW S \in SUBSET T, WithinCaps(T)
  PROVE  WithinCaps(S)
  <1>1. Cardinality(S) <= Cardinality(T) /\ Cardinality(T) \in Nat
        /\ Cardinality(S) \in Nat
    BY FS_Subset, FS_CardinalityType, TasksAssumption
  <1>2. \A k : /\ CountOn(S, k) <= CountOn(T, k)
               /\ CountOn(T, k) \in Nat /\ CountOn(S, k) \in Nat
    BY CountMonotone
  <1> QED
    BY <1>1, <1>2, CapsAssumption DEF WithinCaps

\* What the gate releases leaves the counters within the caps.
LEMMA GateWithinCaps ==
  ASSUME NEW S \in SUBSET Tasks, NEW t \in Tasks, WithinCaps(S),
         NEW done, NEW view, Releases(t, done, view, S)
  PROVE  WithinCaps(S \cup {t})
  <1>1. /\ Cardinality(S) \in Nat
        /\ Cardinality(S \cup {t}) <= Cardinality(S) + 1
        /\ Cardinality(S \cup {t}) \in Nat
    <2>1. IsFiniteSet(S)
      BY FS_Subset, TasksAssumption
    <2>2. Cardinality(S) \in Nat
      BY <2>1, FS_CardinalityType
    <2>3. Cardinality(S \cup {t}) =
            IF t \in S THEN Cardinality(S) ELSE Cardinality(S) + 1
      BY <2>1, FS_AddElement
    <2> QED
      BY <2>2, <2>3
  <1>2. ASSUME NEW k \in Sessions \cup {Spawn}
        PROVE  /\ CountOn(S, k) \in Nat
               /\ Target[t] = k => CountOn(S \cup {t}, k) <= CountOn(S, k) + 1
               /\ Target[t] # k => CountOn(S \cup {t}, k) = CountOn(S, k)
               /\ CountOn(S \cup {t}, k) \in Nat
    <2>1. CountOn(S, k) \in Nat
      BY CountMonotone
    <2>2. CountOn(S \cup {t}, k) \in Nat
      BY CountMonotone
    <2> QED
      BY <2>1, <2>2, CountAdded
  <1>3. Global > 0 => Cardinality(S \cup {t}) <= Global
    BY <1>1, CapsAssumption DEF Releases
  <1>4. ASSUME MaxSpawns > 0
        PROVE  CountOn(S \cup {t}, Spawn) <= MaxSpawns
    <2>1. CASE Target[t] = Spawn
      <3>1. CountOn(S, Spawn) < MaxSpawns
        BY <1>4, <2>1 DEF Releases, TargetTakes
      <3> QED
        BY <1>2, <2>1, <3>1, CapsAssumption
    <2>2. CASE Target[t] # Spawn
      BY <1>2, <1>4, <2>2 DEF WithinCaps
    <2> QED
      BY <2>1, <2>2
  <1>5. ASSUME NEW k \in Sessions
        PROVE  CountOn(S \cup {t}, k) <= PerSession
    <2>1. CountOn(S, k) <= PerSession
      BY DEF WithinCaps
    <2>2. CASE Target[t] = k
      <3>1. CountOn(S, k) < PerSession
        BY <2>2, TasksAssumption DEF Releases, TargetTakes
      <3> QED
        BY <1>2, <2>2, <3>1, CapsAssumption
    <2>3. CASE Target[t] # k
      BY <1>2, <2>1, <2>3, CapsAssumption
    <2> QED
      BY <2>2, <2>3
  <1> QED
    BY <1>3, <1>4, <1>5 DEF WithinCaps

LEMMA EmptyWithinCaps == WithinCaps({})
  <1>1. Cardinality({}) = 0
    BY FS_EmptySet
  <1>2. \A k : CountOn({}, k) = 0
    BY <1>1 DEF CountOn
  <1> QED
    BY <1>1, <1>2, CapsAssumption DEF WithinCaps
-----------------------------------------------------------------------------
(***************************************************************************)
(* The parts of the inductive invariant, one by one.                       *)
(***************************************************************************)
\* Only the three reads and the loops that consume them move a tick along.
LEMMA PhaseStep == TypeOK /\ PhaseInv /\ [Next]_vars => PhaseInv'
  <1> SUFFICES ASSUME TypeOK, PhaseInv, [Next]_vars PROVE PhaseInv'
    OBVIOUS
  <1> USE RunnerAssumption, TasksAssumption
      DEF TypeOK, PhaseInv, table, pass, hour, ghost, Inflight, Pending, Done,
          InStatus
  <1>1. ASSUME NEW t \in Tasks, EnqueueTask(t) PROVE PhaseInv'
    BY <1>1 DEF EnqueueTask
  <1>2. CASE StartTick
    BY <1>2 DEF StartTick
  <1>3. ASSUME NEW t \in Tasks, ReconcileRow(t) PROVE PhaseInv'
    BY <1>3 DEF ReconcileRow
  <1>4. CASE ReadPending \/ ReadInflight \/ ReadStatuses \/ GateEnds
    <2>1. CASE ReadPending
      BY <2>1 DEF ReadPending
    <2>2. CASE ReadInflight
      BY <2>2 DEF ReadInflight
    <2>3. CASE ReadStatuses
      BY <2>3 DEF ReadStatuses
    <2>4. CASE GateEnds
      BY <2>4 DEF GateEnds
    <2> QED
      BY <1>4, <2>1, <2>2, <2>3, <2>4
  <1>5. CASE NothingPending \/ ReadFails \/ DispatchEnds
    <2>1. pc' = "wait" /\ released' = {} /\ posting' = None
      BY <1>5 DEF NothingPending, ReadFails, DispatchEnds, EndTick
    <2> QED
      BY <2>1
  <1>6. ASSUME NEW t \in Tasks, Gate(t) PROVE PhaseInv'
    BY <1>6 DEF Gate, First
  <1>7. ASSUME NEW t \in Tasks, Dispatch(t) PROVE PhaseInv'
    BY <1>7 DEF Dispatch, Accepts, RunSessions, First
  <1>8. ASSUME NEW t \in Tasks, DispatchFails(t) PROVE PhaseInv'
    BY <1>8 DEF DispatchFails
  <1>9. ASSUME NEW t \in Tasks, DispatchDry(t) \/ ReconcileRowFails(t)
        PROVE PhaseInv'
    <2>1. CASE DispatchDry(t)
      BY <2>1 DEF DispatchDry
    <2>2. CASE ReconcileRowFails(t)
      BY <2>2 DEF ReconcileRowFails
    <2> QED
      BY <1>9, <2>1, <2>2
  <1>10. CASE MarkInflight
    BY <1>10 DEF MarkInflight, Remember
  <1>11. CASE MarkInflightFails
    BY <1>11 DEF MarkInflightFails, Remember
  <1>12. ASSUME NEW t \in Tasks, TTLPasses(t) PROVE PhaseInv'
    BY <1>12 DEF TTLPasses
  <1>13. CASE HourPasses
    BY <1>13 DEF HourPasses
  <1>14. CASE Restart
    BY <1>14 DEF Restart, EndTick
  <1>15. CASE UNCHANGED vars
    BY <1>15 DEF vars
  <1> QED
    BY <1>1, <1>2, <1>3, <1>4, <1>5, <1>6, <1>7, <1>8, <1>9, <1>10, <1>11,
       <1>12, <1>13, <1>14, <1>15 DEF Next, Runner, Failures, Time

\* The set of rows in flight grows only when a dispatch is recorded, and then
\* by a task the counters already include.
LEMMA CountStep ==
  TypeOK /\ PhaseInv /\ CountInv /\ [Next]_vars => CountInv'
  <1> SUFFICES ASSUME TypeOK, PhaseInv, CountInv, [Next]_vars
               PROVE  CountInv'
    OBVIOUS
  <1> USE RunnerAssumption DEF TypeOK, PhaseInv, table, pass, hour, ghost
  <1> DEFINE Shrinks == /\ Inflight' \subseteq Inflight
                        /\ released' \subseteq released
                        /\ \/ counted' = counted /\ pc' = pc
                           \/ pc' \in {"wait", "reconcile", "inflight"}
  <1>1. ASSUME Shrinks PROVE CountInv'
    <2>1. Inflight \in SUBSET Tasks
      BY DEF Inflight, InStatus
    <2>2. WithinCaps(Inflight')
      BY <1>1, <2>1, CapsMonotone DEF CountInv
    <2>3. CASE counted' = counted /\ pc' = pc
      <3>1. WithinCaps(counted') = WithinCaps(counted)
        BY <2>3
      <3> QED
        BY <1>1, <2>2, <2>3, <3>1 DEF CountInv, WithinCaps, CountOn
    <2>4. CASE pc' \in {"wait", "reconcile", "inflight"}
      BY <2>2, <2>4 DEF CountInv, WithinCaps, CountOn
    <2> QED
      BY <1>1, <2>3, <2>4
  <1>2. ASSUME NEW t \in Tasks, EnqueueTask(t) PROVE Shrinks
    BY <1>2 DEF EnqueueTask, Inflight, InStatus
  <1>3. ASSUME StartTick PROVE Shrinks
    BY <1>3 DEF StartTick, Inflight, InStatus
  <1>4. ASSUME NEW t \in Tasks, ReconcileRow(t) PROVE Shrinks
    BY <1>4 DEF ReconcileRow, Inflight, InStatus
  <1>5. ASSUME ReadPending PROVE Shrinks
    BY <1>5 DEF ReadPending, Inflight, InStatus
  <1>6. CASE ReadInflight
    <2>1. counted' = Inflight /\ Inflight' = Inflight /\ released' = {}
      BY <1>6 DEF ReadInflight, Inflight, InStatus
    <2> QED
      BY <2>1 DEF CountInv, WithinCaps, CountOn
  <1>7. CASE ReadStatuses \/ GateEnds
    <2>1. /\ counted' = counted /\ Inflight' = Inflight /\ released' = released
          /\ pc \in {"statuses", "gate"}
      BY <1>7 DEF ReadStatuses, GateEnds, Inflight, InStatus
    <2> QED
      BY <2>1 DEF CountInv, WithinCaps, CountOn
  <1>8. ASSUME NothingPending \/ ReadFails \/ DispatchEnds \/ Restart PROVE Shrinks
    BY <1>8 DEF NothingPending, ReadFails, DispatchEnds, Restart, EndTick,
                Inflight, InStatus
  <1>9. ASSUME NEW t \in Tasks, Gate(t) PROVE CountInv'
    <2>1. Inflight' = Inflight /\ pc = "gate" /\ pc' = "gate"
      BY <1>9 DEF Gate, Inflight, InStatus
    <2>2. CASE Releases(t, doneIds, fleet, counted)
      <3>1. /\ counted' = counted \cup {t}
            /\ released' = released \cup {t}
        BY <1>9, <2>2 DEF Gate
      <3>2. WithinCaps(counted \cup {t})
        BY <2>1, <2>2, GateWithinCaps DEF CountInv
      <3> QED
        BY <2>1, <3>1, <3>2 DEF CountInv, WithinCaps, CountOn
    <2>3. CASE ~ Releases(t, doneIds, fleet, counted)
      BY <1>9, <2>1, <2>3, <1>1 DEF Gate
    <2> QED
      BY <2>2, <2>3
  <1>10. ASSUME NEW t \in Tasks,
                \/ Dispatch(t) \/ DispatchFails(t) \/ DispatchDry(t)
                \/ ReconcileRowFails(t) \/ TTLPasses(t)
         PROVE  Shrinks
    BY <1>10 DEF Dispatch, DispatchFails, DispatchDry, ReconcileRowFails,
                 TTLPasses, Inflight, InStatus
  <1>11. CASE MarkInflight
    <2>1. /\ posting \in released /\ pc = "dispatch" /\ pc' = pc
          /\ counted' = counted /\ released' \subseteq released
          /\ Inflight' \subseteq Inflight \cup {posting}
      BY <1>11 DEF MarkInflight, Remember, Inflight, InStatus
    <2>2. Inflight' \cup released' \in SUBSET counted
      BY <2>1 DEF CountInv
    <2>3. WithinCaps(Inflight')
      BY <2>1, <2>2, CapsMonotone DEF CountInv
    <2> QED
      BY <2>1, <2>2, <2>3 DEF CountInv, WithinCaps, CountOn
  <1>12. ASSUME MarkInflightFails PROVE Shrinks
    BY <1>12 DEF MarkInflightFails, Remember, Inflight, InStatus
  <1>13. ASSUME HourPasses PROVE Shrinks
    BY <1>13 DEF HourPasses, Inflight, InStatus
  <1>14. ASSUME UNCHANGED vars PROVE Shrinks
    BY <1>14 DEF vars, Inflight, InStatus
  <1> QED
    BY <1>1, <1>2, <1>3, <1>4, <1>5, <1>6, <1>7, <1>8, <1>9, <1>10, <1>11,
       <1>12, <1>13, <1>14 DEF Next, Runner, Failures, Time

\* Dependencies are checked once, by the gate, against a set of done tasks
\* that can only grow afterwards.
LEMMA DepsStep ==
  TypeOK /\ PhaseInv /\ DepsInv /\ [Next]_vars => DepsInv'
  <1> SUFFICES ASSUME TypeOK, PhaseInv, DepsInv, [Next]_vars
               PROVE  DepsInv'
    OBVIOUS
  <1> USE RunnerAssumption DEF TypeOK, table, pass, hour, ghost
  <1> DEFINE Kept == /\ Done \subseteq Done'
                     /\ released' \subseteq released
                     /\ \A u \in Tasks :
                          delivered'[u] > 0 => delivered[u] > 0 \/ u \in released
  <1>1. ASSUME Kept PROVE DepsInv'
    BY <1>1 DEF DepsInv
  <1>2. ASSUME NEW t \in Tasks, EnqueueTask(t) PROVE Kept
    BY <1>2 DEF EnqueueTask, Done, InStatus
  <1>3. ASSUME NEW t \in Tasks, ReconcileRow(t) PROVE Kept
    <2>1. status[t] = "inflight" /\ released' = released /\ delivered' = delivered
      BY <1>3 DEF ReconcileRow, PhaseInv, Inflight, InStatus
    <2> QED
      BY <1>3, <2>1 DEF ReconcileRow, Done, InStatus
  <1>4. ASSUME \/ StartTick \/ ReadPending \/ ReadInflight \/ ReadStatuses
               \/ GateEnds \/ HourPasses
        PROVE  Kept
    BY <1>4 DEF StartTick, ReadPending, ReadInflight, ReadStatuses, GateEnds,
                HourPasses, Done, InStatus
  <1>5. ASSUME NothingPending \/ ReadFails \/ DispatchEnds \/ Restart PROVE Kept
    BY <1>5 DEF NothingPending, ReadFails, DispatchEnds, Restart, EndTick, Done,
                InStatus
  <1>6. ASSUME NEW t \in Tasks, Gate(t) PROVE DepsInv'
    <2>1. pc = "gate" /\ Done' = Done /\ delivered' = delivered
      BY <1>6 DEF Gate, Done, InStatus
    <2>2. CASE Releases(t, doneIds, fleet, counted)
      <3>1. released' = released \cup {t}
        BY <1>6, <2>2 DEF Gate
      <3>2. Deps[t] \subseteq Done
        BY <2>1, <2>2 DEF Releases, DepsDone, PhaseInv
      <3> QED
        BY <2>1, <3>1, <3>2 DEF DepsInv
    <2>3. CASE ~ Releases(t, doneIds, fleet, counted)
      BY <1>6, <2>1, <2>3 DEF Gate, DepsInv
    <2> QED
      BY <2>2, <2>3
  <1>7. ASSUME NEW t \in Tasks, Dispatch(t) \/ DispatchFails(t) PROVE Kept
    <2>1. t \in released /\ released' \subseteq released /\ Done' = Done
      BY <1>7 DEF Dispatch, DispatchFails, First, Done, InStatus
    <2>2. delivered' = delivered \/ delivered' = [delivered EXCEPT ![t] = @ + 1]
      BY <1>7 DEF Dispatch, DispatchFails, Accepts
    <2> QED
      BY <2>1, <2>2
  <1>8. ASSUME NEW t \in Tasks,
               DispatchDry(t) \/ ReconcileRowFails(t) \/ TTLPasses(t)
        PROVE  Kept
    BY <1>8 DEF DispatchDry, ReconcileRowFails, TTLPasses, Done, InStatus
  <1>9. ASSUME MarkInflight \/ MarkInflightFails PROVE Kept
    BY <1>9 DEF MarkInflight, MarkInflightFails, Remember, Done, InStatus
  <1>10. ASSUME UNCHANGED vars PROVE Kept
    BY <1>10 DEF vars, Done, InStatus
  <1> QED
    BY <1>1, <1>2, <1>3, <1>4, <1>5, <1>6, <1>7, <1>8, <1>9, <1>10
       DEF Next, Runner, Failures, Time

\* A row is latched, and so closed as done, only on the evidence of a snapshot
\* taken after its dispatch was recorded.
LEMMA RowStep ==
  TypeOK /\ PhaseInv /\ RowInv /\ DoneWasWorked /\ [Next]_vars
    => RowInv' /\ DoneWasWorked'
  <1> SUFFICES ASSUME TypeOK, PhaseInv, RowInv, DoneWasWorked, [Next]_vars
               PROVE  RowInv' /\ DoneWasWorked'
    OBVIOUS
  <1> USE RunnerAssumption DEF TypeOK, RowInv, DoneWasWorked, table, pass, hour,
                               ghost
  <1>1. ASSUME NEW t \in Tasks, EnqueueTask(t) PROVE RowInv' /\ DoneWasWorked'
    BY <1>1 DEF EnqueueTask, PhaseInv, Inflight, InStatus
  <1>2. CASE StartTick
    <2>1. /\ todo' \subseteq Inflight
          /\ worked' = worked \cup {t \in Inflight : fleet'[run[t]] \in Busy}
          /\ status' = status /\ run' = run /\ seen' = seen /\ late' = late
      BY <1>2 DEF StartTick
    <2> QED
      BY <2>1
  <1>3. ASSUME NEW t \in Tasks, ReconcileRow(t) PROVE RowInv' /\ DoneWasWorked'
    <2>1. t \in todo /\ status[t] = "inflight"
      BY <1>3 DEF ReconcileRow, PhaseInv, Inflight, InStatus
    <2>2. Outcome(t) = "busy" => t \in worked
      BY <1>3, <2>1 DEF ReconcileRow, Outcome, Busy
    <2>3. Outcome(t) = "done" => t \in worked \/ t \in late
      BY <2>1 DEF Outcome
    <2> QED
      BY <1>3, <2>1, <2>2, <2>3 DEF ReconcileRow
  <1>4. CASE \/ ReadPending \/ ReadInflight \/ ReadStatuses \/ GateEnds
             \/ HourPasses
    BY <1>4 DEF ReadPending, ReadInflight, ReadStatuses, GateEnds, HourPasses
  <1>5. CASE NothingPending \/ ReadFails \/ DispatchEnds \/ Restart
    BY <1>5 DEF NothingPending, ReadFails, DispatchEnds, Restart, EndTick
  <1>6. ASSUME NEW t \in Tasks,
               \/ Gate(t) \/ Dispatch(t) \/ DispatchFails(t)
               \/ DispatchDry(t) \/ ReconcileRowFails(t) \/ TTLPasses(t)
        PROVE  RowInv' /\ DoneWasWorked'
    BY <1>6 DEF Gate, Dispatch, DispatchFails, DispatchDry, ReconcileRowFails,
                TTLPasses
  <1>7. CASE MarkInflight
    BY <1>7 DEF MarkInflight, Remember, PhaseInv
  <1>8. CASE MarkInflightFails
    BY <1>8 DEF MarkInflightFails, Remember, PhaseInv
  <1>9. CASE UNCHANGED vars
    BY <1>9 DEF vars
  <1> QED
    BY <1>1, <1>2, <1>3, <1>4, <1>5, <1>6, <1>7, <1>8, <1>9
       DEF Next, Runner, Failures, Time

\* The window is checked before every dispatch; only a restart empties it, and
\* only a failed call delivers behind its back.
LEMMA HourStep ==
  TypeOK /\ PhaseInv /\ HourInv /\ [Next]_vars => HourInv'
  <1> SUFFICES ASSUME TypeOK, PhaseInv, HourInv, [Next]_vars, MaxPerHour > 0
               PROVE  /\ recent' + Underway' <= MaxPerHour
                      /\ lastHour' <= MaxPerHour * restarts' + recent' + Underway'
                                       + escaped'
    BY DEF HourInv
  <1> DEFINE Kept == /\ recent' = recent /\ lastHour' = lastHour
                     /\ escaped' = escaped /\ restarts' = restarts
  <1> USE RunnerAssumption DEF TypeOK, table, pass, hour, ghost
  <1>0. /\ recent + Underway <= MaxPerHour
        /\ lastHour <= MaxPerHour * restarts + recent + Underway + escaped
        /\ MaxPerHour * restarts \in Nat /\ Underway \in {0, 1}
    BY DEF HourInv, Underway
  <1>1. ASSUME NEW t \in Tasks,
               \/ EnqueueTask(t) \/ ReconcileRow(t) \/ ReconcileRowFails(t)
               \/ Gate(t) \/ DispatchDry(t) \/ TTLPasses(t)
        PROVE  Kept /\ Underway' = Underway
    BY <1>1 DEF EnqueueTask, ReconcileRow, ReconcileRowFails, Gate,
                DispatchDry, TTLPasses, Underway
  <1>2. ASSUME \/ StartTick \/ ReadPending \/ ReadInflight \/ ReadStatuses
               \/ GateEnds \/ UNCHANGED vars
        PROVE  Kept /\ Underway' = Underway
    BY <1>2 DEF StartTick, ReadPending, ReadInflight, ReadStatuses, GateEnds,
                vars, Underway
  <1>3. ASSUME NothingPending \/ ReadFails \/ DispatchEnds
        PROVE  Kept /\ Underway' = Underway
    BY <1>3 DEF NothingPending, ReadFails, DispatchEnds, EndTick, PhaseInv,
                Underway
  <1>4. ASSUME NEW t \in Tasks, Dispatch(t)
        PROVE  /\ recent' = recent /\ recent < MaxPerHour
               /\ Underway = 0 /\ Underway' = 1
               /\ lastHour' = lastHour + 1 /\ escaped' = escaped
               /\ restarts' = restarts
    BY <1>4 DEF Dispatch, Accepts, HourIsFull, Underway
  <1>5. ASSUME NEW t \in Tasks, DispatchFails(t)
        PROVE  \/ Kept /\ Underway' = Underway
               \/ /\ recent' = recent /\ Underway' = Underway
                  /\ lastHour' = lastHour + 1 /\ escaped' = escaped + 1
                  /\ restarts' = restarts
    BY <1>5 DEF DispatchFails, Accepts, Underway
  <1>6. ASSUME MarkInflight \/ MarkInflightFails
        PROVE  /\ recent' = recent + 1 /\ Underway = 1 /\ Underway' = 0
               /\ lastHour' = lastHour /\ escaped' = escaped
               /\ restarts' = restarts
    BY <1>6 DEF MarkInflight, MarkInflightFails, Remember, Underway
  <1>7. ASSUME HourPasses
        PROVE  /\ recent' <= recent /\ recent' \in Nat /\ escaped' \in Nat
               /\ lastHour' <= MaxPerHour * restarts + recent' + Underway + escaped'
               /\ restarts' = restarts /\ Underway' = Underway
    <2>1. /\ pc = "wait" /\ lastHour' = lastHour - 1
          /\ restarts' = restarts /\ posting' = posting
          /\ \/ escaped' = escaped - 1 /\ escaped > 0 /\ recent' = recent
             \/ recent' = recent /\ escaped' = escaped
             \/ recent' = recent - 1 /\ recent > 0 /\ escaped' = escaped
      BY <1>7 DEF HourPasses
    <2>2. Underway' = Underway
      BY <2>1 DEF Underway
    <2> QED
      BY <1>0, <2>1, <2>2
  <1>8. ASSUME Restart
        PROVE  /\ recent' = 0 /\ Underway' = 0 /\ lastHour' = lastHour
               /\ escaped' = escaped
               /\ MaxPerHour * restarts' = MaxPerHour * restarts + MaxPerHour
    <2>1. /\ recent' = 0 /\ posting' = None /\ restarts' = restarts + 1
          /\ lastHour' = lastHour /\ escaped' = escaped
      BY <1>8 DEF Restart, EndTick
    <2>2. MaxPerHour * (restarts + 1) = MaxPerHour * restarts + MaxPerHour
      OBVIOUS
    <2> QED
      BY <2>1, <2>2 DEF Underway
  <1> QED
    BY <1>0, <1>1, <1>2, <1>3, <1>4, <1>5, <1>6, <1>7, <1>8
       DEF Next, Runner, Failures, Time

\* A delivery is recorded at once, or lost for good and counted as such.
LEMMA OnceStep ==
  TypeOK /\ PhaseInv /\ DeliveredOnce /\ [Next]_vars => DeliveredOnce'
  <1> SUFFICES ASSUME TypeOK, PhaseInv, DeliveredOnce, [Next]_vars
               PROVE  DeliveredOnce'
    OBVIOUS
  <1> USE RunnerAssumption DEF TypeOK, DeliveredOnce, table, pass, hour, ghost
  <1>1. ASSUME NEW t \in Tasks, EnqueueTask(t) PROVE DeliveredOnce'
    BY <1>1 DEF EnqueueTask
  <1>2. ASSUME NEW t \in Tasks, ReconcileRow(t) PROVE DeliveredOnce'
    <2>1. /\ status[t] = "inflight"
          /\ delivered' = delivered /\ unrecorded' = unrecorded
          /\ posting' = posting
      BY <1>2 DEF ReconcileRow, PhaseInv, Inflight, InStatus
    <2>2. status' = status \/ status' = [status EXCEPT ![t] = "failed"]
          \/ status' = [status EXCEPT ![t] = "done"]
      BY <1>2, <2>1 DEF ReconcileRow, Outcome, Busy
    <2> QED
      BY <2>1, <2>2
  <1>3. CASE \/ StartTick \/ ReadPending \/ ReadInflight \/ ReadStatuses
             \/ GateEnds \/ HourPasses \/ UNCHANGED vars
    BY <1>3 DEF StartTick, ReadPending, ReadInflight, ReadStatuses, GateEnds,
                HourPasses, vars
  <1>4. CASE NothingPending \/ ReadFails \/ DispatchEnds
    <2>1. /\ status' = status /\ delivered' = delivered
          /\ unrecorded' = unrecorded /\ posting' = posting
      BY <1>4 DEF NothingPending, ReadFails, DispatchEnds, EndTick, PhaseInv
    <2> QED
      BY <2>1
  <1>5. ASSUME NEW t \in Tasks,
               \/ Gate(t) \/ DispatchDry(t) \/ ReconcileRowFails(t)
               \/ TTLPasses(t)
        PROVE  DeliveredOnce'
    BY <1>5 DEF Gate, DispatchDry, ReconcileRowFails, TTLPasses
  <1>6. ASSUME NEW t \in Tasks, Dispatch(t) PROVE DeliveredOnce'
    BY <1>6 DEF Dispatch, Accepts
  <1>7. ASSUME NEW t \in Tasks, DispatchFails(t) PROVE DeliveredOnce'
    BY <1>7 DEF DispatchFails, Accepts
  <1>8. CASE MarkInflight
    BY <1>8 DEF MarkInflight, Remember
  <1>9. CASE MarkInflightFails
    BY <1>9 DEF MarkInflightFails, Remember
  <1>10. CASE Restart
    BY <1>10 DEF Restart, EndTick
  <1> QED
    BY <1>1, <1>2, <1>3, <1>4, <1>5, <1>6, <1>7, <1>8, <1>9, <1>10
       DEF Next, Runner, Failures, Time

\* A key enters the live rows through EnqueueTask alone.
LEMMA KeyStep ==
  TypeOK /\ PhaseInv /\ OneLivePerKey /\ [Next]_vars => OneLivePerKey'
  <1> SUFFICES ASSUME TypeOK, PhaseInv, OneLivePerKey, [Next]_vars
               PROVE  OneLivePerKey'
    OBVIOUS
  <1> USE RunnerAssumption DEF TypeOK, Live, InStatus, table, pass, hour, ghost
  <1>1. ASSUME Live' \subseteq Live PROVE OneLivePerKey'
    BY <1>1 DEF OneLivePerKey, SameWork
  <1>2. ASSUME NEW t \in Tasks, EnqueueTask(t) PROVE OneLivePerKey'
    <2>1. Live' = Live \cup {t} /\ \A u \in Live : ~ SameWork(t, u)
      BY <1>2 DEF EnqueueTask
    <2> QED
      BY <2>1 DEF OneLivePerKey, SameWork
  <1>3. ASSUME NEW t \in Tasks, ReconcileRow(t) PROVE Live' \subseteq Live
    BY <1>3 DEF ReconcileRow, PhaseInv, Inflight
  <1>4. ASSUME \/ StartTick \/ ReadPending \/ ReadInflight \/ ReadStatuses
               \/ GateEnds \/ HourPasses \/ UNCHANGED vars \/ NothingPending
               \/ ReadFails \/ DispatchEnds \/ Restart \/ MarkInflightFails
        PROVE  Live' \subseteq Live
    BY <1>4 DEF StartTick, ReadPending, ReadInflight, ReadStatuses, GateEnds,
                HourPasses, vars, NothingPending, ReadFails, DispatchEnds,
                Restart, MarkInflightFails
  <1>5. ASSUME NEW t \in Tasks,
               \/ Gate(t) \/ Dispatch(t) \/ DispatchFails(t) \/ DispatchDry(t)
               \/ ReconcileRowFails(t) \/ TTLPasses(t)
        PROVE  Live' \subseteq Live
    BY <1>5 DEF Gate, Dispatch, DispatchFails, DispatchDry, ReconcileRowFails,
                TTLPasses
  <1>6. ASSUME MarkInflight PROVE Live' \subseteq Live
    BY <1>6 DEF MarkInflight, PhaseInv, Pending
  <1> QED
    BY <1>1, <1>2, <1>3, <1>4, <1>5, <1>6 DEF Next, Runner, Failures, Time
-----------------------------------------------------------------------------
(***************************************************************************)
(* The theorems.                                                           *)
(***************************************************************************)
LEMMA IInit == Init => IInv
  <1> SUFFICES ASSUME Init PROVE IInv
    OBVIOUS
  <1>1. TypeOK
    BY TypeInit
  <1>2. Inflight = {} /\ Live = {} /\ released = {}
    BY DEF Init, Inflight, Live, InStatus
  <1>3. PhaseInv
    BY <1>2, RunnerAssumption DEF Init, PhaseInv
  <1>4. CountInv
    BY <1>2, EmptyWithinCaps DEF Init, CountInv
  <1>5. DepsInv /\ RowInv /\ DoneWasWorked
    BY DEF Init, DepsInv, RowInv, DoneWasWorked
  <1>6. HourInv
    BY RunnerAssumption DEF Init, HourInv, Underway
  <1>7. DeliveredOnce
    BY RunnerAssumption DEF Init, DeliveredOnce
  <1>8. OneLivePerKey
    BY <1>2 DEF OneLivePerKey
  <1> QED
    BY <1>1, <1>3, <1>4, <1>5, <1>6, <1>7, <1>8 DEF IInv

LEMMA IStep == IInv /\ [Next]_vars => IInv'
  BY TypeStep, PhaseStep, CountStep, DepsStep, RowStep, HourStep, OnceStep,
     KeyStep DEF IInv

\* The invariant holds in every behaviour of the runner.
THEOREM Invariance == Spec => []IInv
  BY IInit, IStep, PTL DEF Spec

\* Every variable keeps the type its declaration promises.
THEOREM TypeCorrect == Spec => []TypeOK
  <1>1. IInv => TypeOK
    BY DEF IInv
  <1> QED
    BY <1>1, Invariance, PTL

\* No source is ever given a task with a dependency that is not done, although
\* the runner decides on statuses it read earlier in the tick.
THEOREM DepsRespected == Spec => []DepsDoneFirst
  <1>1. IInv => DepsDoneFirst
    BY DEF IInv, DepsInv, DepsDoneFirst, Done
  <1> QED
    BY <1>1, Invariance, PTL

\* The rows in flight stay within the caps, whatever fails and however
\* producers interleave with the tick.
THEOREM CapsRespected == Spec => []CapsHold
  <1>1. IInv => CapsHold
    BY DEF IInv, CountInv, CapsHold
  <1> QED
    BY <1>1, Invariance, PTL

\* A task is accepted again only after an acceptance the table never learnt of.
THEOREM NoSpuriousRedelivery == Spec => []DeliveredOnce
  <1>1. IInv => DeliveredOnce
    BY DEF IInv
  <1> QED
    BY <1>1, Invariance, PTL

\* The latch: done means seen at work after the release, or the TTL.
THEOREM Latched == Spec => []DoneWasWorked
  <1>1. IInv => DoneWasWorked
    BY DEF IInv
  <1> QED
    BY <1>1, Invariance, PTL

\* Only a restart, or a call that fails after the source took the task, lifts
\* the hourly cap on deliveries.
THEOREM HourRespected == Spec => []HourlyCap
  <1>1. ASSUME IInv PROVE HourlyCap
    <2>1. /\ recent \in Nat /\ lastHour \in Nat /\ escaped \in Nat
          /\ restarts \in Nat /\ MaxPerHour \in Nat /\ Underway \in {0, 1}
      BY <1>1, RunnerAssumption DEF IInv, TypeOK, Underway
    <2>2. MaxPerHour * (restarts + 1) = MaxPerHour * restarts + MaxPerHour
      BY <2>1
    <2>3. MaxPerHour * restarts \in Nat
      BY <2>1
    <2> QED
      BY <1>1, <2>1, <2>2, <2>3 DEF IInv, HourInv, HourlyCap
  <1> QED
    BY <1>1, Invariance, PTL

\* Two live rows never stand for the same work.
THEOREM KeyRespected == Spec => []OneLivePerKey
  <1>1. IInv => OneLivePerKey
    BY DEF IInv
  <1> QED
    BY <1>1, Invariance, PTL
-----------------------------------------------------------------------------
(***************************************************************************)
(* The runner implements the ledger: enqueueing accepts, recording a       *)
(* dispatch starts, reconciling closes, and nothing else moves a row.      *)
(***************************************************************************)
LEMMA LedgerStep == IInv /\ [Next]_vars => [Ledger!Next]_status
  <1> SUFFICES ASSUME IInv, [Next]_vars PROVE [Ledger!Next]_status
    OBVIOUS
  <1> USE RunnerAssumption DEF table, pass, hour, ghost
  <1>0. /\ Ledger!Live = Live
        /\ Ledger!Inflight = Inflight
        /\ \A S : Ledger!InStatus(S) = InStatus(S)
        /\ \A t, u : Ledger!SameWork(t, u) = SameWork(t, u)
    BY DEF Ledger!Live, Ledger!Inflight, Ledger!InStatus, Ledger!SameWork,
           Live, Inflight, InStatus, SameWork
  <1>1. ASSUME NEW t \in Tasks, EnqueueTask(t) PROVE Ledger!Next
    BY <1>0, <1>1 DEF EnqueueTask, Ledger!Next, Ledger!Accept, Ledger!Move
  <1>2. ASSUME NEW t \in Tasks, ReconcileRow(t)
        PROVE  Ledger!Next \/ status' = status
    <2>1. /\ status[t] = "inflight"
          /\ status \in [Tasks -> {"none", "pending", "inflight", "done", "failed"}]
      BY <1>2 DEF ReconcileRow, IInv, PhaseInv, TypeOK, Inflight, InStatus
    <2>2. Outcome(t) \in {"failed", "busy", "done", "inflight"}
      BY DEF Outcome, Busy
    <2>3. CASE Outcome(t) \in {"failed", "done"}
      <3>1. Ledger!Close(t)
        BY <1>2, <2>1, <2>3 DEF ReconcileRow, Ledger!Close, Ledger!Move
      <3> QED
        BY <3>1 DEF Ledger!Next
    <2>4. CASE Outcome(t) \in {"busy", "inflight"}
      BY <1>2, <2>1, <2>4 DEF ReconcileRow
    <2> QED
      BY <2>2, <2>3, <2>4
  <1>3. ASSUME \/ StartTick \/ ReadPending \/ ReadInflight \/ ReadStatuses
               \/ GateEnds \/ HourPasses \/ UNCHANGED vars \/ NothingPending
               \/ ReadFails \/ DispatchEnds \/ Restart \/ MarkInflightFails
        PROVE  status' = status
    BY <1>3 DEF StartTick, ReadPending, ReadInflight, ReadStatuses, GateEnds,
                HourPasses, vars, NothingPending, ReadFails, DispatchEnds,
                Restart, MarkInflightFails
  <1>4. ASSUME NEW t \in Tasks,
               \/ Gate(t) \/ Dispatch(t) \/ DispatchFails(t) \/ DispatchDry(t)
               \/ ReconcileRowFails(t) \/ TTLPasses(t)
        PROVE  status' = status
    BY <1>4 DEF Gate, Dispatch, DispatchFails, DispatchDry, ReconcileRowFails,
                TTLPasses
  <1>5. ASSUME MarkInflight PROVE Ledger!Next
    <2>1. /\ posting \in Tasks /\ posting \in released /\ pc = "dispatch"
          /\ counted \in SUBSET Tasks
      BY <1>5 DEF MarkInflight, IInv, PhaseInv, TypeOK
    <2>2. Inflight \cup {posting} \in SUBSET counted /\ WithinCaps(counted)
      BY <2>1 DEF IInv, CountInv
    <2>3. WithinCaps(Inflight \cup {posting})
      BY <2>1, <2>2, CapsMonotone
    <2>4. Deps[posting] \subseteq InStatus({"done"})
      BY <2>1 DEF IInv, DepsInv, Done
    <2>5. Ledger!Start(posting)
      <3>1. ASSUME NEW S, WithinCaps(S) PROVE Ledger!WithinCaps(S)
        <4>1. \A T : Ledger!Cardinality(T) = Cardinality(T)
          BY DEF Ledger!Cardinality, Cardinality
        <4>2. \A k : Ledger!CountOn(S, k) = CountOn(S, k)
          BY <4>1 DEF Ledger!CountOn, CountOn
        <4> QED
          BY <3>1, <4>1, <4>2 DEF Ledger!WithinCaps, WithinCaps
      <3>2. Ledger!Move(posting, "pending", "inflight")
        BY <1>5 DEF MarkInflight, Ledger!Move
      <3> QED
        BY <1>0, <2>3, <2>4, <3>1, <3>2 DEF Ledger!Start
    <2> QED
      BY <2>1, <2>5 DEF Ledger!Next
  <1> QED
    BY <1>1, <1>2, <1>3, <1>4, <1>5 DEF Next, Runner, Failures, Time

\* Whoever enqueues work sees the ledger: its three snapshot reads, its
\* failures and its restarts are invisible.
THEOREM Refinement == Spec => KeepsPromise
  <1>1. Init => Ledger!Init
    BY DEF Init, Ledger!Init
  <1> QED
    BY <1>1, Invariance, LedgerStep, PTL DEF Spec, Ledger!Spec, KeepsPromise
=============================================================================
