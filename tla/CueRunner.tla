----------------------------- MODULE CueRunner -----------------------------
(***************************************************************************)
(* The release loop of the cue (service/cue.go) over its durable table     *)
(* (the cue_tasks part of store/pg.go).  Every tick of the fleet watcher   *)
(* hands the runner a fleet snapshot; the runner first closes the tasks    *)
(* whose session has come free, then reads the table in three queries,     *)
(* runs the gate and dispatches what it releases, recording each dispatch  *)
(* after the fact.  Producers enqueue at any point in between, any store   *)
(* or source call may fail, and the process may restart at any point.      *)
(***************************************************************************)
EXTENDS CueGate

CONSTANTS
  DedupeKey,   \* task -> the identity of the work
  NoKey,       \* the empty key, which opts out of deduplication
  None,        \* no session, no task
  DryRuns,     \* the values CueConfig.DryRun may have when the process starts
  MaxPerHour,  \* CueConfig.MaxPerHour, 0 for no limit
  TTL,         \* whether CueConfig.CompletionTTL is set
  MaxFaults    \* bound: failed calls and restarts in one behaviour

ASSUME RunnerAssumption ==
  /\ None \notin Tasks \cup Sessions
  /\ DryRuns \subseteq BOOLEAN /\ TTL \in BOOLEAN
  /\ MaxPerHour \in Nat /\ MaxFaults \in Nat

VARIABLES
  (* the table cue_tasks *)
  status,     \* task -> its status, "none" when there is no row
  run,        \* task -> run_session
  seen,       \* the rows whose seen_busy is set
  late,       \* the inflight rows released more than CompletionTTL ago
  (* the runner *)
  dryRun,     \* log what would be dispatched, do nothing
  pc,         \* where the tick stands
  fleet,      \* the snapshot the tick was handed
  todo,       \* the rows the current loop still has to visit
  counted,    \* the tasks behind the gate's working counters
  doneIds,    \* the done half of TaskStatuses, as read
  released,   \* the tasks the gate released and the loop has not reached
  posting,    \* the task dispatched but not yet recorded, or None
  session,    \* the session it runs in
  recent,     \* the dispatches of the last hour that the window remembers:
              \*   older ones are pruned before every use
  (* the sources, and what the properties observe *)
  spawned,    \* the sessions created by spawns
  worked,     \* the tasks whose session a snapshot showed busy, while in flight
  delivered,  \* task -> how often a source accepted it
  unrecorded, \* task -> how many of those the table never learnt of
  lastHour,   \* the deliveries less than an hour old
  escaped,    \* those of them made by a call that then returned an error
  faults,     \* failed calls so far
  restarts    \* restarts so far

table == <<status, run, seen, late>>
pass  == <<fleet, todo, counted, doneIds, released, posting, session>>
hour  == <<recent, lastHour, escaped>>
ghost == <<worked, delivered, unrecorded, restarts>>
vars  == <<table, dryRun, pc, pass, hour, spawned, ghost, faults>>

InStatus(S) == {t \in Tasks : status[t] \in S}
Pending  == InStatus({"pending"})
Inflight == InStatus({"inflight"})
Live     == InStatus({"pending", "inflight"})

SameWork(t, u) == DedupeKey[t] = DedupeKey[u] /\ DedupeKey[t] # NoKey

NoFleet == [s \in Sessions |-> Absent]

\* A snapshot leaves out a session whose source is down or whose state cannot
\* be read, so any existing session may be missing from it.
Snapshots ==
  {f \in [Sessions -> Statuses \cup {Absent}] :
     \A s \in SpawnIds \ spawned : f[s] = Absent}

\* Definitions marked "Mutant" change the one that follows them the way a bug
\* would; no action uses them, and each one breaks a property below.
Fault == faults + restarts < MaxFaults /\ faults' = faults + 1

Init ==
  /\ status = [t \in Tasks |-> "none"]
  /\ run = [t \in Tasks |-> None]
  /\ seen = {} /\ late = {}
  /\ dryRun \in DryRuns
  /\ pc = "wait"
  /\ fleet = NoFleet
  /\ todo = {} /\ counted = {} /\ doneIds = {} /\ released = {}
  /\ posting = None /\ session = None
  /\ recent = 0 /\ lastHour = 0 /\ escaped = 0
  /\ spawned = {}
  /\ worked = {}
  /\ delivered = [t \in Tasks |-> 0]
  /\ unrecorded = [t \in Tasks |-> 0]
  /\ faults = 0 /\ restarts = 0

(***************************************************************************)
(* The producers: the generator, plan_goal and the scratchpad scheduler.   *)
(* One statement inserts the row unless the id exists or a live row has    *)
(* the same key.                                                           *)
(***************************************************************************)
\* Mutant: the key is not looked at.
EnqueueAnyKey(t) ==
  /\ status[t] = "none"
  /\ status' = [status EXCEPT ![t] = "pending"]
  /\ UNCHANGED <<run, seen, late, dryRun, pc, pass, hour, spawned, ghost,
                 faults>>

EnqueueTask(t) ==
  /\ status[t] = "none"
  /\ \A u \in Live : ~ SameWork(t, u)
  /\ status' = [status EXCEPT ![t] = "pending"]
  /\ UNCHANGED <<run, seen, late, dryRun, pc, pass, hour, spawned, ghost,
                 faults>>

(***************************************************************************)
(* reconcile: close the in-flight tasks whose session has completed.  Only *)
(* the runner moves rows out of pending, so the rows it read stay as read. *)
(***************************************************************************)
StartTick ==
  /\ pc = "wait"
  /\ pc' = "reconcile"
  /\ fleet' \in Snapshots
  /\ worked' = worked \cup {t \in Inflight : fleet'[run[t]] \in Busy}
  /\ \/ todo' = Inflight /\ UNCHANGED faults
     \/ todo' = {} /\ Fault          \* InflightRows fails: nothing to reconcile
  /\ UNCHANGED <<table, dryRun, counted, doneIds, released, posting, session,
                 hour, spawned, delivered, unrecorded, restarts>>

\* Mutant: a session that is free is taken for one that has finished.
OutcomeUnlatched(t) ==
  LET st == fleet[run[t]] IN
  CASE st = "failed" -> "failed"
    [] st \in Busy -> "busy"
    [] st = Absent \/ st \in Free \/ (TTL /\ t \in late) -> "done"
    [] OTHER -> "inflight"

\* Mutant: no TTL, so a session that was never seen busy keeps its task.
OutcomeNoBackstop(t) ==
  LET st == fleet[run[t]] IN
  CASE st = "failed" -> "failed"
    [] st \in Busy -> "busy"
    [] t \in seen /\ (st = Absent \/ st \in Free) -> "done"
    [] OTHER -> "inflight"

\* The first case that applies to a row, in the order of the switch.
Outcome(t) ==
  LET st == fleet[run[t]] IN
  CASE st = "failed" -> "failed"
    [] st \in Busy   -> "busy"
    [] OTHER ->
         IF \/ t \in seen /\ (st = Absent \/ st \in Free)
            \/ TTL /\ t \in late
         THEN "done" ELSE "inflight"

ReconcileRow(t) ==
  /\ pc = "reconcile" /\ t \in todo
  /\ todo' = todo \ {t}
  /\ status' = IF Outcome(t) = "busy" THEN status
               ELSE [status EXCEPT ![t] = Outcome(t)]
  /\ seen' = IF Outcome(t) = "busy" THEN seen \cup {t} ELSE seen
  /\ UNCHANGED <<run, late, dryRun, pc, fleet, counted, doneIds, released,
                 posting, session, hour, spawned, ghost, faults>>

\* MarkSeenBusy, MarkDone or MarkFailed fails: the row stays as it is.
ReconcileRowFails(t) ==
  /\ pc = "reconcile" /\ t \in todo
  /\ Outcome(t) # "inflight"
  /\ Outcome(t) = "busy" => t \notin seen
  /\ Fault
  /\ todo' = todo \ {t}
  /\ UNCHANGED <<table, dryRun, pc, fleet, counted, doneIds, released,
                 posting, session, hour, spawned, ghost>>

(***************************************************************************)
(* release: three queries, the gate, then the dispatches.                  *)
(***************************************************************************)
EndTick ==
  /\ pc' = "wait"
  /\ fleet' = NoFleet
  /\ todo' = {} /\ counted' = {} /\ doneIds' = {} /\ released' = {}
  /\ posting' = None /\ session' = None

ReadPending ==
  /\ pc = "reconcile" /\ todo = {}
  /\ Pending # {}
  /\ todo' = Pending
  /\ pc' = "inflight"
  /\ UNCHANGED <<table, dryRun, fleet, counted, doneIds, released, posting,
                 session, hour, spawned, ghost, faults>>

NothingPending ==
  /\ pc = "reconcile" /\ todo = {}
  /\ Pending = {}
  /\ EndTick
  /\ UNCHANGED <<table, dryRun, hour, spawned, ghost, faults>>

\* Mutant: the counters start from nothing on every tick.
ReadInflightForgets ==
  /\ pc = "inflight"
  /\ pc' = "statuses"
  /\ UNCHANGED <<table, dryRun, fleet, todo, counted, doneIds, released, posting,
                 session, hour, spawned, ghost, faults>>

ReadInflight ==
  /\ pc = "inflight"
  /\ counted' = Inflight
  /\ pc' = "statuses"
  /\ UNCHANGED <<table, dryRun, fleet, todo, doneIds, released, posting,
                 session, hour, spawned, ghost, faults>>

\* Mutant: a dependency that has ended in any way lets its dependents go.
ReadStatusesOfEnded ==
  /\ pc = "statuses"
  /\ doneIds' = InStatus({"done", "failed"})
  /\ pc' = "gate"
  /\ UNCHANGED <<table, dryRun, fleet, todo, counted, released, posting,
                 session, hour, spawned, ghost, faults>>

ReadStatuses ==
  /\ pc = "statuses"
  /\ doneIds' = InStatus({"done"})
  /\ pc' = "gate"
  /\ UNCHANGED <<table, dryRun, fleet, todo, counted, released, posting,
                 session, hour, spawned, ghost, faults>>

\* One of the three queries fails: no release on this tick.
ReadFails ==
  /\ \/ pc = "reconcile" /\ todo = {}
     \/ pc \in {"inflight", "statuses"}
  /\ Fault
  /\ EndTick
  /\ UNCHANGED <<table, dryRun, hour, spawned, ghost>>

\* One iteration of the gate's loop over the pending tasks, in its order.
Gate(t) ==
  /\ pc = "gate" /\ First(t, todo)
  /\ todo' = todo \ {t}
  /\ IF Releases(t, doneIds, fleet, counted)
     THEN released' = released \cup {t} /\ counted' = counted \cup {t}
     ELSE UNCHANGED <<released, counted>>
  /\ UNCHANGED <<table, dryRun, pc, fleet, doneIds, posting, session, hour,
                 spawned, ghost, faults>>

\* The snapshots are of no use to the dispatches that follow.
GateEnds ==
  /\ pc = "gate" /\ todo = {}
  /\ pc' = "dispatch"
  /\ fleet' = NoFleet /\ doneIds' = {}
  /\ UNCHANGED <<table, dryRun, todo, counted, released, posting, session,
                 hour, spawned, ghost, faults>>

\* Mutant: off by one.
HourIsOverfull == MaxPerHour > 0 /\ recent > MaxPerHour

HourIsFull == MaxPerHour > 0 /\ recent >= MaxPerHour

\* Mutant: the placeholder of a spawn is recorded as the session it runs in.
TargetAsSession(t) == {Target[t]}

\* The sessions a dispatch of t can end up in: a spawn creates a new one.
RunSessions(t) ==
  IF Target[t] = Spawn THEN SpawnIds \ spawned ELSE {Target[t]}

\* The source takes the task: Post returns, or Spawn returns the new session.
Accepts(t, s) ==
  /\ delivered' = [delivered EXCEPT ![t] = @ + 1]
  /\ lastHour' = lastHour + 1
  /\ spawned' = IF Target[t] = Spawn THEN spawned \cup {s} ELSE spawned

Dispatch(t) ==
  /\ pc = "dispatch" /\ posting = None /\ First(t, released)
  /\ ~ HourIsFull /\ ~ dryRun
  /\ \E s \in RunSessions(t) :
       /\ Accepts(t, s)
       /\ posting' = t /\ session' = s
  /\ UNCHANGED <<table, dryRun, pc, fleet, todo, counted, doneIds, released,
                 recent, escaped, worked, unrecorded, restarts, faults>>

\* Post or Spawn returns an error, before or after the source took the task
\* (Post types the message and then fails to press Enter, or to read the pane):
\* the task stays pending and the window does not remember it, either way.
DispatchFails(t) ==
  /\ pc = "dispatch" /\ posting = None /\ First(t, released)
  /\ ~ HourIsFull /\ ~ dryRun
  /\ Fault
  /\ released' = released \ {t}
  /\ \/ UNCHANGED <<spawned, delivered, unrecorded, lastHour, escaped>>
     \/ /\ \E s \in RunSessions(t) : Accepts(t, s)
        /\ unrecorded' = [unrecorded EXCEPT ![t] = @ + 1]
        /\ escaped' = escaped + 1
  /\ UNCHANGED <<table, dryRun, pc, fleet, todo, counted, doneIds, posting,
                 session, recent, worked, restarts>>

DispatchDry(t) ==
  /\ pc = "dispatch" /\ posting = None /\ First(t, released)
  /\ ~ HourIsFull /\ dryRun
  /\ released' = released \ {t}
  /\ UNCHANGED <<table, dryRun, pc, fleet, todo, counted, doneIds, posting,
                 session, hour, spawned, ghost, faults>>

\* The dispatch is remembered in the window whether or not it was recorded.
Remember ==
  /\ recent' = recent + 1
  /\ released' = released \ {posting}
  /\ posting' = None /\ session' = None
  /\ UNCHANGED <<dryRun, pc, fleet, todo, counted, doneIds, lastHour, escaped,
                 late, spawned, worked, delivered, restarts>>

\* Mutant: the session is recorded and the status is not.
MarkRunOnly ==
  /\ posting # None
  /\ run' = [run EXCEPT ![posting] = session]
  /\ seen' = seen \ {posting}
  /\ Remember
  /\ UNCHANGED <<status, unrecorded, faults>>

MarkInflight ==
  /\ posting # None
  /\ status[posting] = "pending"
  /\ status' = [status EXCEPT ![posting] = "inflight"]
  /\ run' = [run EXCEPT ![posting] = session]
  /\ seen' = seen \ {posting}
  /\ Remember
  /\ UNCHANGED <<unrecorded, faults>>

\* The row cannot be updated: a warning in the log, and the task stays pending
\* although its session is already at work on it.
MarkInflightFails ==
  /\ posting # None
  /\ Fault
  /\ unrecorded' = [unrecorded EXCEPT ![posting] = @ + 1]
  /\ Remember
  /\ UNCHANGED <<status, run, seen>>

\* Every release is dispatched, or the hourly window is full.
DispatchEnds ==
  /\ pc = "dispatch" /\ posting = None
  /\ released = {} \/ HourIsFull
  /\ EndTick
  /\ UNCHANGED <<table, dryRun, hour, spawned, ghost, faults>>
(***************************************************************************)
(* Time and restarts.  A tick reads the clock once to reconcile and once   *)
(* to prune the window, so what comes due during a tick may as well come   *)
(* due before the tick that notices.                                       *)
(***************************************************************************)
\* CompletionTTL passes since t was released.
TTLPasses(t) ==
  /\ pc = "wait" /\ t \in Inflight \ late
  /\ late' = late \cup {t}
  /\ UNCHANGED <<status, run, seen, dryRun, pc, pass, hour, spawned, ghost,
                 faults>>

\* Mutant: the window is never pruned.
HourNeverPasses ==
  /\ pc = "wait"
  /\ lastHour > 0 /\ lastHour' = lastHour - 1
  /\ UNCHANGED <<recent, escaped, table, dryRun, pc, pass, spawned, ghost,
                 faults>>

\* A delivery becomes more than an hour old: one that a failed call hid from the
\* window, one that a restart made it forget, or, when no forgotten one is left
\* (they are older), the oldest one it remembers, which will be pruned.
HourPasses ==
  /\ pc = "wait"
  /\ lastHour > 0 /\ lastHour' = lastHour - 1
  /\ \/ escaped > 0 /\ escaped' = escaped - 1 /\ UNCHANGED recent
     \/ lastHour > recent + escaped /\ UNCHANGED <<recent, escaped>>
     \/ /\ lastHour = recent + escaped /\ recent > 0
        /\ recent' = recent - 1 /\ UNCHANGED escaped
  /\ UNCHANGED <<table, dryRun, pc, pass, spawned, ghost, faults>>

\* The process stops anywhere and starts again: the table survives, the tick
\* and the hourly window do not.
Restart ==
  /\ faults + restarts < MaxFaults /\ restarts' = restarts + 1
  /\ EndTick
  /\ unrecorded' = IF posting = None THEN unrecorded
                   ELSE [unrecorded EXCEPT ![posting] = @ + 1]
  /\ recent' = 0
  /\ dryRun' \in DryRuns
  /\ UNCHANGED <<table, lastHour, escaped, spawned, worked, delivered, faults>>

Runner ==
  \/ StartTick
  \/ \E t \in Tasks : ReconcileRow(t)
  \/ ReadPending \/ NothingPending \/ ReadInflight \/ ReadStatuses
  \/ \E t \in Tasks : Gate(t)
  \/ GateEnds
  \/ \E t \in Tasks : Dispatch(t) \/ DispatchDry(t)
  \/ MarkInflight \/ DispatchEnds

Failures ==
  \/ \E t \in Tasks : ReconcileRowFails(t) \/ DispatchFails(t)
  \/ ReadFails \/ MarkInflightFails \/ Restart

Time == HourPasses \/ \E t \in Tasks : TTLPasses(t)

Next ==
  \/ \E t \in Tasks : EnqueueTask(t)
  \/ Runner
  \/ Failures
  \/ Time

Spec == Init /\ [][Next]_vars

\* The watcher's ticker keeps calling the runner, whose calls return, and time
\* passes: strongly fair, because the model lets it pass between ticks only.
\* Nothing obliges a producer to enqueue or a session to move.
Fairness ==
  /\ WF_vars(Runner)
  /\ SF_vars(HourPasses)
  /\ \A t \in Tasks : SF_vars(TTLPasses(t))

FairSpec == Spec /\ Fairness
-----------------------------------------------------------------------------
TypeOK ==
  /\ status \in [Tasks -> {"none", "pending", "inflight", "done", "failed"}]
  /\ run \in [Tasks -> Sessions \cup {None}]
  /\ seen \subseteq Tasks /\ late \subseteq Tasks
  /\ dryRun \in BOOLEAN
  /\ pc \in {"wait", "reconcile", "inflight", "statuses", "gate", "dispatch"}
  /\ fleet \in [Sessions -> Statuses \cup {Absent}]
  /\ todo \subseteq Tasks /\ counted \subseteq Tasks
  /\ doneIds \subseteq Tasks /\ released \subseteq Tasks
  /\ posting \in Tasks \cup {None} /\ session \in Sessions \cup {None}
  /\ recent \in Nat /\ lastHour \in Nat /\ escaped \in Nat
  /\ spawned \subseteq SpawnIds
  /\ worked \subseteq Tasks
  /\ delivered \in [Tasks -> Nat] /\ unrecorded \in [Tasks -> Nat]
  /\ faults \in Nat /\ restarts \in Nat /\ faults + restarts <= MaxFaults

\* A task a source has accepted, even one the table never learnt was accepted,
\* had every dependency done when it was.  The gate decides on statuses read
\* earlier in the tick; that is safe because done is final.
DepsDoneFirst ==
  \A t \in Tasks : delivered[t] > 0 => Deps[t] \subseteq InStatus({"done"})

\* The rows in flight never exceed the per-session, spawn and global caps,
\* although the gate counts from a snapshot and its releases are recorded one
\* by one, some of them never.
CapsHold == WithinCaps(Inflight)

\* A source accepts a task once, plus once for every acceptance the table did
\* not learn of (a failed call or a restart between dispatch and
\* MarkInflight): nothing else makes the runner dispatch a task again.
DeliveredOnce ==
  \A t \in Tasks :
    LET recorded == IF status[t] \in {"none", "pending"} THEN 0 ELSE 1
        underway == IF posting = t THEN 1 ELSE 0
    IN delivered[t] = recorded + underway + unrecorded[t]

\* A task is closed as done only if, after it was released, a snapshot showed
\* its session busy, or if the TTL ran out on it: a session that has not yet
\* picked the task up is not taken for one that has finished it.
DoneWasWorked ==
  \A t \in Tasks : status[t] = "done" => t \in worked \/ t \in late

\* The deliveries of any hour stay within MaxPerHour for every run of the
\* process so far, but for those made by a call that then reported an error: the window counts what dispatch returned, not what the
\* sources took, so only a restart or a call that fails too late lifts the cap.
HourlyCap ==
  MaxPerHour > 0 => lastHour <= MaxPerHour * (restarts + 1) + escaped

\* At most one live row per non-empty dedupe key.
OneLivePerKey == \A t, u \in Live : SameWork(t, u) => t = u

\* The runner, its snapshots and its failures implement the promise of the cue.
Ledger == INSTANCE CueLedger WITH status <- status
KeepsPromise == Ledger!Spec

\* Once no snapshot shows a session at work any more, every task in flight is
\* closed: by the latch, by its session's failure or by the TTL.
Reclaimed ==
  <>[](\A s \in Sessions : fleet[s] \notin Busy)
    => \A t \in Tasks : status[t] = "inflight" ~> status[t] # "inflight"

\* What the comment on reconcile says of the TTL: it reclaims the capacity held
\* by a session that never frees.
BackstopReclaims ==
  \A t \in Tasks : status[t] = "inflight" ~> status[t] # "inflight"

\* A pending task whose dependencies are done is dispatched in the end, if from
\* some point on every snapshot shows every existing session releasable.
EventuallyReleased ==
  <>[](\A s \in Sessions \ (SpawnIds \ spawned) :
         pc \in {"wait", "dispatch"} \/ fleet[s] \in Releasable)
    => \A t \in Tasks :
         status[t] = "pending" /\ Deps[t] \subseteq InStatus({"done"})
           ~> status[t] # "pending"
=============================================================================
