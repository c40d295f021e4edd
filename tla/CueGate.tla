------------------------------ MODULE CueGate ------------------------------
(***************************************************************************)
(* The deterministic release gate of the outbound cue (cue/cue.go): which  *)
(* pending tasks may be handed to a session now, given what is in flight,  *)
(* which tasks are done and what the fleet watcher last saw.  A task's     *)
(* fields never change after it is enqueued, so they are functions of its  *)
(* id.                                                                     *)
(***************************************************************************)
EXTENDS Naturals, FiniteSets

CONSTANTS
  Tasks,      \* ids of the tasks that can ever be enqueued
  Sessions,   \* ids of the sessions of all the sources
  SpawnIds,   \* the sessions that do not exist until a spawn creates them
  Spawn,      \* the target shared by every spawn task (spawnKey)
  Absent,     \* what a fleet snapshot says of a session that is not in it
  Statuses,   \* the statuses the sources report
  Target,     \* task -> the session it is posted to, or Spawn
  Deps,       \* task -> the tasks that must be done before it is released
  Rank,       \* task -> its place in the order of the gate: highest
              \*   priority first, then oldest, then by id
  PerSession, \* Caps.PerSession, after its default of 1 is applied
  Global,     \* Caps.Global, 0 for no limit
  MaxSpawns   \* Caps.MaxSpawns, 0 for no limit

AllStatuses == {"idle", "done", "running", "blocked", "awaiting_user", "failed"}

ASSUME TasksAssumption ==
  /\ IsFiniteSet(Tasks)
  /\ SpawnIds \subseteq Sessions
  /\ Spawn \notin Sessions
  /\ Target \in [Tasks -> Sessions \cup {Spawn}]
  /\ Deps \in [Tasks -> SUBSET Tasks]
  /\ Rank \in [Tasks -> Nat]
  /\ \A t, u \in Tasks : Rank[t] = Rank[u] => t = u

ASSUME FleetAssumption ==
  /\ Statuses \subseteq AllStatuses
  /\ Absent \notin AllStatuses

ASSUME CapsAssumption ==
  /\ PerSession \in Nat \ {0}
  /\ Global \in Nat
  /\ MaxSpawns \in Nat

\* DefaultReleasable: the statuses in which a session takes a new task.
Releasable == {"idle", "done", "awaiting_user"}

\* What the reconciler takes for a session at work, and for one that is not.
\* A session awaiting its user is neither.
Busy == {"running", "blocked"}
Free == {"idle", "done"}

\* How many of the tasks of S count against the target k (Counts).
CountOn(S, k) == Cardinality({u \in S : Target[u] = k})

\* t is the task of S the gate looks at first.
First(t, S) == t \in S /\ \A u \in S : Rank[t] <= Rank[u]

\* Every dependency has a row that is done: a live dependency holds the task,
\* and so does one that has failed or was never enqueued.
DepsDone(t, done) == Deps[t] \subseteq done

\* A spawn creates its session, so only the spawn cap is consulted; any other
\* task needs its session in the snapshot, in a releasable status and with
\* room for one more.
TargetTakes(t, fleet, counted) ==
  IF Target[t] = Spawn
  THEN MaxSpawns > 0 => CountOn(counted, Spawn) < MaxSpawns
  ELSE /\ fleet[Target[t]] \in Releasable
       /\ CountOn(counted, Target[t]) < PerSession

\* The verdict on one task, counted being the tasks in flight at the start of
\* the pass together with the ones the pass has released so far.
Releases(t, done, fleet, counted) ==
  /\ DepsDone(t, done)
  /\ Global > 0 => Cardinality(counted) < Global
  /\ TargetTakes(t, fleet, counted)

\* The caps a set of tasks in flight has to respect.
WithinCaps(S) ==
  /\ Global > 0 => Cardinality(S) <= Global
  /\ MaxSpawns > 0 => CountOn(S, Spawn) <= MaxSpawns
  /\ \A k \in Sessions : CountOn(S, k) <= PerSession
=============================================================================
