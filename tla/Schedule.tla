------------------------------ MODULE Schedule ------------------------------
(***************************************************************************)
(* The scratchpad scheduler (service/schedule.go) over the two tables it   *)
(* joins: scratchpad_tasks, which the user and the concierge edit at any   *)
(* time, and cue_tasks, which the release loop works through.  A tick of   *)
(* the fleet watcher lists the scratchpad once, moves every pending row    *)
(* that is due into the cue and gives every closed row with a cron spec a  *)
(* successor.  Moving a row is two statements, with nothing around them.   *)
(***************************************************************************)
EXTENDS Naturals, FiniteSets

CONSTANTS
  Ids,       \* the uuids that rows can get
  Works,     \* what there is to do: rows for the same work share a DedupeKey
  None,      \* no row
  MaxFaults  \* bound: failed calls and restarts in one behaviour

ASSUME ScheduleAssumption ==
  /\ IsFiniteSet(Ids)
  /\ None \notin Ids \cup Works
  /\ MaxFaults \in Nat

VARIABLES
  (* scratchpad_tasks *)
  pad,      \* id -> its status, "none" when there is no row
  work,     \* id -> what it is for
  cron,     \* the rows with a cron spec that has a next occurrence
  runAt,    \* id -> "never" (no run_at), "later" or "due"
  (* cue_tasks, as far as EnqueueTask looks at it *)
  cue,      \* id -> "none", "live" (pending or inflight) or "over"
  (* the tick *)
  pc,
  due,      \* the listed rows it still has to promote
  ended,    \* the listed rows it still has to re-arm
  moving,   \* the row completed and not yet enqueued, or None
  (* what the properties observe *)
  byUser,   \* the rows the user closed
  lost,     \* the rows whose move failed or was cut short half-way
  skipped,  \* the rows the cue turned away: the same work was live there
  faults

rows == <<pad, work, cron, runAt>>
tick == <<pc, due, ended, moving>>
ghost == <<byUser, lost, skipped>>
vars == <<rows, cue, tick, ghost, faults>>

Closed == {i \in Ids : pad[i] \in {"completed", "failed"}}
Pending == {i \in Ids : pad[i] = "pending"}
Fresh == {i \in Ids : pad[i] = "none"}

\* Nothing but promotion and the user closes a row, and nothing makes one
\* inflight, so the live rows are the pending ones.
PadHas(w) == \E i \in Pending : work[i] = w
CueHas(w) == \E i \in Ids : cue[i] = "live" /\ work[i] = w

Fault == faults < MaxFaults /\ faults' = faults + 1

Init ==
  /\ pad = [i \in Ids |-> "none"]
  /\ work = [i \in Ids |-> None]
  /\ cron = {}
  /\ runAt = [i \in Ids |-> "never"]
  /\ cue = [i \in Ids |-> "none"]
  /\ pc = "wait"
  /\ due = {} /\ ended = {} /\ moving = None
  /\ byUser = {} /\ lost = {} /\ skipped = {}
  /\ faults = 0

\* Store.Add: one statement inserts the row i, unless a live row has its key.
Insert(i, w, repeats, when) ==
  /\ pad' = [pad EXCEPT ![i] = "pending"]
  /\ work' = [work EXCEPT ![i] = w]
  /\ cron' = IF repeats THEN cron \cup {i} ELSE cron
  /\ runAt' = [runAt EXCEPT ![i] = when]

(***************************************************************************)
(* The user, through the concierge's tools and the web app.                *)
(***************************************************************************)
\* add_task: a run_at and a cron spec may be given independently, and nothing
\* derives the one from the other.
AddTask(i, w, repeats, when) ==
  /\ i \in Fresh /\ ~ PadHas(w)
  /\ Insert(i, w, repeats, when)
  /\ UNCHANGED <<cue, tick, ghost, faults>>

\* Mutant: the other status of the list is written.
CloseAsDone(i, end) ==
  /\ i \in Pending
  /\ pad' = [pad EXCEPT ![i] = "done"]
  /\ byUser' = byUser \cup {i}
  /\ UNCHANGED <<work, cron, runAt, cue, tick, lost, skipped, faults>>

\* done_task or a tap: completed or failed, if the row is still open.
CloseTask(i, end) ==
  /\ i \in Pending
  /\ pad' = [pad EXCEPT ![i] = end]
  /\ byUser' = byUser \cup {i}
  /\ UNCHANGED <<work, cron, runAt, cue, tick, lost, skipped, faults>>

(***************************************************************************)
(* The tick.                                                               *)
(***************************************************************************)
\* Mutant: repeating rows are left for the re-arm.
StartTickOneShots ==
  /\ pc = "wait"
  /\ pc' = "scan"
  /\ due' = {i \in Pending \ cron : runAt[i] = "due"}
  /\ ended' = Closed \cap cron
  /\ UNCHANGED <<rows, cue, moving, ghost, faults>>

StartTick ==
  /\ pc = "wait"
  /\ pc' = "scan"
  /\ due' = {i \in Pending : runAt[i] = "due"}
  /\ ended' = Closed \cap cron
  /\ UNCHANGED <<rows, cue, moving, ghost, faults>>

\* Mutant: the row is handed over although someone else closed it first.
PromoteBlindly(i) ==
  /\ pc = "scan" /\ moving = None /\ i \in due
  /\ due' = due \ {i}
  /\ pad' = IF i \in Pending THEN [pad EXCEPT ![i] = "completed"] ELSE pad
  /\ moving' = i
  /\ UNCHANGED <<work, cron, runAt, cue, pc, ended, ghost, faults>>

\* Mutant: the row is closed and that is all.
PromoteForgets(i) ==
  /\ pc = "scan" /\ moving = None /\ i \in due
  /\ due' = due \ {i}
  /\ pad' = IF i \in Pending THEN [pad EXCEPT ![i] = "completed"] ELSE pad
  /\ UNCHANGED <<moving, work, cron, runAt, cue, pc, ended, ghost, faults>>

\* promote, first half: close the row, and stop if it was closed already.
Promote(i) ==
  /\ pc = "scan" /\ moving = None /\ i \in due
  /\ due' = due \ {i}
  /\ IF i \in Pending
     THEN pad' = [pad EXCEPT ![i] = "completed"] /\ moving' = i
     ELSE UNCHANGED <<pad, moving>>
  /\ UNCHANGED <<work, cron, runAt, cue, pc, ended, ghost, faults>>

\* Complete returns an error, before or after the row was closed.
PromoteFails(i) ==
  /\ pc = "scan" /\ moving = None /\ i \in due
  /\ Fault
  /\ due' = due \ {i}
  /\ \/ UNCHANGED <<pad, lost>>
     \/ /\ i \in Pending
        /\ pad' = [pad EXCEPT ![i] = "completed"]
        /\ lost' = lost \cup {i}
  /\ UNCHANGED <<work, cron, runAt, cue, pc, ended, moving, byUser, skipped>>

\* Mutant: the key is not looked at.
EnqueueTwin ==
  /\ moving # None
  /\ moving' = None
  /\ cue' = [cue EXCEPT ![moving] = "live"]
  /\ UNCHANGED <<rows, pc, due, ended, ghost, faults>>

\* promote, second half: EnqueueTask with the id and the key of the row.
Enqueue ==
  /\ moving # None
  /\ moving' = None
  /\ IF CueHas(work[moving])
     THEN skipped' = skipped \cup {moving} /\ UNCHANGED cue
     ELSE cue' = [cue EXCEPT ![moving] = "live"] /\ UNCHANGED skipped
  /\ UNCHANGED <<rows, pc, due, ended, byUser, lost, faults>>

\* EnqueueTask returns an error: a line in the log, and the row stays closed.
EnqueueFails ==
  /\ moving # None
  /\ Fault
  /\ moving' = None
  /\ lost' = lost \cup {moving}
  /\ \/ UNCHANGED cue
     \/ ~ CueHas(work[moving]) /\ cue' = [cue EXCEPT ![moving] = "live"]
  /\ UNCHANGED <<rows, pc, due, ended, byUser, skipped>>

\* Mutant: only a row the scheduler completed is re-armed.
RearmUnlessFailed(i) ==
  /\ pc = "scan" /\ moving = None /\ due = {} /\ i \in ended
  /\ ended' = ended \ {i}
  /\ IF pad[i] = "failed" \/ PadHas(work[i])
     THEN UNCHANGED rows
     ELSE \E new \in Fresh : Insert(new, work[i], TRUE, "later")
  /\ UNCHANGED <<cue, pc, due, moving, ghost, faults>>

\* rearm: a successor at the next occurrence, which is after the time the tick
\* started, unless the work is live already.  List puts the open rows first.
Rearm(i) ==
  /\ pc = "scan" /\ moving = None /\ due = {} /\ i \in ended
  /\ ended' = ended \ {i}
  /\ \/ PadHas(work[i]) /\ UNCHANGED rows
     \/ /\ ~ PadHas(work[i])
        /\ \E new \in Fresh : Insert(new, work[i], TRUE, "later")
  /\ UNCHANGED <<cue, pc, due, moving, ghost, faults>>

\* Add returns an error: the next tick tries again.
RearmFails(i) ==
  /\ pc = "scan" /\ moving = None /\ due = {} /\ i \in ended
  /\ Fault
  /\ ended' = ended \ {i}
  /\ UNCHANGED <<rows, cue, pc, due, moving, ghost>>

\* The bound on Ids is met: nothing can be inserted any more.
OutOfIds(i) ==
  /\ pc = "scan" /\ moving = None /\ due = {} /\ i \in ended
  /\ Fresh = {}
  /\ ended' = ended \ {i}
  /\ UNCHANGED <<rows, cue, pc, due, moving, ghost, faults>>

EndTick ==
  /\ pc = "scan" /\ due = {} /\ ended = {} /\ moving = None
  /\ pc' = "wait"
  /\ UNCHANGED <<rows, cue, due, ended, moving, ghost, faults>>

(***************************************************************************)
(* The rest of the world.                                                  *)
(***************************************************************************)
\* The run_at of a row is reached.
TimePasses(i) ==
  /\ runAt[i] = "later"
  /\ runAt' = [runAt EXCEPT ![i] = "due"]
  /\ UNCHANGED <<pad, work, cron, cue, tick, ghost, faults>>

\* The release loop is through with a task (CueRunner).
CueEnds(i) ==
  /\ cue[i] = "live"
  /\ cue' = [cue EXCEPT ![i] = "over"]
  /\ UNCHANGED <<rows, tick, ghost, faults>>

\* The process stops anywhere and starts again; the tables survive.
Restart ==
  /\ Fault
  /\ pc' = "wait" /\ due' = {} /\ ended' = {} /\ moving' = None
  /\ lost' = IF moving = None THEN lost ELSE lost \cup {moving}
  /\ UNCHANGED <<rows, cue, byUser, skipped>>

User ==
  \E i \in Ids :
    \/ \E w \in Works, repeats \in BOOLEAN, when \in {"never", "later"} :
         AddTask(i, w, repeats, when)
    \/ \E end \in {"completed", "failed"} : CloseTask(i, end)

Tick ==
  \/ StartTick
  \/ \E i \in Ids : Promote(i) \/ Rearm(i) \/ OutOfIds(i)
  \/ Enqueue
  \/ EndTick

Failures ==
  \/ \E i \in Ids : PromoteFails(i) \/ RearmFails(i)
  \/ EnqueueFails \/ Restart

World == \E i \in Ids : TimePasses(i) \/ CueEnds(i)

Next == User \/ Tick \/ Failures \/ World
Spec == Init /\ [][Next]_vars

\* The watcher's ticker keeps calling the scheduler, and the clock runs.
\* Nothing obliges the user to act or the cue to finish a task.
FairSpec ==
  Spec /\ WF_vars(Tick) /\ \A i \in Ids : WF_vars(TimePasses(i))
-----------------------------------------------------------------------------
TypeOK ==
  /\ pad \in [Ids -> {"none", "pending", "completed", "failed"}]
  /\ work \in [Ids -> Works \cup {None}]
  /\ cron \subseteq Ids
  /\ runAt \in [Ids -> {"never", "later", "due"}]
  /\ cue \in [Ids -> {"none", "live", "over"}]
  /\ pc \in {"wait", "scan"}
  /\ due \subseteq Ids /\ ended \subseteq Ids /\ moving \in Ids \cup {None}
  /\ byUser \subseteq Ids /\ lost \subseteq Ids /\ skipped \subseteq Ids
  /\ faults \in 0 .. MaxFaults

\* A row never lives twice: what is in the cue was due and is closed in the
\* scratchpad, and what the user closed first is not in the cue, although the
\* tick works from a list it read before the user acted.
OneLife ==
  \A i \in Ids : cue[i] # "none" =>
    pad[i] = "completed" /\ i \notin byUser /\ runAt[i] = "due"

\* A row the scheduler closed is in the cue, or on its way, unless a call
\* failed, the process stopped between the two statements, or the cue already
\* held the work.
NothingVanishes ==
  \A i \in Closed \ byUser :
    cue[i] # "none" \/ moving = i \/ i \in lost \cup skipped

\* No work is ever live twice in one of the tables.
NoTwins ==
  \A i, j \in Ids :
    /\ work[i] = work[j]
    /\ {i, j} \subseteq Pending \/ (cue[i] = "live" /\ cue[j] = "live")
    => i = j

\* A pending row whose time has come does not stay pending.
DueIsHandled ==
  \A i \in Ids : i \in Pending /\ runAt[i] = "due" ~> i \notin Pending

\* Work with a cron spec always comes back, however its last row was closed:
\* once a repeating row is closed there is an open row for the work in the end
\* (as long as the bound on Ids allows).
CronComesBack ==
  \A w \in Works :
    (\E i \in Closed \cap cron : work[i] = w) ~> (PadHas(w) \/ Fresh = {})

\* What plan/scratchpad.md says of a task with a cron spec: the scheduler
\* releases it into the cue.
CronFires ==
  \A i \in Ids : i \in Pending \cap cron ~> i \notin Pending
=============================================================================
