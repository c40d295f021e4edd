----------------------------- MODULE PlanBatch -----------------------------
(***************************************************************************)
(* How a batch of proposed tasks becomes rows of the cue: the generator's  *)
(* tick (service/cuegen.go) and the plan_goal tool (concierge/plan.go).    *)
(* The model proposes tasks with dependency edges; the code checks that    *)
(* the edges name tasks of the batch and have no cycle (cue.ValidateDeps), *)
(* and where they do not it drops the dependencies of one task after the   *)
(* other.  Then it enqueues task by task, into a table that turns away a   *)
(* task whose id it has and one whose work it has a live row of, and says  *)
(* so with no error.                                                       *)
(***************************************************************************)
EXTENDS Naturals, FiniteSets

CONSTANTS
  Ids,        \* what the language model may use as the id of a task
  MaxTasks,   \* bound: tasks in a batch
  MaxFaults   \* bound: calls of EnqueueTask that fail

ASSUME BatchAssumption == MaxTasks \in Nat \ {0} /\ MaxFaults \in Nat

VARIABLES
  who,       \* "generator" or "planner"
  size,      \* how many tasks were proposed
  id,        \* task -> its id, which another task may have too
  proposed,  \* task -> the dependencies the model proposed
  deps,      \* task -> its dependencies now
  pc,        \* "clean", "check", "relax", "enqueue" or "end"
  next,      \* the task the current loop has reached
  queued,    \* the tasks EnqueueTask inserted
  held,      \* those it turned away for a row that is not the same id's of this
             \*   batch: an older row has the id, or a live one the dedupe key
  failed     \* those for which the call returned an error

input == <<who, size, id, proposed>>
loop == <<queued, held, failed>>
vars == <<input, deps, pc, next, loop>>

Batch == 1 .. size
Names == {id[t] : t \in Batch}

Init ==
  /\ who \in {"generator", "planner"}
  /\ size \in 1 .. MaxTasks
  /\ id \in [Batch -> Ids]
  /\ proposed \in [Batch -> SUBSET Ids]
  /\ deps = proposed
  /\ pc = "clean" /\ next = 1
  /\ queued = {} /\ held = {} /\ failed = {}

\* The tasks of C have a cycle among them if each has a dependency in C.
Cycle(C, d) == \A t \in C : \E u \in C : id[u] \in d[t]

Acyclic(d) == \A C \in SUBSET Batch \ {{}} : ~ Cycle(C, d)

\* ValidateDeps: no id twice, no unknown dependency, no cycle.
Valid(d) ==
  /\ Cardinality(Names) = size
  /\ \A t \in Batch : d[t] \subseteq Names
  /\ Acyclic(d)

Without(d, t) == [d EXCEPT ![t] = {}]

\* A task with any dependency that is not in the batch loses all of its own.
Cleaned(d) == [t \in Batch |-> IF d[t] \subseteq Names THEN d[t] ELSE {}]

\* Mutant: the unknown dependencies go, the known ones of the task stay.
CleanPartly ==
  /\ pc = "clean"
  /\ deps' = [t \in Batch |-> deps[t] \cap Names]
  /\ pc' = "check"
  /\ UNCHANGED <<input, next, loop>>

\* The generator does not look at the edges of a batch of one.
Clean ==
  /\ pc = "clean"
  /\ IF who = "generator" /\ size = 1
     THEN pc' = "enqueue" /\ UNCHANGED deps
     ELSE pc' = "check" /\ deps' = Cleaned(deps)
  /\ UNCHANGED <<input, next, loop>>

\* The planner validates the cleaned edges, the generator the proposed ones.
Check ==
  /\ pc = "check"
  /\ pc' = IF Valid(IF who = "planner" THEN deps ELSE proposed)
           THEN "enqueue" ELSE "relax"
  /\ UNCHANGED <<input, deps, next, loop>>

\* Mutant: the first task is not tried.
RelaxAllButFirst ==
  /\ pc = "relax" /\ next <= size
  /\ next' = next + 1
  /\ deps' = IF next > 1 /\ Valid(Without(deps, next))
             THEN Without(deps, next) ELSE deps
  /\ UNCHANGED <<input, pc, loop>>

\* Mutant: off by one.
RelaxPastEnd ==
  /\ pc = "relax" /\ next <= size + 1
  /\ next' = next + 1
  /\ deps' = IF Valid(Without(deps, next)) THEN Without(deps, next) ELSE deps
  /\ UNCHANGED <<input, pc, loop>>

\* One task's dependencies go if the rest is valid without them.
Relax ==
  /\ pc = "relax" /\ next <= size
  /\ next' = next + 1
  /\ deps' = IF Valid(Without(deps, next)) THEN Without(deps, next) ELSE deps
  /\ UNCHANGED <<input, pc, loop>>

Relaxed ==
  /\ pc = "relax" /\ next > size
  /\ pc' = "enqueue" /\ next' = 1
  /\ UNCHANGED <<input, deps, loop>>

\* ON CONFLICT (id) DO NOTHING: the second task of a batch that has an id is
\* dropped, whatever its work is.
Namesake(t) == \E u \in queued : u < t /\ id[u] = id[t]

Enqueue ==
  /\ pc = "enqueue" /\ next <= size
  /\ IF Namesake(next)
     THEN UNCHANGED <<queued, held>>
     ELSE \/ queued' = queued \cup {next} /\ UNCHANGED held
          \/ held' = held \cup {next} /\ UNCHANGED queued
  /\ next' = next + 1
  /\ UNCHANGED <<input, deps, pc, failed>>

Fault ==
  /\ Cardinality(failed) < MaxFaults
  /\ failed' = failed \cup {next}

\* Mutant: the first error ends the batch whoever enqueues.
EnqueueGivesUp ==
  /\ pc = "enqueue" /\ next <= size
  /\ Fault
  /\ pc' = "end" /\ UNCHANGED next
  /\ UNCHANGED <<input, deps, queued, held>>

\* The generator goes on with the next task, the planner reports the error.
EnqueueFails ==
  /\ pc = "enqueue" /\ next <= size
  /\ Fault
  /\ IF who = "generator"
     THEN next' = next + 1 /\ UNCHANGED pc
     ELSE pc' = "end" /\ UNCHANGED next
  /\ UNCHANGED <<input, deps, queued, held>>

End ==
  /\ pc = "enqueue" /\ next > size
  /\ pc' = "end"
  /\ UNCHANGED <<input, deps, next, loop>>

Next ==
  \/ Clean \/ Check \/ Relax \/ Relaxed
  \/ Enqueue \/ EnqueueFails \/ End

Spec == Init /\ [][Next]_vars
-----------------------------------------------------------------------------
TypeOK ==
  /\ who \in {"generator", "planner"}
  /\ size \in 1 .. MaxTasks
  /\ id \in [Batch -> Ids]
  /\ proposed \in [Batch -> SUBSET Ids] /\ deps \in [Batch -> SUBSET Ids]
  /\ pc \in {"clean", "check", "relax", "enqueue", "end"}
  /\ next \in 1 .. size + 1
  /\ queued \subseteq Batch /\ held \subseteq Batch /\ failed \subseteq Batch
  /\ Cardinality(failed) <= MaxFaults

Enqueued == pc \in {"enqueue", "end"}

\* The code's edges are never mixed with others: a task is enqueued with the
\* dependencies that were proposed for it or with none, never with a part of
\* them, which would let it start on half of what it waits for.
AllOrNone ==
  Enqueued => \A t \in Batch : deps[t] \in {proposed[t], {}}

\* Where dropping the dependencies of one task is enough, the graph that is
\* enqueued has no cycle: none of its tasks waits for itself.
OneCutIsFound ==
  /\ Enqueued /\ size > 1
  /\ \E t \in Batch : Valid(Without(Cleaned(proposed), t))
  => Valid(deps)

\* A proposed task that is not in the cue at the end was turned away because
\* the cue had its id or its work before, or an earlier task of the batch had
\* its id, or its call failed, or it comes after the call that failed and the
\* planner stopped at: no other task is lost, with its dependencies or without.
WorkIsKept ==
  pc = "end" =>
    \A t \in Batch \ queued :
      \/ t \in held \/ Namesake(t)
      \/ t \in failed
      \/ who = "planner" /\ \E u \in failed : u < t

\* What the generator's comment and plan/goal-plans.md say: only bad edges are
\* lost.  A task that names no unknown task and lies on no cycle keeps its own.
Waits(S) == {u \in Batch : \E t \in S : id[u] \in proposed[t]}

OnCycle(t) ==
  \A R \in SUBSET Batch : Waits({t} \cup R) \subseteq R => t \in R

OnBadEdge(t) == ~ proposed[t] \subseteq Names \/ OnCycle(t)

OnlyBadEdgesLost ==
  Enqueued /\ Cardinality(Names) = size =>
    \A t \in Batch : ~ OnBadEdge(t) => deps[t] = proposed[t]
=============================================================================
