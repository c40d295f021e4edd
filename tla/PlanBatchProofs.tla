-------------------------- MODULE PlanBatchProofs --------------------------
(***************************************************************************)
(* What becomes of a batch of proposed tasks, for any number of tasks, any *)
(* ids, any edges and any number of failed calls.                          *)
(***************************************************************************)
EXTENDS PlanBatch, FiniteSetTheorems, TLAPS

\* The edges while they are cut: what was proposed, then what the cleaning left
\* of it, until a cut makes them valid.  Each cut that was tried without making
\* them valid did not suffice.
CutInv ==
  /\ pc = "clean" => deps = proposed
  /\ pc = "check" => deps = Cleaned(proposed) /\ next = 1
  /\ pc = "relax" =>
       \/ Valid(deps)
       \/ /\ deps = Cleaned(proposed)
          /\ \A t \in 1 .. (next - 1) : ~ Valid(Without(deps, t))

\* A task has the dependencies that were proposed for it or none.
EdgesInv == \A t \in Batch : deps[t] \in {proposed[t], {}}

\* Every task the loop has passed is accounted for, and the loop ends past the
\* last task or, for the planner, at the one whose call failed.
Accounted(t) == t \in queued \cup held \cup failed \/ Namesake(t)

WorkInv ==
  /\ pc \in {"clean", "check"} => next = 1
  /\ pc = "enqueue" \/ pc = "end" =>
       \A t \in 1 .. (next - 1) : Accounted(t)
  /\ pc = "end" => next = size + 1 \/ (who = "planner" /\ next \in failed)

IInv == TypeOK /\ CutInv /\ EdgesInv /\ OneCutIsFound /\ WorkInv

\* Edges that are valid name no unknown task, so that cleaning leaves them.
LEMMA CleanedValid ==
  ASSUME NEW d \in [Batch -> SUBSET Ids], Valid(d) PROVE Cleaned(d) = d
BY DEF Valid, Cleaned

\* Cutting edges leaves functions from tasks to sets of ids.
LEMMA CutType ==
  ASSUME NEW d \in [Batch -> SUBSET Ids]
  PROVE  /\ Cleaned(d) \in [Batch -> SUBSET Ids]
         /\ \A t : Without(d, t) \in [Batch -> SUBSET Ids]
BY DEF Cleaned, Without

\* It holds before anything is cut.
LEMMA InitIInv == Init => IInv
<1> SUFFICES ASSUME Init PROVE IInv
  OBVIOUS
<1>1. TypeOK
  BY BatchAssumption, FS_EmptySet DEF Init, TypeOK, Batch
<1>2. CutInv /\ EdgesInv /\ OneCutIsFound /\ WorkInv
  BY DEF Init, CutInv, EdgesInv, OneCutIsFound, Enqueued, WorkInv
<1> QED
  BY <1>1, <1>2 DEF IInv

\* The variables keep their types.
LEMMA TypeStep == IInv /\ [Next]_vars => TypeOK'
<1> SUFFICES ASSUME IInv, [Next]_vars PROVE TypeOK'
  OBVIOUS
<1> USE BatchAssumption DEF IInv, TypeOK, Batch
<1>1. CASE Clean
  BY <1>1, CutType DEF Clean, input, loop
<1>2. CASE Check
  BY <1>2 DEF Check, input, loop
<1>3. CASE Relax
  <2> HIDE DEF Batch
  <2>1. deps' \in [Batch -> SUBSET Ids]
    BY <1>3, CutType DEF Relax
  <2>2. next' \in 1 .. size' + 1
    BY <1>3 DEF Relax, input
  <2> QED
    BY <1>3, <2>1, <2>2 DEF Relax, input, loop, Batch
<1>4. CASE Relaxed
  BY <1>4 DEF Relaxed, input, loop
<1>5. CASE Enqueue
  <2>1. next \in 1 .. size
    BY <1>5 DEF Enqueue
  <2>2. queued' \subseteq 1 .. size /\ held' \subseteq 1 .. size
    <3>1. CASE Namesake(next)
      BY <1>5, <3>1 DEF Enqueue
    <3>2. CASE ~ Namesake(next)
      BY <1>5, <2>1, <3>2 DEF Enqueue
    <3> QED
      BY <3>1, <3>2
  <2> QED
    BY <1>5, <2>1, <2>2 DEF Enqueue, input
<1>6. CASE EnqueueFails
  <2>1. next \in Batch /\ failed' = failed \cup {next}
        /\ Cardinality(failed) < MaxFaults
    BY <1>6 DEF EnqueueFails, Fault
  <2>2. IsFiniteSet(failed) /\ Cardinality(failed) \in Nat
    <3>1. IsFiniteSet(1 .. size)
      BY FS_Interval
    <3>2. IsFiniteSet(failed)
      BY <3>1, FS_Subset
    <3> QED
      BY <3>2, FS_CardinalityType
  <2>3. Cardinality(failed') <= MaxFaults
    <3>1. Cardinality(failed') \in {Cardinality(failed), Cardinality(failed) + 1}
      BY <2>1, <2>2, FS_AddElement
    <3> QED
      BY <2>1, <2>2, <3>1
  <2> QED
    BY <1>6, <2>1, <2>3 DEF EnqueueFails, input
<1>7. CASE End
  BY <1>7 DEF End, input, loop
<1>8. CASE UNCHANGED vars
  BY <1>8 DEF vars, input, loop
<1> QED
  BY <1>1, <1>2, <1>3, <1>4, <1>5, <1>6, <1>7, <1>8 DEF Next

\* No action changes the batch, so its ids and what validity means stay.
LEMMA InputStays == [Next]_vars => UNCHANGED input
BY DEF Next, vars, Clean, Check, Relax, Relaxed, Enqueue, EnqueueFails, End

\* Each task is tried in turn, and a cut that makes the edges valid is kept.
LEMMA CutStep ==
  IInv /\ [Next]_vars => CutInv' /\ EdgesInv' /\ OneCutIsFound'
<1> SUFFICES ASSUME IInv, [Next]_vars PROVE CutInv' /\ EdgesInv' /\ OneCutIsFound'
  OBVIOUS
<1>a. /\ size' = size /\ id' = id /\ proposed' = proposed /\ who' = who
      /\ Batch' = Batch /\ Names' = Names
  BY InputStays DEF input, Batch, Names
<1>b. /\ Valid(deps)' <=> Valid(deps')
      /\ Cleaned(proposed)' = Cleaned(proposed)
      /\ \A d, t : Without(d, t)' = Without(d, t)
      /\ \A d : Valid(d)' <=> Valid(d)
      /\ \A t : Valid(Without(deps, t))' <=> Valid(Without(deps', t))
      /\ \A t : Valid(Without(Cleaned(proposed), t))' <=> Valid(Without(Cleaned(proposed), t))
  BY <1>a DEF Valid, Acyclic, Cycle, Cleaned, Without
<1>c. /\ deps \in [Batch -> SUBSET Ids] /\ proposed \in [Batch -> SUBSET Ids]
      /\ next \in 1 .. size + 1 /\ size \in Nat
      /\ CutInv /\ EdgesInv /\ OneCutIsFound
  BY BatchAssumption DEF IInv, TypeOK
<1>1. CASE Clean
  <2>1. EdgesInv'
    BY <1>1, <1>a, <1>c DEF Clean, EdgesInv, Cleaned, CutInv
  <2>2. CutInv'
    BY <1>1, <1>a, <1>b, <1>c DEF Clean, CutInv, IInv, WorkInv
  <2>3. OneCutIsFound'
    BY <1>1, <1>a, <1>c DEF Clean, OneCutIsFound, Enqueued
  <2> QED
    BY <2>1, <2>2, <2>3
<1>2. CASE Check
  <2>1. EdgesInv'
    BY <1>2, <1>a, <1>c DEF Check, EdgesInv
  <2>2. CutInv'
    BY <1>2, <1>a, <1>b, <1>c DEF Check, CutInv
  <2>3. pc' = "enqueue" => Valid(deps)
    BY <1>2, <1>c, CleanedValid DEF Check, CutInv
  <2>4. OneCutIsFound'
    BY <1>2, <1>b, <2>3 DEF Check, OneCutIsFound, Enqueued
  <2> QED
    BY <2>1, <2>2, <2>4
<1>3. CASE Relax
  <2>1. EdgesInv'
    BY <1>3, <1>a, <1>c DEF Relax, EdgesInv, Without
  <2>2. CutInv'
    <3>1. CASE Valid(Without(deps, next))
      <4>1. deps' = Without(deps, next) /\ pc' = "relax"
        BY <1>3, <3>1 DEF Relax
      <4>2. Valid(deps')
        BY <3>1, <4>1
      <4>3. Valid(deps)'
        BY <1>b, <4>2
      <4> QED
        BY <4>1, <4>3 DEF CutInv
    <3>2. CASE ~ Valid(Without(deps, next))
      <4>1. deps' = deps /\ next' = next + 1 /\ pc' = "relax" /\ pc = "relax"
        BY <1>3, <3>2 DEF Relax
      <4>2. CASE Valid(deps)
        <5>1. Valid(deps')
          BY <4>1, <4>2
        <5>2. Valid(deps)'
          BY <1>b, <5>1
        <5> QED
          BY <4>1, <5>2 DEF CutInv
      <4>3. CASE ~ Valid(deps)
        <5>1. deps = Cleaned(proposed) /\ \A t \in 1 .. (next - 1) : ~ Valid(Without(deps, t))
          BY <1>c, <4>1, <4>3 DEF CutInv
        <5>2. \A t \in 1 .. (next' - 1) : t \in 1 .. (next - 1) \/ t = next
          BY <1>c, <4>1
        <5>3. \A t \in 1 .. (next' - 1) : ~ Valid(Without(deps', t))
          BY <3>2, <4>1, <5>1, <5>2
        <5> QED
          BY <1>b, <4>1, <5>1, <5>3 DEF CutInv
      <4> QED
        BY <4>2, <4>3
    <3> QED
      BY <3>1, <3>2
  <2>3. OneCutIsFound'
    BY <1>3 DEF Relax, OneCutIsFound, Enqueued
  <2> QED
    BY <2>1, <2>2, <2>3
<1>4. CASE Relaxed
  <2>1. EdgesInv' /\ CutInv'
    BY <1>4, <1>a, <1>c DEF Relaxed, EdgesInv, CutInv
  <2>2. Batch = 1 .. (next - 1)
    BY <1>4, <1>c DEF Relaxed, Batch
  <2>3. ASSUME NEW t \in Batch, Valid(Without(Cleaned(proposed), t)) PROVE Valid(deps)
    BY <1>4, <1>c, <2>2, <2>3 DEF Relaxed, CutInv
  <2>4. deps' = deps
    BY <1>4 DEF Relaxed
  <2>5. OneCutIsFound'
    BY <1>a, <1>b, <2>3, <2>4 DEF OneCutIsFound
  <2> QED
    BY <2>1, <2>5
<1>5. ASSUME UNCHANGED deps, Enqueued, pc' \in {"enqueue", "end"}
      PROVE  CutInv' /\ EdgesInv' /\ OneCutIsFound'
  BY <1>5, <1>a, <1>b, <1>c DEF CutInv, EdgesInv, OneCutIsFound, Enqueued
<1>6. CASE Enqueue
  BY <1>5, <1>6 DEF Enqueue, Enqueued
<1>7. CASE EnqueueFails
  BY <1>5, <1>7 DEF EnqueueFails, Enqueued
<1>8. CASE End
  BY <1>5, <1>8 DEF End, Enqueued
<1>9. CASE UNCHANGED vars
  BY <1>9, <1>a, <1>b, <1>c DEF vars, CutInv, EdgesInv, OneCutIsFound, Enqueued
<1> QED
  BY <1>1, <1>2, <1>3, <1>4, <1>6, <1>7, <1>8, <1>9 DEF Next

\* What is accounted for stays so.
LEMMA AccountedStays ==
  ASSUME NEW t, Accounted(t), id' = id,
         queued \subseteq queued', held \subseteq held', failed \subseteq failed'
  PROVE  Accounted(t)'
BY DEF Accounted, Namesake

\* What the loop over the batch has enqueued and lost.
LEMMA WorkStep == IInv /\ [Next]_vars => WorkInv'
<1> SUFFICES ASSUME IInv, [Next]_vars PROVE WorkInv'
  OBVIOUS
<1>a. /\ size' = size /\ who' = who /\ id' = id
      /\ who \in {"generator", "planner"}
  BY InputStays DEF input, IInv, TypeOK
<1>b. /\ next \in 1 .. size + 1 /\ size \in Nat \ {0}
      /\ WorkInv /\ pc \in {"clean", "check", "relax", "enqueue", "end"}
  BY BatchAssumption DEF IInv, TypeOK
<1>c. 1 .. (1 - 1) = {}
  OBVIOUS
<1>1. CASE Clean
  BY <1>1, <1>a, <1>b, <1>c DEF Clean, WorkInv
<1>2. CASE Check
  BY <1>2, <1>a, <1>b, <1>c DEF Check, WorkInv
<1>3. CASE Relax
  BY <1>3, <1>a, <1>b DEF Relax, WorkInv
<1>4. CASE Relaxed
  BY <1>4, <1>a, <1>b, <1>c DEF Relaxed, WorkInv
<1>5. ASSUME NEW n, n = next, Accounted(n)', pc = "enqueue", pc' = "enqueue",
             next' = next + 1, queued \subseteq queued', held \subseteq held',
             failed \subseteq failed'
      PROVE  WorkInv'
  <2>1. ASSUME NEW t \in 1 .. (next' - 1) PROVE Accounted(t)'
    <3>1. CASE t = n
      BY <1>5, <3>1
    <3>2. CASE t \in 1 .. (next - 1)
      BY <1>a, <1>b, <1>5, <3>2, AccountedStays DEF WorkInv
    <3> QED
      BY <1>b, <1>5, <3>1, <3>2
  <2> QED
    BY <1>5, <2>1 DEF WorkInv
<1>6. CASE Enqueue
  <2>1. /\ pc = "enqueue" /\ pc' = pc /\ next' = next + 1 /\ failed' = failed
        /\ queued \subseteq queued' /\ held \subseteq held'
        /\ Namesake(next) \/ next \in queued' \/ next \in held'
    BY <1>6 DEF Enqueue
  <2>2. ASSUME NEW n, n = next PROVE Accounted(n)'
    BY <1>a, <2>1, <2>2 DEF Accounted, Namesake
  <2> QED
    BY <1>5, <2>1, <2>2
<1>7. CASE EnqueueFails
  <2>1. /\ pc = "enqueue" /\ failed' = failed \cup {next}
        /\ queued' = queued /\ held' = held
    BY <1>7 DEF EnqueueFails, Fault
  <2>2. CASE who = "generator"
    <3>1. next' = next + 1 /\ pc' = "enqueue"
      BY <1>7, <2>1, <2>2 DEF EnqueueFails
    <3>2. ASSUME NEW n, n = next PROVE Accounted(n)'
      BY <2>1, <3>2 DEF Accounted
    <3> QED
      BY <1>5, <2>1, <3>1, <3>2
  <2>3. CASE who = "planner"
    <3>1. next' = next /\ pc' = "end"
      BY <1>7, <2>3 DEF EnqueueFails
    <3>2. ASSUME NEW t \in 1 .. (next - 1) PROVE Accounted(t)'
      BY <1>a, <1>b, <2>1, AccountedStays DEF WorkInv
    <3> QED
      BY <1>a, <2>1, <2>3, <3>1, <3>2 DEF WorkInv
  <2> QED
    BY <1>a, <2>2, <2>3
<1>8. ASSUME next' = next, UNCHANGED loop, pc' = pc \/ (pc = "enqueue" /\ pc' = "end"),
             pc' = "end" => pc = "end" \/ next = size + 1
      PROVE  WorkInv'
  <2>1. \A t : Accounted(t)' <=> Accounted(t)
    BY <1>a, <1>8 DEF loop, Accounted, Namesake
  <2> QED
    BY <1>a, <1>b, <1>8, <2>1 DEF loop, WorkInv
<1>9. CASE End
  BY <1>8, <1>9, <1>b DEF End
<1>10. CASE UNCHANGED vars
  BY <1>8, <1>10, <1>b DEF vars, WorkInv
<1> QED
  BY <1>1, <1>2, <1>3, <1>4, <1>6, <1>7, <1>9, <1>10 DEF Next

\* The invariant, in every reachable state.
LEMMA Invariant == Spec => []IInv
<1>1. IInv /\ [Next]_vars => IInv'
  BY TypeStep, CutStep, WorkStep DEF IInv
<1> QED
  BY <1>1, InitIInv, PTL DEF Spec

\* Every variable of the two proposers keeps its type: in particular the loop
\* over the batch stays within it (generateOnce, planDispatch).
THEOREM TypeCorrect == Spec => []TypeOK
<1>1. IInv => TypeOK
  BY DEF IInv
<1> QED
  BY <1>1, Invariant, PTL

\* Edges are lost whole: a task is enqueued with the dependencies that were
\* proposed for it or with none, whatever was cut on the way.
THEOREM EdgesWhole == Spec => []AllOrNone
<1>1. IInv => AllOrNone
  BY DEF IInv, EdgesInv, AllOrNone
<1> QED
  BY <1>1, Invariant, PTL

\* If cutting the edges of one task suffices, what is enqueued has no cycle,
\* for any batch: the first such task is found (the relaxing loops).
THEOREM CutFound == Spec => []OneCutIsFound
<1>1. IInv => OneCutIsFound
  BY DEF IInv
<1> QED
  BY <1>1, Invariant, PTL

\* A task that is not in the cue at the end was there before, or shares its id
\* with an earlier task of the batch, or fell to a failed call (the loops over
\* EnqueueTask).
THEOREM WorkAccountedFor == Spec => []WorkIsKept
<1>1. IInv => WorkIsKept
  <2> SUFFICES ASSUME IInv, pc = "end", NEW t \in Batch, t \notin queued
               PROVE  \/ t \in held \/ Namesake(t)
                      \/ t \in failed
                      \/ who = "planner" /\ \E u \in failed : u < t
    BY DEF WorkIsKept
  <2>1. /\ size \in Nat /\ next \in 1 .. size + 1 /\ t \in 1 .. size /\ WorkInv
    BY BatchAssumption DEF IInv, TypeOK, Batch
  <2>2. CASE t \in 1 .. (next - 1)
    BY <2>1, <2>2 DEF WorkInv, Accounted
  <2>3. CASE ~ t \in 1 .. (next - 1)
    <3>1. who = "planner" /\ next \in failed /\ (next < t \/ next = t)
      BY <2>1, <2>3 DEF WorkInv
    <3> QED
      BY <3>1
  <2> QED
    BY <2>2, <2>3
<1> QED
  BY <1>1, Invariant, PTL
=============================================================================
