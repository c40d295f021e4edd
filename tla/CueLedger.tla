----------------------------- MODULE CueLedger -----------------------------
(***************************************************************************)
(* What the cue promises to whoever enqueues work, with no runner, no      *)
(* fleet and no failures: every task goes through its life once, starts    *)
(* only after the tasks it depends on are done and while there is room for *)
(* it, and never shares its dedupe key with another live task.             *)
(***************************************************************************)
EXTENDS CueGate

CONSTANTS
  DedupeKey,  \* task -> the identity of the work
  NoKey       \* the empty key, which opts out of deduplication

VARIABLE status  \* task -> "none" before it is enqueued, then its status

InStatus(S) == {t \in Tasks : status[t] \in S}
Live     == InStatus({"pending", "inflight"})
Inflight == InStatus({"inflight"})

SameWork(t, u) == DedupeKey[t] = DedupeKey[u] /\ DedupeKey[t] # NoKey

Move(t, from, to) ==
  /\ status[t] = from
  /\ status' = [status EXCEPT ![t] = to]

Accept(t) ==
  /\ \A u \in Live : ~ SameWork(t, u)
  /\ Move(t, "none", "pending")

Start(t) ==
  /\ Deps[t] \subseteq InStatus({"done"})
  /\ WithinCaps(Inflight \cup {t})
  /\ Move(t, "pending", "inflight")

Close(t) == \E end \in {"done", "failed"} : Move(t, "inflight", end)

Init == status = [t \in Tasks |-> "none"]
Next == \E t \in Tasks : Accept(t) \/ Start(t) \/ Close(t)
Spec == Init /\ [][Next]_status
=============================================================================
