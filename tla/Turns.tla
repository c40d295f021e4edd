------------------------------- MODULE Turns -------------------------------
(***************************************************************************)
(* The dispatch queue of one conversation (concierge/queue.go) and the     *)
(* retry loop its worker runs (concierge/retry.go).  Callers send their    *)
(* utterance into a bounded channel and wait for a reply, or give up; one  *)
(* worker takes everything that has piled up, merges it into a single turn *)
(* and runs that turn until it succeeds, fails for good or runs out of     *)
(* patience.  The conversation is in a store that outlives the process.    *)
(***************************************************************************)
EXTENDS Naturals, Sequences

CONSTANTS
  Callers,      \* the calls of ConverseOn, one utterance each
  Medium,       \* caller -> "", "text" or "speech"
  Cap,          \* the capacity of the channel (64 in the code)
  MaxAttempts,  \* turnRetryMaxAttempts (30 in the code)
  MaxRestarts   \* bound: how often the process stops and starts again

ASSUME TurnsAssumption ==
  /\ Medium \in [Callers -> {"", "text", "speech"}]
  /\ Cap \in Nat \ {0} /\ MaxAttempts \in Nat \ {0} /\ MaxRestarts \in Nat

VARIABLES
  call,      \* caller -> where its call stands
  chan,      \* the channel
  pc,        \* where the worker stands
  batch,     \* the requests of the turn at hand, in order
  attempt,   \* the attempts of that turn, this one included
  outcome,   \* how the turn ended: "reply" or "error"
  toAnswer,  \* the requests the worker has not answered yet
  turn,      \* how many turns have begun
  store,     \* the conversation: the entries of the store, in order
  sent,      \* the requests in the order they entered the channel
  got,       \* caller -> the turn that answered it, 0 for none
  restarts

worker == <<pc, batch, attempt, outcome, toAnswer, turn>>
vars == <<call, chan, worker, store, sent, got, restarts>>

Elements(s) == {s[i] : i \in DOMAIN s}

Init ==
  /\ call = [c \in Callers |-> "none"]
  /\ chan = << >>
  /\ pc = "idle" /\ batch = << >> /\ attempt = 0 /\ outcome = "reply"
  /\ toAnswer = << >>
  /\ turn = 0
  /\ store = << >>
  /\ sent = << >>
  /\ got = [c \in Callers |-> 0]
  /\ restarts = 0

(***************************************************************************)
(* ConverseOn.                                                             *)
(***************************************************************************)
Converse(c) ==
  /\ call[c] = "none"
  /\ call' = [call EXCEPT ![c] = "sending"]
  /\ UNCHANGED <<chan, worker, store, sent, got, restarts>>

Send(c) ==
  /\ call[c] = "sending" /\ Len(chan) < Cap
  /\ call' = [call EXCEPT ![c] = "waiting"]
  /\ chan' = Append(chan, c)
  /\ sent' = Append(sent, c)
  /\ UNCHANGED <<worker, store, got, restarts>>

\* The caller's context ends: it hears nothing, but what it has sent is still
\* in the channel or in the turn.
GiveUp(c) ==
  /\ call[c] \in {"sending", "waiting"}
  /\ call' = [call EXCEPT ![c] = "gone"]
  /\ UNCHANGED <<chan, worker, store, sent, got, restarts>>

(***************************************************************************)
(* The worker: one turn at a time.                                         *)
(***************************************************************************)
Take ==
  /\ pc = "idle" /\ chan # << >>
  /\ pc' = "drain"
  /\ batch' = <<Head(chan)>> /\ chan' = Tail(chan)
  /\ UNCHANGED <<call, attempt, outcome, toAnswer, turn, store, sent, got,
                 restarts>>

\* Mutant: what piled up comes out last in, first out.
DrainBackwards ==
  /\ pc = "drain" /\ chan # << >>
  /\ batch' = <<Head(chan)>> \o batch /\ chan' = Tail(chan)
  /\ UNCHANGED <<call, pc, attempt, outcome, toAnswer, turn, store, sent, got,
                 restarts>>

\* Everything in the channel joins the turn.
Drain ==
  /\ pc = "drain" /\ chan # << >>
  /\ batch' = Append(batch, Head(chan)) /\ chan' = Tail(chan)
  /\ UNCHANGED <<call, pc, attempt, outcome, toAnswer, turn, store, sent, got,
                 restarts>>

BeginTurn ==
  /\ pc = "drain" /\ chan = << >>
  /\ pc' = "inject"
  /\ attempt' = 1 /\ turn' = turn + 1
  /\ UNCHANGED <<call, chan, batch, outcome, toAnswer, store, sent, got,
                 restarts>>

\* The last medium anyone named; only speech has a hint.
Hinted ==
  \E i \in DOMAIN batch :
    /\ Medium[batch[i]] = "speech"
    /\ \A j \in DOMAIN batch : j > i => Medium[batch[j]] = ""

Entry(from, msgs) ==
  [turn |-> turn, from |-> from, msgs |-> msgs,
   hint |-> from = "user" /\ Hinted]

\* Mutant: the merge keeps the first utterance only.
InjectFirst ==
  /\ pc = "inject"
  /\ pc' = "turn"
  /\ store' = Append(store, Entry("user", <<Head(batch)>>))
  /\ UNCHANGED <<call, chan, batch, attempt, outcome, toAnswer, turn, sent, got,
                 restarts>>

\* Every attempt adds the merged message to the conversation, again.
Inject ==
  /\ pc = "inject"
  /\ pc' = "turn"
  /\ store' = Append(store, Entry("user", batch))
  /\ UNCHANGED <<call, chan, batch, attempt, outcome, toAnswer, turn, sent, got,
                 restarts>>

EndTurn(how) ==
  /\ outcome' = how
  /\ pc' = "answer" /\ toAnswer' = batch

TurnSucceeds ==
  /\ pc = "turn"
  /\ store' = Append(store, Entry("assistant", << >>))
  /\ EndTurn("reply")
  /\ UNCHANGED <<call, chan, batch, attempt, turn, sent, got, restarts>>

\* Mutant: one attempt too many.
TransientErrorOnce ==
  /\ pc \in {"inject", "turn"}
  /\ attempt <= MaxAttempts
  /\ pc' = "backoff"
  /\ UNCHANGED <<call, chan, batch, attempt, outcome, toAnswer, turn, store,
                 sent, got, restarts>>

\* The store or the provider fails in a way that looks transient, and there is
\* patience left for another attempt.
TransientError ==
  /\ pc \in {"inject", "turn"}
  /\ attempt < MaxAttempts
  /\ pc' = "backoff"
  /\ UNCHANGED <<call, chan, batch, attempt, outcome, toAnswer, turn, store,
                 sent, got, restarts>>

\* Any other error, a context that has ended (an attempt's own deadline
\* included), the last attempt, or a budget that would not outlast the backoff.
TurnFails ==
  /\ pc \in {"inject", "turn", "backoff"}
  /\ EndTurn("error")
  /\ UNCHANGED <<call, chan, batch, attempt, turn, store, sent, got, restarts>>

Retry ==
  /\ pc = "backoff"
  /\ pc' = "inject" /\ attempt' = attempt + 1
  /\ UNCHANGED <<call, chan, batch, outcome, toAnswer, turn, store, sent, got,
                 restarts>>

\* Mutant: the turn answers whoever opened it.
AnswerFirst ==
  /\ pc = "answer" /\ toAnswer = batch
  /\ LET c == Head(toAnswer) IN
       IF call[c] = "waiting"
       THEN /\ call' = [call EXCEPT ![c] =
                          IF outcome = "reply" THEN "answered" ELSE "refused"]
            /\ got' = [got EXCEPT ![c] = turn]
       ELSE UNCHANGED <<call, got>>
  /\ toAnswer' = << >>
  /\ UNCHANGED <<chan, pc, batch, attempt, outcome, turn, store, sent, restarts>>

\* One caller after the other: the channel it waits on is buffered, so a caller
\* that has gone does not hold up the rest.
Answer ==
  /\ pc = "answer" /\ toAnswer # << >>
  /\ LET c == Head(toAnswer) IN
       IF call[c] = "waiting"
       THEN /\ call' = [call EXCEPT ![c] =
                          IF outcome = "reply" THEN "answered" ELSE "refused"]
            /\ got' = [got EXCEPT ![c] = turn]
       ELSE UNCHANGED <<call, got>>
  /\ toAnswer' = Tail(toAnswer)
  /\ UNCHANGED <<chan, pc, batch, attempt, outcome, turn, store, sent, restarts>>

Rest ==
  /\ pc = "answer" /\ toAnswer = << >>
  /\ pc' = "idle" /\ batch' = << >> /\ attempt' = 0
  /\ UNCHANGED <<call, chan, outcome, toAnswer, turn, store, sent, got, restarts>>

\* The process stops: connections, channel and turn are gone, the store is not.
Restart ==
  /\ restarts < MaxRestarts /\ restarts' = restarts + 1
  /\ call' = [c \in Callers |-> IF call[c] \in {"sending", "waiting"}
                                THEN "gone" ELSE call[c]]
  /\ chan' = << >>
  /\ pc' = "idle" /\ batch' = << >> /\ attempt' = 0 /\ toAnswer' = << >>
  /\ outcome' = "reply"
  /\ UNCHANGED <<turn, store, sent, got>>

Worker ==
  \/ Take \/ Drain \/ BeginTurn
  \/ Inject \/ TurnSucceeds \/ TransientError \/ TurnFails \/ Retry
  \/ Answer \/ Rest

Next ==
  \/ \E c \in Callers : Converse(c) \/ Send(c) \/ GiveUp(c)
  \/ Worker
  \/ Restart

Spec == Init /\ [][Next]_vars

\* The worker's goroutine runs, every attempt ends (turnTimeout), and a sender
\* with room ahead of it gets in.
FairSpec == Spec /\ WF_vars(Worker) /\ \A c \in Callers : WF_vars(Send(c))
-----------------------------------------------------------------------------
TypeOK ==
  /\ call \in [Callers -> {"none", "sending", "waiting", "answered", "refused",
                           "gone"}]
  /\ chan \in Seq(Callers) /\ Len(chan) <= Cap
  /\ pc \in {"idle", "drain", "inject", "turn", "backoff", "answer"}
  /\ batch \in Seq(Callers) /\ toAnswer \in Seq(Callers)
  /\ sent \in Seq(Callers)
  /\ attempt \in 0 .. MaxAttempts
  /\ outcome \in {"reply", "error"}
  /\ turn \in Nat /\ restarts \in 0 .. MaxRestarts
  /\ got \in [Callers -> 0 .. turn]
  /\ \A i \in DOMAIN store :
       store[i] \in [turn : 1 .. turn, from : {"user", "assistant"},
                     msgs : Seq(Callers), hint : BOOLEAN]

Before(s, x, y) == \E i, j \in DOMAIN s : i < j /\ s[i] = x /\ s[j] = y

\* The conversation reads in the order the utterances were sent: turns never
\* interleave, one that was sent first is never in a later turn, nor later in
\* the same turn, and the utterances of a turn are all in each of its attempts.
InOrder ==
  \A i, j \in DOMAIN store : i < j =>
    /\ store[i].turn <= store[j].turn
    /\ \A c \in Elements(store[i].msgs), d \in Elements(store[j].msgs) :
         \/ Before(sent, c, d)
         \/ store[i].turn = store[j].turn /\ store[i].msgs = store[j].msgs
    /\ \A c, d \in Elements(store[i].msgs) :
         Before(store[i].msgs, c, d) => Before(sent, c, d)

\* A caller that is answered is answered by the turn its own utterance was in:
\* the store has the utterance, and after it the reply the caller was given.
\* This holds whoever else was merged into the turn, gave up or was retried.
OwnReply ==
  \A c \in Callers : call[c] = "answered" =>
    \E i, j \in DOMAIN store :
      /\ i < j
      /\ store[i].turn = got[c] /\ store[j].turn = got[c]
      /\ c \in Elements(store[i].msgs)
      /\ store[j].from = "assistant"

\* What the comment in worker says: if anyone merged into the turn will hear the
\* reply, the turn asks for a speakable one.
Speakable ==
  \A i \in DOMAIN store :
    (\E c \in Elements(store[i].msgs) : Medium[c] = "speech") => store[i].hint

\* Every call ends: with the reply, with an error, or because its caller left.
\* In particular a full channel and a failing provider only delay it.
EveryCallEnds ==
  \A c \in Callers :
    call[c] \in {"sending", "waiting"} ~>
      call[c] \in {"answered", "refused", "gone"}
=============================================================================
