---------------------------- MODULE TurnsProofs ----------------------------
(***************************************************************************)
(* The order of one conversation, and that an answer is the caller's own,  *)
(* for any number of callers, any channel, any number of attempts and      *)
(* restarts.                                                               *)
(***************************************************************************)
EXTENDS Turns, TLAPS

Statuses == {"none", "sending", "waiting", "answered", "refused", "gone"}
Phases == {"idle", "drain", "inject", "turn", "backoff", "answer"}
Entries == [turn : Nat, from : {"user", "assistant"}, msgs : Seq(Callers),
            hint : BOOLEAN]

CallTypes ==
  call \in [Callers -> Statuses] /\ got \in [Callers -> 0 .. turn]

SeqTypes ==
  /\ chan \in Seq(Callers) /\ Len(chan) <= Cap
  /\ batch \in Seq(Callers) /\ toAnswer \in Seq(Callers)
  /\ sent \in Seq(Callers)

Scalars ==
  /\ pc \in Phases /\ attempt \in 0 .. MaxAttempts
  /\ outcome \in {"reply", "error"}
  /\ turn \in Nat /\ restarts \in 0 .. MaxRestarts

StoreTypes ==
  /\ store \in Seq(Entries)
  /\ \A i \in 1 .. Len(store) : store[i].turn \in 1 .. turn

Types == CallTypes /\ SeqTypes /\ Scalars /\ StoreTypes

\* A turn is under way, and its number is taken.
Running == pc \in {"inject", "turn", "backoff", "answer"}

\* How many of the utterances that were sent are neither in the channel nor in
\* the turn at hand.
Past == Len(sent) - Len(batch) - Len(chan)

\* What was sent last is in the turn, then in the channel, in order.
FlowInv ==
  /\ Past \in Nat
  /\ \A k \in 1 .. Len(batch) : batch[k] = sent[Past + k]
  /\ \A k \in 1 .. Len(chan) : chan[k] = sent[Past + Len(batch) + k]
  /\ pc = "idle" => batch = << >>
  /\ Running => turn >= 1
  /\ pc = "backoff" => attempt < MaxAttempts

\* The entries of the turn at hand have its utterances; what is in the others was
\* sent before them.
Current(i) == Running /\ store[i].turn = turn

StoreInv ==
  \A i \in 1 .. Len(store) :
    /\ Current(i) => store[i].msgs = batch \/ store[i].msgs = << >>
    /\ ~ Current(i) =>
         \A c \in Elements(store[i].msgs) : \E p \in 1 .. Past : sent[p] = c

\* The turn at hand has put its utterances down, and its reply if it has one.
ReplyInv ==
  /\ pc = "answer" =>
       \A c \in Elements(toAnswer) : c \in Elements(batch)
  /\ pc = "turn" =>
       \E i \in 1 .. Len(store) : store[i].turn = turn /\ store[i].msgs = batch
  /\ pc = "answer" /\ outcome = "reply" =>
       \E i, j \in 1 .. Len(store) :
         /\ i < j /\ store[i].turn = turn /\ store[i].msgs = batch
         /\ store[j].turn = turn /\ store[j].from = "assistant"

\* The utterances of an entry are in the order in which they were sent.
MsgsInv ==
  \A i \in 1 .. Len(store) : \A c, d \in Elements(store[i].msgs) :
    Before(store[i].msgs, c, d) => Before(sent, c, d)

IInv ==
  /\ Types /\ FlowInv /\ StoreInv /\ MsgsInv
  /\ InOrder /\ ReplyInv /\ OwnReply

\* What is assumed of the numbers.
LEMMA Numbers ==
  Cap \in Nat \ {0} /\ MaxAttempts \in Nat \ {0} /\ MaxRestarts \in Nat
BY TurnsAssumption, Zenon

\* The types, with the domains of the sequences written out.
LEMMA TypesImplyTypeOK == Types => TypeOK
<1> SUFFICES ASSUME Types PROVE TypeOK
  OBVIOUS
<1>1. ASSUME NEW i \in DOMAIN store
      PROVE  store[i] \in [turn : 1 .. turn, from : {"user", "assistant"},
                           msgs : Seq(Callers), hint : BOOLEAN]
  <2>1. store[i] \in Entries /\ store[i].turn \in 1 .. turn
    BY DEF Types, StoreTypes
  <2> QED
    BY <2>1 DEF Entries
<1> QED
  BY <1>1 DEF Types, CallTypes, SeqTypes, Scalars, TypeOK, Statuses, Phases

\* Nothing has been sent in the beginning.
LEMMA InitIInv == Init => IInv
<1> SUFFICES ASSUME Init PROVE IInv
  OBVIOUS
<1>a. << >> \in Seq(Callers) /\ << >> \in Seq(Entries) /\ Len(<< >>) = 0
  OBVIOUS
<1>1. Types
  <2>a. /\ call = [c \in Callers |-> "none"] /\ got = [c \in Callers |-> 0] /\ turn = 0
        /\ chan = << >> /\ batch = << >> /\ toAnswer = << >> /\ sent = << >>
    BY DEF Init
  <2>1. CallTypes
    <3>1. call \in [Callers -> Statuses]
      BY <2>a DEF Statuses
    <3>2. got \in [Callers -> 0 .. turn]
      BY <2>a
    <3> QED
      BY <3>1, <3>2 DEF CallTypes
  <2>2. SeqTypes
    <3>1. 0 <= Cap
      BY Numbers
    <3> QED
      BY <1>a, <2>a, <3>1, Zenon DEF SeqTypes
  <2>3. Scalars
    BY Numbers DEF Init, Scalars, Phases
  <2>4. StoreTypes
    BY <1>a DEF Init, StoreTypes
  <2> QED
    BY <2>1, <2>2, <2>3, <2>4 DEF Types
<1>2. FlowInv
  BY <1>a DEF Init, FlowInv, Past, Running
<1>3. StoreInv /\ MsgsInv /\ InOrder /\ ReplyInv /\ OwnReply
  BY <1>a DEF Init, StoreInv, MsgsInv, InOrder, ReplyInv, OwnReply
<1> QED
  BY <1>1, <1>2, <1>3 DEF IInv

\* An entry that is added to the store is an entry.
LEMMA EntryType ==
  ASSUME turn \in Nat, NEW from \in {"user", "assistant"}, NEW msgs \in Seq(Callers)
  PROVE  /\ Entry(from, msgs) \in Entries
         /\ Entry(from, msgs).turn = turn /\ Entry(from, msgs).msgs = msgs
         /\ Entry(from, msgs).from = from
<1> DEFINE hint == from = "user" /\ Hinted
<1>1. hint \in BOOLEAN
  OBVIOUS
<1>2. Entry(from, msgs) = [turn |-> turn, from |-> from, msgs |-> msgs, hint |-> hint]
  BY DEF Entry
<1> HIDE DEF hint
<1> QED
  BY <1>1, <1>2 DEF Entries

\* What a sequence looks like after an append.
LEMMA Appended ==
  ASSUME NEW S, NEW s \in Seq(S), NEW x \in S
  PROVE  /\ Append(s, x) \in Seq(S) /\ Len(Append(s, x)) = Len(s) + 1
         /\ \A i \in 1 .. Len(s) : Append(s, x)[i] = s[i]
         /\ Append(s, x)[Len(s) + 1] = x
OBVIOUS

\* And a sequence without its head.
LEMMA Tailed ==
  ASSUME NEW S, NEW s \in Seq(S), s # << >>
  PROVE  /\ Head(s) \in S /\ Tail(s) \in Seq(S) /\ Head(s) = s[1]
         /\ Len(s) \in Nat \ {0} /\ Len(Tail(s)) = Len(s) - 1
         /\ \A i \in 1 .. Len(Tail(s)) : Tail(s)[i] = s[i + 1]
OBVIOUS

\* The callers.
LEMMA CallStep == Types /\ [Next]_vars => CallTypes'
<1> SUFFICES ASSUME Types, [Next]_vars PROVE CallTypes'
  OBVIOUS
<1>a. CallTypes /\ turn \in Nat
  BY DEF Types, Scalars
<1> USE <1>a DEF CallTypes
<1>1. CASE UNCHANGED <<call, got, turn>>
  BY <1>1
<1>2. ASSUME NEW c \in Callers, Converse(c) \/ Send(c) \/ GiveUp(c) PROVE CallTypes'
  BY <1>2 DEF Converse, Send, GiveUp, worker, Statuses
<1>3. CASE BeginTurn
  <2>1. turn' = turn + 1 /\ call' = call /\ got' = got
    BY <1>3 DEF BeginTurn
  <2> QED
    BY <2>1
<1>4. CASE Answer
  <2>1. toAnswer # << >> /\ toAnswer \in Seq(Callers)
    BY <1>4 DEF Answer, Types, SeqTypes
  <2>2. Head(toAnswer) \in Callers
    BY <2>1, Tailed
  <2>3. PICK c \in Callers : c = Head(toAnswer)
    BY <2>2
  <2>4. turn' = turn /\ \/ call' = call /\ got' = got
                        \/ /\ call' = [call EXCEPT ![c] =
                                         IF outcome = "reply" THEN "answered" ELSE "refused"]
                           /\ got' = [got EXCEPT ![c] = turn]
    BY <1>4, <2>3 DEF Answer
  <2> QED
    BY <2>4 DEF Statuses
<1>5. CASE Restart
  BY <1>5 DEF Restart, Statuses
<1> QED
  BY <1>1, <1>2, <1>3, <1>4, <1>5
     DEF Next, Worker, vars, worker, Take, Drain, Inject, TurnSucceeds, TransientError,
         TurnFails, EndTurn, Retry, Rest

\* The channel and the worker's sequences.
LEMMA SeqStep == Types /\ [Next]_vars => SeqTypes'
<1> SUFFICES ASSUME Types, [Next]_vars PROVE SeqTypes'
  OBVIOUS
<1>a. SeqTypes /\ << >> \in Seq(Callers) /\ Len(<< >>) = 0 /\ Cap \in Nat \ {0}
  <2>1. SeqTypes
    BY DEF Types
  <2>2. << >> \in Seq(Callers) /\ Len(<< >>) = 0
    OBVIOUS
  <2>3. Cap \in Nat \ {0}
    BY Numbers
  <2> QED
    BY <2>1, <2>2, <2>3
<1> USE <1>a DEF SeqTypes
<1>1. CASE UNCHANGED <<chan, batch, toAnswer, sent>>
  BY <1>1
<1>2. ASSUME NEW c \in Callers, Send(c) PROVE SeqTypes'
  BY <1>2, Appended DEF Send, worker
<1>3. CASE Take \/ Drain
  <2>1. chan # << >>
    BY <1>3 DEF Take, Drain
  <2>2. /\ Head(chan) \in Callers /\ Tail(chan) \in Seq(Callers)
        /\ Len(Tail(chan)) = Len(chan) - 1 /\ Len(chan) \in Nat
    BY <2>1, Tailed
  <2>3. <<Head(chan)>> \in Seq(Callers) /\ Append(batch, Head(chan)) \in Seq(Callers)
    BY <2>2
  <2> QED
    <3>1. chan' = Tail(chan) /\ toAnswer' = toAnswer /\ sent' = sent
      BY <1>3 DEF Take, Drain
    <3>2. batch' = <<Head(chan)>> \/ batch' = Append(batch, Head(chan))
      BY <1>3 DEF Take, Drain
    <3>3. Len(chan') <= Cap
      BY <2>2, <3>1
    <3> QED
      BY <2>2, <2>3, <3>1, <3>2, <3>3
<1>4. CASE TurnSucceeds \/ TurnFails
  BY <1>4 DEF TurnSucceeds, TurnFails, EndTurn
<1>5. CASE Answer
  <2>1. Tail(toAnswer) \in Seq(Callers)
    BY <1>5, Tailed DEF Answer
  <2> QED
    BY <1>5, <2>1 DEF Answer
<1>6. CASE Rest \/ Restart
  <2>1. /\ chan' \in {chan, << >>} /\ batch' = << >> /\ toAnswer' \in {toAnswer, << >>}
        /\ sent' = sent
    BY <1>6 DEF Rest, Restart
  <2>2. 0 <= Cap
    OBVIOUS
  <2>3. CASE chan' = chan
    BY <2>1, <2>3
  <2>4. CASE chan' = << >>
    BY <2>1, <2>2, <2>4, Zenon
  <2> QED
    BY <2>1, <2>3, <2>4
<1> QED
  BY <1>1, <1>2, <1>3, <1>4, <1>5, <1>6
     DEF Next, Worker, vars, worker, Converse, GiveUp, BeginTurn, Inject, TransientError,
         Retry

\* The worker's place, the attempts, the turns and the restarts.
LEMMA ScalarStep == Types /\ FlowInv /\ [Next]_vars => Scalars'
<1> SUFFICES ASSUME Types, FlowInv, [Next]_vars PROVE Scalars'
  OBVIOUS
<1>a. Scalars /\ (pc = "backoff" => attempt < MaxAttempts)
  BY DEF Types, FlowInv
<1> USE <1>a, Numbers DEF Scalars, Phases
<1>1. ASSUME UNCHANGED <<attempt, outcome, turn, restarts>>, pc' \in Phases PROVE Scalars'
  BY <1>1
<1>2. ASSUME NEW c \in Callers, Converse(c) \/ Send(c) \/ GiveUp(c) PROVE Scalars'
  BY <1>1, <1>2 DEF Converse, Send, GiveUp, worker
<1>3. CASE Take \/ Drain \/ Inject \/ TransientError \/ Answer
  <2>1. UNCHANGED <<attempt, outcome, turn, restarts>> /\ pc' \in Phases
    BY <1>3, Zenon DEF Take, Drain, Inject, TransientError, Answer, Scalars, Phases
  <2> QED
    BY <1>1, <2>1
<1>4. CASE BeginTurn
  <2>1. pc' = "inject" /\ attempt' = 1 /\ turn' = turn + 1 /\ UNCHANGED <<outcome, restarts>>
    BY <1>4 DEF BeginTurn
  <2> QED
    BY <2>1
<1>5. CASE TurnSucceeds \/ TurnFails
  <2>1. /\ pc' = "answer" /\ outcome' \in {"reply", "error"}
        /\ UNCHANGED <<attempt, turn, restarts>>
    BY <1>5 DEF TurnSucceeds, TurnFails, EndTurn
  <2> QED
    BY <2>1
<1>6. CASE Retry
  <2>1. /\ pc = "backoff" /\ pc' = "inject" /\ attempt' = attempt + 1
        /\ UNCHANGED <<outcome, turn, restarts>>
    BY <1>6 DEF Retry
  <2> QED
    BY <2>1
<1>7. CASE Rest
  <2>1. pc' = "idle" /\ attempt' = 0 /\ UNCHANGED <<outcome, turn, restarts>>
    BY <1>7 DEF Rest
  <2> QED
    BY <2>1
<1>8. CASE Restart
  <2>1. /\ pc' = "idle" /\ attempt' = 0 /\ outcome' = "reply" /\ turn' = turn
        /\ restarts < MaxRestarts /\ restarts' = restarts + 1
    BY <1>8 DEF Restart
  <2> QED
    BY <2>1
<1>9. CASE UNCHANGED vars
  BY <1>1, <1>9 DEF vars, worker
<1> QED
  BY <1>2, <1>3, <1>4, <1>5, <1>6, <1>7, <1>8, <1>9 DEF Next, Worker

\* What an entry that is added leaves of the store.
LEMMA StoreAppended ==
  ASSUME StoreTypes, turn \in Nat \ {0}, NEW from \in {"user", "assistant"},
         NEW msgs \in Seq(Callers), store' = Append(store, Entry(from, msgs)),
         turn' = turn
  PROVE  /\ StoreTypes'
         /\ Len(store) \in Nat /\ Len(store') = Len(store) + 1
         /\ \A i \in 1 .. Len(store) : store'[i] = store[i]
         /\ store'[Len(store')].turn = turn /\ store'[Len(store')].msgs = msgs
         /\ store'[Len(store')].from = from
<1> DEFINE e == Entry(from, msgs)
<1>1. e \in Entries /\ e.turn = turn /\ e.msgs = msgs /\ e.from = from
  BY EntryType
<1> HIDE DEF e
<1>2. /\ store' \in Seq(Entries) /\ Len(store') = Len(store) + 1
      /\ \A i \in 1 .. Len(store) : store'[i] = store[i]
      /\ store'[Len(store) + 1] = e
  BY <1>1, Appended DEF StoreTypes, e
<1>3. Len(store) \in Nat
  BY DEF StoreTypes
<1>4. ASSUME NEW i \in 1 .. Len(store') PROVE store'[i].turn \in 1 .. turn'
  <2>1. i \in 1 .. Len(store) \/ i = Len(store) + 1
    BY <1>2, <1>3
  <2> QED
    BY <1>1, <1>2, <2>1 DEF StoreTypes
<1> QED
  BY <1>1, <1>2, <1>3, <1>4 DEF StoreTypes

\* The store.
LEMMA StoreStep == Types /\ FlowInv /\ [Next]_vars => StoreTypes'
<1> SUFFICES ASSUME Types, FlowInv, [Next]_vars PROVE StoreTypes'
  OBVIOUS
<1>a. StoreTypes /\ turn \in Nat /\ batch \in Seq(Callers) /\ << >> \in Seq(Callers)
  BY DEF Types, SeqTypes, Scalars
<1>1. CASE UNCHANGED <<store, turn>>
  BY <1>1, <1>a DEF StoreTypes
<1>2. CASE BeginTurn
  <2>1. turn' = turn + 1 /\ store' = store
    BY <1>2 DEF BeginTurn
  <2>2. 1 .. turn \subseteq 1 .. turn'
    BY <1>a, <2>1
  <2> QED
    BY <1>a, <2>1, <2>2 DEF StoreTypes
<1>3. CASE Inject
  <2>1. turn \in Nat \ {0} /\ turn' = turn /\ store' = Append(store, Entry("user", batch))
    BY <1>3, <1>a DEF Inject, FlowInv, Running
  <2> QED
    BY <1>a, <2>1, StoreAppended
<1>4. CASE TurnSucceeds
  <2>1. /\ turn \in Nat \ {0} /\ turn' = turn
        /\ store' = Append(store, Entry("assistant", << >>))
    BY <1>4, <1>a DEF TurnSucceeds, FlowInv, Running
  <2> QED
    BY <1>a, <2>1, StoreAppended
<1> QED
  BY <1>1, <1>2, <1>3, <1>4
     DEF Next, Worker, vars, worker, Converse, Send, GiveUp, Take, Drain, TransientError,
         TurnFails, Retry, Answer, Rest, Restart

\* The types are kept.
LEMMA TypesStep == Types /\ FlowInv /\ [Next]_vars => Types'
BY CallStep, SeqStep, ScalarStep, StoreStep DEF Types

\* What has been sent stays, in its place.
LEMMA SentGrows ==
  ASSUME Types, [Next]_vars
  PROVE  /\ Len(sent) \in Nat /\ Len(sent') \in Nat /\ Len(sent) <= Len(sent')
         /\ \A p \in 1 .. Len(sent) : sent'[p] = sent[p]
         /\ \A c, d : Before(sent, c, d) => Before(sent', c, d)
<1>1. sent \in Seq(Callers)
  BY DEF Types, SeqTypes
<1>2. sent' = sent \/ \E c \in Callers : sent' = Append(sent, c)
  BY DEF Next, Worker, vars, worker, Converse, Send, GiveUp, Take, Drain, BeginTurn,
         Inject, TransientError, TurnSucceeds, TurnFails, EndTurn, Retry, Answer, Rest,
         Restart
<1>3. /\ Len(sent) \in Nat /\ Len(sent') \in Nat /\ Len(sent) <= Len(sent')
      /\ \A p \in 1 .. Len(sent) : sent'[p] = sent[p]
      /\ sent' \in Seq(Callers)
  BY <1>1, <1>2
<1>4. ASSUME NEW c, NEW d, Before(sent, c, d) PROVE Before(sent', c, d)
  <2>1. PICK i, j \in 1 .. Len(sent) : i < j /\ sent[i] = c /\ sent[j] = d
    BY <1>1, <1>4 DEF Before
  <2>2. i \in DOMAIN sent' /\ j \in DOMAIN sent'
    BY <1>3
  <2> QED
    BY <1>3, <2>1, <2>2 DEF Before
<1> QED
  BY <1>3, <1>4

\* The utterances move from the channel into the turn and from there into the
\* past, and never overtake each other.
LEMMA FlowStep ==
  Types /\ FlowInv /\ [Next]_vars => FlowInv' /\ Past' >= Past
<1> SUFFICES ASSUME Types, FlowInv, [Next]_vars PROVE FlowInv' /\ Past' >= Past
  OBVIOUS
<1> DEFINE Goal == FlowInv' /\ Past' >= Past
<1>a. /\ sent \in Seq(Callers) /\ batch \in Seq(Callers) /\ chan \in Seq(Callers)
      /\ Len(sent) \in Nat /\ Len(batch) \in Nat /\ Len(chan) \in Nat
      /\ turn \in Nat /\ attempt \in Nat
  BY Numbers DEF Types, SeqTypes, Scalars
<1>b. Past \in Nat /\ Past + Len(batch) + Len(chan) = Len(sent)
  BY <1>a DEF FlowInv, Past
<1>1. ASSUME UNCHANGED <<chan, batch, sent>>, pc' = "idle" => pc = "idle",
             Running' => turn' >= 1, pc' = "backoff" => attempt' < MaxAttempts
      PROVE  Goal
  <2>1. Past' = Past
    BY <1>1 DEF Past
  <2> QED
    BY <1>1, <1>b, <2>1 DEF FlowInv
<1>2. ASSUME NEW c \in Callers, Converse(c) \/ GiveUp(c) PROVE Goal
  BY <1>1, <1>2 DEF Converse, GiveUp, worker, Running, FlowInv
<1>3. ASSUME NEW c \in Callers, Send(c) PROVE Goal
  <2>1. /\ chan' = Append(chan, c) /\ sent' = Append(sent, c) /\ UNCHANGED worker
    BY <1>3 DEF Send
  <2>2. /\ Len(chan') = Len(chan) + 1 /\ Len(sent') = Len(sent) + 1
        /\ batch' = batch /\ pc' = pc /\ attempt' = attempt /\ turn' = turn
        /\ chan'[Len(chan) + 1] = c /\ sent'[Len(sent) + 1] = c
        /\ \A k \in 1 .. Len(chan) : chan'[k] = chan[k]
        /\ \A k \in 1 .. Len(sent) : sent'[k] = sent[k]
    BY <1>a, <2>1 DEF worker
  <2>3. Past' = Past
    BY <1>a, <2>2 DEF Past
  <2>4. ASSUME NEW k \in 1 .. Len(batch') PROVE batch'[k] = sent'[Past' + k]
    <3>1. Past + k \in 1 .. Len(sent) /\ k \in 1 .. Len(batch)
      BY <1>a, <1>b, <2>2
    <3> QED
      BY <2>2, <2>3, <3>1 DEF FlowInv
  <2>5. ASSUME NEW k \in 1 .. Len(chan') PROVE chan'[k] = sent'[Past' + Len(batch') + k]
    <3>1. CASE k \in 1 .. Len(chan)
      <4>1. Past + Len(batch) + k \in 1 .. Len(sent)
        BY <1>a, <1>b, <3>1
      <4> QED
        BY <2>2, <2>3, <3>1, <4>1 DEF FlowInv
    <3>2. CASE k = Len(chan) + 1
      BY <1>a, <1>b, <2>2, <2>3, <3>2
    <3> QED
      BY <1>a, <2>2, <3>1, <3>2
  <2>6. Past' \in Nat /\ Past' >= Past
    BY <1>b, <2>3
  <2>7. /\ pc' = "idle" => batch' = << >>
        /\ Running' => turn' >= 1
        /\ pc' = "backoff" => attempt' < MaxAttempts
    BY <2>2 DEF FlowInv, Running
  <2> QED
    BY <2>4, <2>5, <2>6, <2>7 DEF FlowInv
<1>4. CASE Take \/ Drain
  <2>1. chan # << >> /\ chan' = Tail(chan) /\ sent' = sent /\ pc' = "drain"
    BY <1>4 DEF Take, Drain
  <2>2. /\ Head(chan) \in Callers /\ Head(chan) = chan[1]
        /\ Len(chan) \in Nat \ {0} /\ Len(chan') = Len(chan) - 1
        /\ \A k \in 1 .. Len(chan') : chan'[k] = chan[k + 1]
    BY <1>a, <2>1, Tailed
  <2>3. batch' = Append(batch, Head(chan))
    <3>1. CASE Take
      <4>1. batch = << >> /\ batch' = <<Head(chan)>>
        BY <3>1 DEF Take, FlowInv
      <4> QED
        BY <4>1
    <3> QED
      BY <1>4, <3>1 DEF Drain
  <2>4. /\ Len(batch') = Len(batch) + 1 /\ batch'[Len(batch) + 1] = Head(chan)
        /\ \A k \in 1 .. Len(batch) : batch'[k] = batch[k]
    BY <1>a, <2>2, <2>3, Appended
  <2>5. Past' = Past
    BY <1>a, <2>1, <2>2, <2>4 DEF Past
  <2>6. chan[1] = sent[Past + Len(batch) + 1]
    BY <1>a, <2>2 DEF FlowInv
  <2>7. ASSUME NEW k \in 1 .. Len(batch') PROVE batch'[k] = sent'[Past' + k]
    <3>1. CASE k \in 1 .. Len(batch)
      BY <2>1, <2>4, <2>5, <3>1 DEF FlowInv
    <3>2. CASE k = Len(batch) + 1
      BY <1>a, <1>b, <2>1, <2>2, <2>4, <2>5, <2>6, <3>2
    <3> QED
      BY <1>a, <2>4, <3>1, <3>2
  <2>8. ASSUME NEW k \in 1 .. Len(chan') PROVE chan'[k] = sent'[Past' + Len(batch') + k]
    <3>1. k + 1 \in 1 .. Len(chan) /\ Past + Len(batch) + (k + 1) = Past' + Len(batch') + k
      BY <1>a, <1>b, <2>2, <2>4, <2>5
    <3>2. chan[k + 1] = sent[Past + Len(batch) + (k + 1)]
      BY <3>1 DEF FlowInv
    <3> QED
      BY <2>1, <2>2, <3>1, <3>2
  <2> QED
    BY <1>b, <2>1, <2>5, <2>7, <2>8 DEF FlowInv, Running
<1>5. CASE BeginTurn
  <2>1. turn' >= 1
    BY <1>5, <1>a DEF BeginTurn
  <2> QED
    BY <1>1, <1>5, <2>1 DEF BeginTurn
<1>6. CASE Inject \/ TurnSucceeds \/ TransientError \/ TurnFails \/ Retry \/ Answer
  BY <1>1, <1>6
     DEF Inject, TurnSucceeds, TransientError, TurnFails, EndTurn, Retry, Answer, Running,
         FlowInv
<1>7. CASE Rest \/ Restart
  <2>1. /\ batch' = << >> /\ sent' = sent /\ pc' = "idle"
        /\ chan' = chan \/ chan' = << >>
    BY <1>7 DEF Rest, Restart
  <2>2. Len(batch') = 0 /\ (chan' = << >> => Len(chan') = 0)
    BY <2>1
  <2>3. Past' \in Nat /\ Past' >= Past
    BY <1>a, <1>b, <2>1, <2>2 DEF Past
  <2>4. chan' = chan => Past' = Past + Len(batch)
    BY <1>a, <2>1, <2>2 DEF Past
  <2>5. ASSUME NEW k \in 1 .. Len(chan') PROVE chan'[k] = sent'[Past' + Len(batch') + k]
    <3>1. chan' = chan
      BY <2>1, <2>2
    <3>2. Past' + Len(batch') + k = Past + Len(batch) + k
      BY <1>a, <1>b, <2>2, <2>4, <3>1
    <3> QED
      BY <2>1, <3>1, <3>2 DEF FlowInv
  <2> QED
    BY <2>1, <2>2, <2>3, <2>5 DEF FlowInv, Running
<1>8. CASE UNCHANGED vars
  BY <1>1, <1>8 DEF vars, worker, Running, FlowInv
<1> QED
  BY <1>2, <1>3, <1>4, <1>5, <1>6, <1>7, <1>8 DEF Next, Worker

\* The entries that were in the store stay, and at most one joins them.
LEMMA StoreGrows ==
  ASSUME IInv, [Next]_vars
  PROVE  /\ Len(store) \in Nat /\ Len(store') \in Nat
         /\ \A i \in 1 .. Len(store) : i \in 1 .. Len(store') /\ store'[i] = store[i]
         /\ \/ store' = store
            \/ /\ Len(store') = Len(store) + 1 /\ Running /\ Running'
               /\ UNCHANGED <<turn, batch, chan, sent, call, got>>
               /\ store'[Len(store')].turn = turn
               /\ \/ store'[Len(store')].msgs = batch
                  \/ store'[Len(store')].msgs = << >>
<1>a. StoreTypes /\ batch \in Seq(Callers) /\ << >> \in Seq(Callers) /\ turn \in Nat
  BY DEF IInv, Types, SeqTypes, Scalars
<1>b. Len(store) \in Nat
  BY <1>a DEF StoreTypes
<1>1. CASE store' = store
  BY <1>b, <1>1
<1>2. CASE Inject
  <2>1. /\ store' = Append(store, Entry("user", batch)) /\ Running /\ Running'
        /\ UNCHANGED <<turn, batch, chan, sent, call, got>>
    BY <1>2 DEF Inject, Running
  <2>2. turn \in Nat \ {0}
    BY <1>a, <2>1 DEF IInv, FlowInv
  <2>3. /\ Len(store') = Len(store) + 1
        /\ \A i \in 1 .. Len(store) : store'[i] = store[i]
        /\ store'[Len(store')].turn = turn /\ store'[Len(store')].msgs = batch
    BY <1>a, <2>1, <2>2, StoreAppended
  <2> QED
    BY <1>b, <2>1, <2>3
<1>3. CASE TurnSucceeds
  <2>1. /\ store' = Append(store, Entry("assistant", << >>)) /\ Running /\ Running'
        /\ UNCHANGED <<turn, batch, chan, sent, call, got>>
    BY <1>3 DEF TurnSucceeds, EndTurn, Running
  <2>2. turn \in Nat \ {0}
    BY <1>a, <2>1 DEF IInv, FlowInv
  <2>3. /\ Len(store') = Len(store) + 1
        /\ \A i \in 1 .. Len(store) : store'[i] = store[i]
        /\ store'[Len(store')].turn = turn /\ store'[Len(store')].msgs = << >>
    BY <1>a, <2>1, <2>2, StoreAppended
  <2> QED
    BY <1>b, <2>1, <2>3
<1> QED
  BY <1>1, <1>2, <1>3
     DEF Next, Worker, vars, worker, Converse, Send, GiveUp, Take, Drain, BeginTurn,
         TransientError, TurnFails, Retry, Answer, Rest, Restart

\* A turn under way keeps its number and its utterances, and ends by coming to
\* rest; a turn that begins takes a new number.
LEMMA TurnMoves ==
  ASSUME Types, FlowInv, [Next]_vars
  PROVE  \/ Running /\ Running' /\ turn' = turn /\ batch' = batch
         \/ ~ Running /\ ~ Running' /\ turn' = turn
         \/ ~ Running /\ Running' /\ turn' = turn + 1
         \/ Running /\ ~ Running' /\ turn' = turn /\ Past' >= Past + Len(batch)
<1>1. CASE Rest \/ Restart
  <2>1. /\ Len(sent) \in Nat /\ Len(batch) \in Nat /\ Len(chan) \in Nat
        /\ Past = Len(sent) - Len(batch) - Len(chan)
    BY DEF Types, SeqTypes, Past
  <2>2. /\ batch' = << >> /\ sent' = sent /\ ~ Running' /\ turn' = turn
        /\ chan' = chan \/ chan' = << >>
    BY <1>1 DEF Rest, Restart, Running
  <2>3. Len(batch') = 0 /\ (chan' = << >> => Len(chan') = 0)
    BY <2>2
  <2>4. Past' = Len(sent') - Len(batch') - Len(chan')
    BY DEF Past
  <2>5. Len(chan') \in Nat /\ Len(chan') <= Len(chan)
    BY <2>1, <2>2, <2>3
  <2>6. Past' >= Past + Len(batch)
    BY <2>1, <2>2, <2>3, <2>4, <2>5
  <2> QED
    BY <2>2, <2>6
<1>2. CASE UNCHANGED vars
  BY <1>2 DEF vars, worker, Running
<1> QED
  BY <1>1, <1>2
     DEF Next, Worker, worker, Running, Converse, Send, GiveUp, Take, Drain, BeginTurn,
         Inject, TurnSucceeds, TransientError, TurnFails, EndTurn, Retry, Answer

\* What an entry of an earlier turn has was sent before the turn at hand.
LEMMA StoreInvStep == IInv /\ [Next]_vars => StoreInv'
<1> SUFFICES ASSUME IInv, [Next]_vars, NEW i \in 1 .. Len(store')
             PROVE  /\ Current(i)' => store'[i].msgs = batch' \/ store'[i].msgs = << >>
                    /\ ~ Current(i)' => \A c \in Elements(store'[i].msgs) :
                                          \E p \in 1 .. Past' : sent'[p] = c
  BY DEF StoreInv
<1>a. Types /\ FlowInv /\ StoreInv
  BY DEF IInv
<1>b. /\ Past \in Nat /\ Past' \in Nat /\ Past <= Past' /\ turn \in Nat
      /\ Len(sent) \in Nat /\ Len(batch) \in Nat /\ Len(chan) \in Nat
      /\ Past + Len(batch) + Len(chan) = Len(sent)
  <2>1. Past \in Nat /\ Past' \in Nat /\ Past' >= Past
    BY <1>a, FlowStep DEF FlowInv
  <2>2. turn \in Nat /\ Len(sent) \in Nat /\ Len(batch) \in Nat /\ Len(chan) \in Nat
    BY <1>a DEF Types, Scalars, SeqTypes
  <2> QED
    BY <2>1, <2>2 DEF Past
<1>c. \A p \in 1 .. Len(sent) : sent'[p] = sent[p]
  BY <1>a, SentGrows
<1>1. CASE i \notin 1 .. Len(store)
  <2>1. /\ i = Len(store') /\ Running' /\ UNCHANGED <<turn, batch>>
        /\ store'[i].turn = turn
        /\ store'[i].msgs = batch \/ store'[i].msgs = << >>
    BY <1>1, StoreGrows
  <2> QED
    BY <2>1 DEF Current
<1>2. CASE i \in 1 .. Len(store)
  <2>1. store'[i] = store[i] /\ store[i].turn \in 1 .. turn
    BY <1>2, <1>a, StoreGrows DEF Types, StoreTypes
  <2>2. CASE ~ Current(i)
    <3>1. \A c \in Elements(store[i].msgs) : \E p \in 1 .. Past : sent[p] = c
      BY <1>2, <1>a, <2>2 DEF StoreInv
    <3>2. \A p \in 1 .. Past : p \in 1 .. Past' /\ sent'[p] = sent[p]
      BY <1>b, <1>c
    <3>3. ~ Current(i)'
      BY <1>a, <1>b, <2>1, <2>2, TurnMoves DEF Current
    <3> QED
      BY <2>1, <3>1, <3>2, <3>3
  <2>3. CASE Current(i)
    <3>1. store[i].msgs = batch \/ store[i].msgs = << >>
      BY <1>2, <1>a, <2>3 DEF StoreInv
    <3>2. CASE Running'
      BY <1>a, <2>1, <2>3, <3>1, <3>2, TurnMoves DEF Current
    <3>3. CASE ~ Running'
      <4>1. Past' >= Past + Len(batch)
        BY <1>a, <2>3, <3>3, TurnMoves DEF Current
      <4>2. ASSUME NEW c \in Elements(store[i].msgs)
            PROVE  \E p \in 1 .. Past' : sent'[p] = c
        <5>1. store[i].msgs = batch
          BY <3>1, <4>2 DEF Elements
        <5>2. PICK k \in 1 .. Len(batch) : batch[k] = c
          BY <4>2, <5>1, <1>a DEF Elements, Types, SeqTypes
        <5>3. c = sent[Past + k]
          BY <1>a, <5>2 DEF FlowInv
        <5>4. Past + k \in 1 .. Past' /\ Past + k \in 1 .. Len(sent)
          BY <1>b, <4>1
        <5> QED
          BY <1>c, <5>3, <5>4
      <4>3. ~ Current(i)'
        BY <3>3 DEF Current
      <4> QED
        BY <2>1, <4>2, <4>3
    <3> QED
      BY <3>2, <3>3
  <2> QED
    BY <2>2, <2>3
<1> QED
  BY <1>1, <1>2

\* What is in the turn at hand is in the order in which it was sent.
LEMMA BatchOrder ==
  ASSUME Types, FlowInv, NEW c, NEW d, Before(batch, c, d)
  PROVE  Before(sent, c, d)
<1>1. /\ batch \in Seq(Callers) /\ sent \in Seq(Callers)
      /\ Len(batch) \in Nat /\ Len(sent) \in Nat /\ Len(chan) \in Nat
  BY DEF Types, SeqTypes
<1>2. PICK i, j \in 1 .. Len(batch) : i < j /\ batch[i] = c /\ batch[j] = d
  BY <1>1 DEF Before
<1>3. Past \in Nat /\ Past + Len(batch) + Len(chan) = Len(sent)
  BY <1>1 DEF FlowInv, Past
<1>4. sent[Past + i] = c /\ sent[Past + j] = d
  BY <1>2 DEF FlowInv
<1>5. Past + i \in DOMAIN sent /\ Past + j \in DOMAIN sent /\ Past + i < Past + j
  BY <1>1, <1>2, <1>3
<1> QED
  BY <1>4, <1>5 DEF Before

\* Each entry is in order.
LEMMA MsgsStep == IInv /\ [Next]_vars => MsgsInv'
<1> SUFFICES ASSUME IInv, [Next]_vars, NEW i \in 1 .. Len(store'),
                    NEW c \in Elements(store'[i].msgs), NEW d \in Elements(store'[i].msgs),
                    Before(store'[i].msgs, c, d)
             PROVE  Before(sent', c, d)
  BY DEF MsgsInv, Before
<1>a. Types /\ FlowInv /\ MsgsInv
  BY DEF IInv
<1>1. Before(sent, c, d) => Before(sent', c, d)
  BY <1>a, SentGrows
<1>2. CASE i \in 1 .. Len(store)
  <2>1. store'[i] = store[i]
    BY <1>2, StoreGrows
  <2> QED
    BY <1>1, <1>2, <1>a, <2>1 DEF MsgsInv
<1>3. CASE i \notin 1 .. Len(store)
  <2>1. store'[i].msgs = batch \/ store'[i].msgs = << >>
    BY <1>3, StoreGrows
  <2>2. store'[i].msgs = batch
    BY <2>1 DEF Elements
  <2> QED
    BY <1>1, <1>a, <2>2, BatchOrder
<1> QED
  BY <1>2, <1>3

\* And so is the conversation.
LEMMA OrderStep == IInv /\ [Next]_vars => InOrder'
<1> SUFFICES ASSUME IInv, [Next]_vars PROVE InOrder'
  OBVIOUS
<1>e. DOMAIN store' = 1 .. Len(store')
  BY StoreStep DEF IInv, StoreTypes
<1> SUFFICES ASSUME NEW i \in 1 .. Len(store'), NEW j \in 1 .. Len(store'), i < j
             PROVE  /\ store'[i].turn <= store'[j].turn
                    /\ \A c \in Elements(store'[i].msgs), d \in Elements(store'[j].msgs) :
                         \/ Before(sent', c, d)
                         \/ /\ store'[i].turn = store'[j].turn
                            /\ store'[i].msgs = store'[j].msgs
                    /\ \A c, d \in Elements(store'[i].msgs) :
                         Before(store'[i].msgs, c, d) => Before(sent', c, d)
  BY <1>e, Zenon DEF InOrder
<1>a. Types /\ FlowInv /\ StoreInv /\ InOrder
  BY DEF IInv
<1>b. \A c, d : Before(sent, c, d) => Before(sent', c, d)
  BY <1>a, SentGrows
<1>c. \A c, d \in Elements(store'[i].msgs) :
        Before(store'[i].msgs, c, d) => Before(sent', c, d)
  BY MsgsStep DEF MsgsInv, Before
<1>d. /\ Len(store) \in Nat /\ Len(store') \in Nat
      /\ DOMAIN store = 1 .. Len(store)
  BY <1>a, StoreGrows DEF Types, StoreTypes
<1>1. CASE j \in 1 .. Len(store)
  <2>1. i \in 1 .. Len(store)
    BY <1>1, <1>d
  <2>2. store'[i] = store[i] /\ store'[j] = store[j]
    BY <1>1, <2>1, StoreGrows
  <2>3. i \in DOMAIN store /\ j \in DOMAIN store
    BY <1>1, <1>d, <2>1
  <2>4. /\ store[i].turn <= store[j].turn
        /\ \A c \in Elements(store[i].msgs), d \in Elements(store[j].msgs) :
             \/ Before(sent, c, d)
             \/ store[i].turn = store[j].turn /\ store[i].msgs = store[j].msgs
    BY <1>a, <2>3 DEF InOrder
  <2> QED
    BY <1>b, <1>c, <2>2, <2>4
<1>2. CASE j \notin 1 .. Len(store)
  <2>1. /\ j = Len(store') /\ Len(store') = Len(store) + 1 /\ Running
        /\ store'[j].turn = turn
        /\ store'[j].msgs = batch \/ store'[j].msgs = << >>
    BY <1>2, StoreGrows
  <2>2. i \in 1 .. Len(store) /\ store'[i] = store[i]
    BY <1>d, <2>1, StoreGrows
  <2>3. store[i].turn \in 1 .. turn /\ turn \in Nat
    BY <1>a, <2>2 DEF Types, StoreTypes, Scalars
  <2>4. ASSUME NEW c \in Elements(store[i].msgs), NEW d \in Elements(store'[j].msgs)
        PROVE  \/ Before(sent, c, d)
               \/ store[i].turn = turn /\ store[i].msgs = store'[j].msgs
    <3>1. store'[j].msgs = batch
      BY <2>1, <2>4 DEF Elements
    <3>2. CASE Current(i)
      <4>1. store[i].turn = turn /\ (store[i].msgs = batch \/ store[i].msgs = << >>)
        BY <1>a, <2>2, <3>2 DEF StoreInv, Current
      <4>2. store[i].msgs # << >>
        BY <2>4 DEF Elements
      <4> QED
        BY <3>1, <4>1, <4>2
    <3>3. CASE ~ Current(i)
      <4>1. PICK p \in 1 .. Past : sent[p] = c
        BY <1>a, <2>2, <2>4, <3>3 DEF StoreInv
      <4>2. PICK k \in 1 .. Len(batch) : batch[k] = d
        BY <1>a, <2>4, <3>1 DEF Elements, Types, SeqTypes
      <4>3. sent[Past + k] = d
        BY <1>a, <4>2 DEF FlowInv
      <4>4. /\ Past \in Nat /\ Len(sent) \in Nat /\ Len(batch) \in Nat /\ Len(chan) \in Nat
            /\ DOMAIN sent = 1 .. Len(sent)
            /\ Past + Len(batch) + Len(chan) = Len(sent)
        BY <1>a DEF FlowInv, Types, SeqTypes, Past
      <4>5. p \in DOMAIN sent /\ Past + k \in DOMAIN sent /\ p < Past + k
        BY <4>4
      <4> QED
        BY <4>1, <4>3, <4>5 DEF Before
    <3> QED
      BY <3>2, <3>3
  <2> QED
    BY <1>b, <1>c, <2>1, <2>2, <2>3, <2>4
<1> QED
  BY <1>1, <1>2

\* The turn at hand has put down what it has to answer for.
LEMMA ReplyStep == IInv /\ [Next]_vars => ReplyInv'
<1> SUFFICES ASSUME IInv, [Next]_vars PROVE ReplyInv'
  OBVIOUS
<1>a. ReplyInv /\ Types /\ FlowInv
  BY DEF IInv
<1>b. /\ StoreTypes /\ batch \in Seq(Callers) /\ << >> \in Seq(Callers) /\ turn \in Nat
      /\ toAnswer \in Seq(Callers)
  BY <1>a DEF Types, SeqTypes, Scalars
<1>1. CASE UNCHANGED <<pc, batch, turn, store, outcome, toAnswer>>
  BY <1>1, <1>a DEF ReplyInv
<1>2. CASE pc' \notin {"turn", "answer"}
  BY <1>2 DEF ReplyInv
<1>3. CASE Inject
  <2>1. /\ store' = Append(store, Entry("user", batch)) /\ pc' = "turn"
        /\ turn' = turn /\ batch' = batch /\ turn >= 1
    BY <1>3, <1>a DEF Inject, FlowInv, Running
  <2>2. /\ Len(store') = Len(store) + 1 /\ Len(store) \in Nat
        /\ store'[Len(store')].turn = turn /\ store'[Len(store')].msgs = batch
    BY <1>b, <2>1, StoreAppended
  <2>3. Len(store') \in 1 .. Len(store')
    BY <2>2
  <2> QED
    BY <2>1, <2>2, <2>3 DEF ReplyInv
<1>4. CASE TurnSucceeds
  <2>1. /\ store' = Append(store, Entry("assistant", << >>)) /\ pc' = "answer" /\ pc = "turn"
        /\ turn' = turn /\ batch' = batch /\ turn >= 1 /\ toAnswer' = batch
    BY <1>4, <1>a DEF TurnSucceeds, EndTurn, FlowInv, Running
  <2>2. /\ Len(store') = Len(store) + 1 /\ Len(store) \in Nat
        /\ \A i \in 1 .. Len(store) : store'[i] = store[i]
        /\ store'[Len(store')].turn = turn /\ store'[Len(store')].from = "assistant"
    <3>1. turn \in Nat \ {0}
      BY <1>b, <2>1
    <3> QED
      BY <1>b, <2>1, <3>1, StoreAppended
  <2>3. PICK i \in 1 .. Len(store) : store[i].turn = turn /\ store[i].msgs = batch
    BY <1>a, <2>1 DEF ReplyInv
  <2>4. /\ i \in 1 .. Len(store') /\ Len(store') \in 1 .. Len(store')
        /\ i < Len(store') /\ store'[i] = store[i]
    BY <2>2
  <2> QED
    BY <2>1, <2>2, <2>3, <2>4 DEF ReplyInv
<1>5. CASE TurnFails
  BY <1>5 DEF TurnFails, EndTurn, ReplyInv
<1>6. CASE Answer
  <2>1. /\ UNCHANGED <<pc, batch, turn, store, outcome>> /\ pc = "answer"
        /\ toAnswer # << >> /\ toAnswer' = Tail(toAnswer)
    BY <1>6 DEF Answer
  <2>2. ASSUME NEW c \in Elements(toAnswer') PROVE c \in Elements(toAnswer)
    <3>1. /\ toAnswer' \in Seq(Callers) /\ Len(toAnswer) \in Nat
          /\ Len(toAnswer') = Len(toAnswer) - 1
          /\ \A k \in 1 .. Len(toAnswer') : toAnswer'[k] = toAnswer[k + 1]
      BY <1>b, <2>1, Tailed
    <3>2. PICK k \in 1 .. Len(toAnswer') : toAnswer'[k] = c
      BY <2>2, <3>1 DEF Elements
    <3>3. k + 1 \in DOMAIN toAnswer
      BY <1>b, <3>1
    <3> QED
      BY <3>1, <3>2, <3>3 DEF Elements
  <2> QED
    BY <1>a, <2>1, <2>2 DEF ReplyInv
<1> QED
  BY <1>1, <1>2, <1>3, <1>4, <1>5, <1>6
     DEF Next, Worker, vars, worker, Converse, Send, GiveUp, Take, Drain, BeginTurn,
         TransientError, Retry, Rest, Restart

\* Whoever is answered is answered by the turn that has its utterance.
LEMMA OwnStep == IInv /\ [Next]_vars => OwnReply'
<1> SUFFICES ASSUME IInv, [Next]_vars, NEW c \in Callers, call'[c] = "answered"
             PROVE  \E i, j \in DOMAIN store' :
                      /\ i < j
                      /\ store'[i].turn = got'[c] /\ store'[j].turn = got'[c]
                      /\ c \in Elements(store'[i].msgs)
                      /\ store'[j].from = "assistant"
  BY DEF OwnReply
<1>a. Types /\ FlowInv /\ ReplyInv /\ OwnReply
  BY DEF IInv
<1>b. DOMAIN store = 1 .. Len(store) /\ DOMAIN store' = 1 .. Len(store')
  BY <1>a, StoreStep DEF Types, StoreTypes
<1>c. \A i \in 1 .. Len(store) : i \in 1 .. Len(store') /\ store'[i] = store[i]
  BY StoreGrows
<1>1. CASE call[c] = "answered" /\ got'[c] = got[c]
  <2>1. PICK i, j \in DOMAIN store :
          /\ i < j
          /\ store[i].turn = got[c] /\ store[j].turn = got[c]
          /\ c \in Elements(store[i].msgs)
          /\ store[j].from = "assistant"
    BY <1>a, <1>1 DEF OwnReply
  <2> QED
    BY <1>1, <1>b, <1>c, <2>1
<1>2. CASE Answer
  <2>1. toAnswer # << >> /\ pc = "answer"
    BY <1>2 DEF Answer
  <2>2. CASE call[c] = "waiting"
    <3>1. c = Head(toAnswer) /\ outcome = "reply" /\ got'[c] = turn /\ store' = store
      BY <1>2, <1>a, <2>2 DEF Answer, Types, CallTypes
    <3>2. c \in Elements(toAnswer)
      <4>1. toAnswer \in Seq(Callers)
        BY <1>a DEF Types, SeqTypes
      <4>2. c = toAnswer[1] /\ Len(toAnswer) \in Nat \ {0}
        BY <2>1, <3>1, <4>1, Tailed
      <4>3. 1 \in DOMAIN toAnswer
        BY <4>1, <4>2
      <4> QED
        BY <4>2, <4>3 DEF Elements
    <3>3. c \in Elements(batch)
      BY <1>a, <2>1, <3>2 DEF ReplyInv
    <3>4. PICK i, j \in 1 .. Len(store) :
            /\ i < j /\ store[i].turn = turn /\ store[i].msgs = batch
            /\ store[j].turn = turn /\ store[j].from = "assistant"
      BY <1>a, <2>1, <3>1 DEF ReplyInv
    <3> QED
      BY <1>b, <3>1, <3>3, <3>4
  <2>3. CASE call[c] # "waiting"
    <3>1. call[c] = "answered" /\ got'[c] = got[c]
      BY <1>2, <1>a, <2>3 DEF Answer, Types, CallTypes
    <3> QED
      BY <1>1, <3>1
  <2> QED
    BY <2>2, <2>3
<1>3. CASE ~ Answer
  <2>1. got' = got
    BY <1>3 DEF Next, Worker, vars, worker, Converse, Send, GiveUp, Take, Drain, BeginTurn,
                Inject, TurnSucceeds, TransientError, TurnFails, Retry, Rest, Restart
  <2>2. call' = call \/ \E d \in Callers : Converse(d) \/ Send(d) \/ GiveUp(d) \/ Restart
    BY <1>3 DEF Next, Worker, vars, worker, Take, Drain, BeginTurn,
                Inject, TurnSucceeds, TransientError, TurnFails, Retry, Rest
  <2>3. call[c] = "answered"
    BY <1>a, <2>2 DEF Converse, Send, GiveUp, Restart, Types, CallTypes
  <2> QED
    BY <1>1, <2>1, <2>3
<1> QED
  BY <1>2, <1>3

\* The invariant, in every reachable state.
LEMMA Invariant == Spec => []IInv
<1>1. IInv /\ [Next]_vars => IInv'
  BY TypesStep, FlowStep, StoreInvStep, MsgsStep, OrderStep, ReplyStep, OwnStep DEF IInv
<1> QED
  BY <1>1, InitIInv, PTL DEF Spec

\* Every variable keeps its type: the channel is never overfull, no turn has more
\* attempts than it may, and every entry of the store is of a turn that began.
THEOREM TypeCorrect == Spec => []TypeOK
<1>1. IInv => TypeOK
  BY TypesImplyTypeOK DEF IInv
<1> QED
  BY <1>1, Invariant, PTL

\* The conversation reads in the order the utterances were sent, for any number
\* of callers, whatever is merged, retried or lost in a restart.
THEOREM OrderKept == Spec => []InOrder
<1>1. IInv => InOrder
  BY DEF IInv
<1> QED
  BY <1>1, Invariant, PTL

\* A caller is answered by the turn its own utterance was in.
THEOREM AnsweredByOwnTurn == Spec => []OwnReply
<1>1. IInv => OwnReply
  BY DEF IInv
<1> QED
  BY <1>1, Invariant, PTL
=============================================================================
