-------------------------- MODULE ClaudePaneProofs --------------------------
(***************************************************************************)
(* Proofs that the keys of an answer go into the question it was given to  *)
(* and mean in its menu what the answer says, that a question on the       *)
(* screen is seen, and that nothing but the keys of a menu is typed, for   *)
(* any script, any answers and any number of requests, watchers and        *)
(* messages.                                                               *)
(***************************************************************************)
EXTENDS ClaudePane, SequenceLemmas

\* What the readers and the menu are made of.
Fields == {"pc", "acting", "req", "file", "form", "keys", "on", "got"}
IsReader(a) == a = [f \in Fields |-> a[f]]
IsMenu(m) == m = [n |-> m.n, tab |-> m.tab, picked |-> m.picked]

Shape ==
  /\ act = [r \in Readers |-> act[r]]
  /\ \A r \in Readers : IsReader(act[r])
  /\ IsMenu(menu)

\* The menu asks the newest question, while Claude waits for its answer; the
\* payload, if there is one, is the newest too.
NewestInv ==
  /\ menu.n # 0 => menu.n = asked /\ turn = "asking"
  /\ hook # 0 => installed /\ hook = asked

\* A reader that has opened the payload, and has not been disturbed since, has
\* the question of the menu in its hands.
Reading(a) == a.pc \in {"check", "look"} /\ a.on # 0
ReadInv ==
  \A r \in Readers :
    Reading(act[r]) =>
      /\ menu.n = act[r].on
      /\ act[r].pc = "check" => act[r].file = act[r].on

IInv == Shape /\ NewestInv /\ ReadInv /\ RightQuestion

\* RightQuestion, of one answerer.
Meets(a) ==
  a.pc \in {"type", "verify", "ok"} /\ a.on # 0 =>
    a.req.id[2] = IF a.req.id[1] = "hook" THEN a.on ELSE Template(a.on)

\* RightQuestion, answerer by answerer.
LEMMA Met == RightQuestion <=> \A a \in Answerers : Meets(act[a])
BY DEF RightQuestion, Meets

\* The same of the next state.
LEMMA MetNext == (\A a \in Answerers : Meets(act'[a])) => RightQuestion'
BY DEF RightQuestion, Meets, Template

\* A request that is over.
LEMMA OverIs == IsReader(Over) /\ Over.pc = "over" /\ Over.on = 0
BY DEF Over, Idle, IsReader, Fields

\* A key leaves the question of a menu as it is.
LEMMA PressKeeps ==
  ASSUME NEW m, NEW items, NEW k, IsMenu(m)
  PROVE  IsMenu(Press(m, items, k)) /\ Press(m, items, k).n = m.n
BY DEF Press, OnReview, IsMenu

\* The same of a key pressed in the menu on the screen.
LEMMA PressedKeeps ==
  ASSUME Shape, NEW k PROVE IsMenu(Pressed(k)) /\ Pressed(k).n = menu.n
BY PressKeeps DEF Shape, Pressed

\* What a menu becomes is the same question or none.
LEMMA BecomesKeeps ==
  ASSUME Shape, NewestInv, NEW m, IsMenu(m), m.n \in {0, menu.n}, Becomes(m),
         UNCHANGED <<asked, hook, installed>>
  PROVE  /\ IsMenu(menu') /\ NewestInv'
<1>1. CASE m.tab = 0
  BY <1>1 DEF Becomes, NoMenu, IsMenu, NewestInv
<1>2. CASE m.tab # 0
  BY <1>2 DEF Becomes, NewestInv
<1> QED
  BY <1>1, <1>2

\* Whoever is disturbed forgets what it had found on the screen, and nothing
\* else.
LEMMA DisturbedKeeps ==
  ASSUME Shape, NEW who, NEW r \in Readers
  PROVE  LET b == Disturbed(act, who)[r] IN
         /\ IsReader(b) /\ b.pc = act[r].pc /\ b.req = act[r].req
         /\ b.on \in {0, act[r].on}
         /\ menu.n # 0 /\ r \notin who /\ Reading(act[r]) => b.on = 0
         /\ Disturbed(act, who) = [q \in Readers |-> Disturbed(act, who)[q]]
BY DEF Disturbed, Shape, IsReader, Fields, Reading

\* When someone other than a reader touches the menu, no reader takes another
\* question for its own.
LEMMA Touched ==
  ASSUME IInv, act' = Disturbed(act, {})
  PROVE  /\ act' = [r \in Readers |-> act'[r]]
         /\ \A r \in Readers : IsReader(act'[r])
         /\ ReadInv' /\ RightQuestion'
<1>1. ASSUME NEW r \in Readers
      PROVE  /\ IsReader(act'[r]) /\ act'[r].pc = act[r].pc /\ act'[r].req = act[r].req
             /\ act'[r].on \in {0, act[r].on}
             /\ menu.n # 0 /\ Reading(act[r]) => act'[r].on = 0
             /\ act' = [q \in Readers |-> act'[q]]
  BY DisturbedKeeps DEF IInv
<1>2. act' = [r \in Readers |-> act'[r]]
  BY DEF IInv, Shape, Disturbed
<1>3. ASSUME NEW r \in Readers PROVE ~ Reading(act'[r])
  <2>1. Reading(act[r]) => menu.n # 0
    BY DEF IInv, ReadInv, Reading
  <2> QED
    BY <1>1, <2>1 DEF Reading
<1>4. ReadInv'
  BY <1>3 DEF ReadInv
<1>5. RightQuestion'
  <2>1. ASSUME NEW a \in Answerers PROVE Meets(act'[a])
    BY <1>1, Met DEF IInv, Meets, Readers
  <2> QED
    BY <2>1, MetNext
<1> QED
  BY <1>1, <1>2, <1>4, <1>5

\* Readers that do not move keep what they had.
LEMMA Unmoved ==
  ASSUME IInv, UNCHANGED act
  PROVE  /\ RightQuestion'
         /\ act' = [r \in Readers |-> act'[r]] /\ \A r \in Readers : IsReader(act'[r])
         /\ \A r \in Readers : Reading(act[r])' <=> Reading(act[r])
BY Met, MetNext DEF IInv, Shape

\* Who ends is as it was, or over.
LEMMA EndedIs == ASSUME NEW e PROVE Ended(e) = e \/ Ended(e) = Over
BY DEF Ended

\* A reader that has not seen the screen has found nothing on it.
LEMMA UnseenIs ==
  ASSUME NEW b, IsReader(b)
  PROVE  LET c == [b EXCEPT !.on = 0] IN
         /\ IsReader(c) /\ c.on = 0 /\ c.pc = b.pc /\ c.req = b.req
         /\ c.file = b.file /\ c.keys = b.keys
BY DEF IsReader, Fields

\* A key of an answer goes into the menu, and its call returns or fails; or the
\* call fails before.
Key(a) == Pressed(Head(act[a].keys))
NextPc(a) == IF Len(act[a].keys) > 1 THEN "type"
             ELSE IF EndsOnReview(act[a].form) THEN "verify" ELSE "ok"
Presses(a, pc) ==
  /\ Becomes(Key(a))
  /\ act' = Keyed(Disturbed(act, {a}), a, Key(a), pc)
  /\ UNCHANGED <<asked, inTurn, landed>>
Breaks(a) ==
  /\ act' = [act EXCEPT ![a] = Ended([@ EXCEPT !.pc = "broken"])]
  /\ UNCHANGED <<claude, menu>>
Gone(a) == act' = [act EXCEPT ![a] = Over] /\ UNCHANGED <<claude, menu>>

\* These are the steps of Act while it types.
LEMMA TypeSteps ==
  ASSUME NEW a, Type(a) \/ TypeFails(a)
  PROVE  /\ act[a].pc = "type" /\ UNCHANGED <<bounds, proc, hook, post>>
         /\ Gone(a) \/ Breaks(a) \/ \E pc \in {NextPc(a), "broken"} : Presses(a, pc)
<1>1. CASE Type(a)
  <2>1. Gone(a) \/ Presses(a, NextPc(a))
    BY <1>1 DEF Type, Gone, Presses, NextPc, Key
  <2> QED BY <1>1, <2>1 DEF Type
<1>2. CASE TypeFails(a)
  <2>1. Breaks(a) \/ Presses(a, "broken")
    BY <1>2 DEF TypeFails, Breaks, Presses, Key, claude
  <2> QED BY <1>2, <2>1 DEF TypeFails
<1> QED BY <1>1, <1>2

\* The answerer after its key, or after a key that was not typed.
Struck(e, a, pc) ==
  /\ IsReader(e) /\ e.pc = pc /\ e.on = act[a].on /\ e.file = act[a].file
  /\ e.req = act[a].req /\ e.form = act[a].form
Landing(e, a) ==
  /\ e.keys = Tail(act[a].keys)
  /\ e.got = IF menu.n # 0 /\ Key(a).tab = 0 THEN Key(a).picked ELSE act[a].got

\* A key that is typed disturbs everybody else.
LEMMA PressesIs ==
  ASSUME Shape, NEW a \in Readers, NEW pc, Presses(a, pc)
  PROVE  \E e : /\ Struck(e, a, pc) /\ Landing(e, a)
                /\ act' = [q \in Readers |-> IF q = a THEN Ended(e)
                                             ELSE Disturbed(act, {a})[q]]
<1> DEFINE d == Disturbed(act, {a})
           m == Key(a)
           e == [d[a] EXCEPT !.keys = Tail(d[a].keys), !.pc = pc,
                   !.got = IF menu.n # 0 /\ m.tab = 0 THEN m.picked ELSE d[a].got]
<1>1. d = [q \in Readers |-> d[q]] /\ d[a] = act[a]
  BY DisturbedKeeps DEF Disturbed
<1>2. IsReader(act[a])
  BY DEF Shape
<1> HIDE DEF d, m
<1>3. act' = [d EXCEPT ![a] = Ended(e)]
  <2>1. act' = Keyed(d, a, m, pc)
    BY DEF Presses, d, m
  <2>2. Keyed(d, a, m, pc) = [d EXCEPT ![a] = Ended(e)]
    BY DEF Keyed
  <2> QED BY <2>1, <2>2, Zenon
<1>4. Struck(e, a, pc) /\ Landing(e, a)
  BY <1>1, <1>2 DEF Struck, Landing, m, IsReader, Fields
<1> HIDE DEF e
<1>5. act' = [q \in Readers |-> IF q = a THEN Ended(e) ELSE d[q]]
  BY <1>1, <1>3
<1> QED BY <1>4, <1>5 DEF d

\* A key that fails before it is typed changes nothing else.
LEMMA BreaksIs ==
  ASSUME Shape, NEW a \in Readers, Breaks(a)
  PROVE  \E e : /\ Struck(e, a, "broken") /\ e.keys = act[a].keys
                /\ act' = [act EXCEPT ![a] = Ended(e)]
<1> DEFINE e == [act[a] EXCEPT !.pc = "broken"]
<1>1. Struck(e, a, "broken") /\ e.keys = act[a].keys
  BY DEF Struck, Shape, IsReader, Fields
<1>2. act' = [act EXCEPT ![a] = Ended(e)]
  BY DEF Breaks, Shape
<1> HIDE DEF e
<1> QED BY <1>1, <1>2

\* Claude and its user.
LEMMA ClaudeStep == IInv /\ Claude => IInv'
<1> SUFFICES ASSUME IInv, Claude PROVE IInv'
  OBVIOUS
<1>1. CASE AskHook
  <2>1. menu.n = 0 /\ UNCHANGED <<installed, menu, act>>
    BY <1>1 DEF AskHook, IInv, NewestInv, bounds
  <2>2. NewestInv'
    BY <1>1, <2>1 DEF AskHook, IInv, NewestInv
  <2>3. \A r \in Readers : ~ Reading(act[r])
    BY <2>1 DEF IInv, ReadInv, Reading
  <2> QED
    BY <2>1, <2>2, <2>3, Unmoved DEF IInv, Shape, ReadInv
<1>2. CASE Show
  <2>1. menu.n = 0 /\ IsMenu(menu') /\ UNCHANGED <<bounds, hook, act, asked>>
    BY <1>2 DEF Show, IInv, NewestInv, Fresh, IsMenu
  <2>2. \A r \in Readers : ~ Reading(act[r])
    BY <2>1 DEF IInv, ReadInv, Reading
  <2>3. NewestInv'
    BY <1>2, <2>1 DEF Show, Fresh, IInv, NewestInv, bounds
  <2> QED
    BY <2>1, <2>2, <2>3, Unmoved DEF IInv, Shape, ReadInv, bounds
<1>3. CASE EndTurn \/ StartTurn
  <2>1. UNCHANGED <<bounds, menu, act, asked, hook>> /\ menu.n = 0
    BY <1>3 DEF EndTurn, StartTurn, IInv, NewestInv
  <2> QED
    BY <2>1, Unmoved DEF IInv, Shape, NewestInv, ReadInv, bounds
<1>4. CASE Touch
  <2>1. PICK m \in {NoMenu} \cup {Pressed(k) : k \in {1, 2, Tab, Right}} : Becomes(m)
    BY <1>4 DEF Touch
  <2>2. IsMenu(m) /\ m.n \in {0, menu.n}
    BY PressedKeeps DEF IInv, NoMenu, IsMenu
  <2>3. IsMenu(menu') /\ NewestInv'
    BY <1>4, <2>1, <2>2, BecomesKeeps DEF Touch, IInv
  <2>4. act' = Disturbed(act, {})
    BY <1>4 DEF Touch
  <2> QED
    BY <2>3, <2>4, Touched DEF IInv, Shape
<1>5. CASE End
  <2>1. IsMenu(menu') /\ NewestInv'
    BY <1>5 DEF End, IInv, NewestInv, NoMenu, IsMenu
  <2>2. act' = Disturbed(act, {})
    BY <1>5 DEF End
  <2> QED
    BY <2>1, <2>2, Touched DEF IInv, Shape
<1>6. CASE Boot
  BY <1>6, Unmoved DEF Boot, IInv, Shape, NewestInv, ReadInv, bounds, claude
<1> QED
  BY <1>1, <1>2, <1>3, <1>4, <1>5, <1>6 DEF Claude

\* A reader moves on alone: the others and the menu stay as they are, and what
\* it holds now is still the question of the menu.
LEMMA MovesOn ==
  ASSUME IInv, NEW r \in Readers, NEW b, act' = [act EXCEPT ![r] = b], IsReader(b),
         UNCHANGED <<menu, turn, asked, installed>>, hook' \in {0, hook},
         Reading(b) => menu.n = b.on /\ (b.pc = "check" => b.file = b.on),
         r \in Answerers => Meets(b)
  PROVE  IInv'
<1>1. act' = [q \in Readers |-> IF q = r THEN b ELSE act[q]]
  BY DEF IInv, Shape
<1>2. Shape'
  BY <1>1 DEF IInv, Shape
<1>3. NewestInv'
  BY DEF IInv, NewestInv
<1>4. ReadInv'
  BY <1>1 DEF IInv, ReadInv
<1>5. RightQuestion'
  <2>1. ASSUME NEW a \in Answerers PROVE Meets(act'[a])
    BY <1>1, Met DEF IInv, Readers
  <2> QED
    BY <2>1, MetNext
<1> QED
  BY <1>2, <1>3, <1>4, <1>5 DEF IInv

\* A question that was read is answered only if it has the id of the request.
LEMMA Decided ==
  ASSUME NEW r \in Readers, NEW form, IsReader(act[r])
  PROVE  LET b == Decide(r, form) IN
         /\ IsReader(b) /\ ~ Reading(b)
         /\ b.pc \in {"type", "verify", "ok"} /\ b.on # 0 =>
              b.req = act[r].req /\ b.on = act[r].on /\ b.req.id = form.id
              /\ form # NoForm
<1> DEFINE a == act[r]
           again == [a EXCEPT !.pc = "open", !.acting = TRUE, !.file = 0, !.on = 0]
           types == [a EXCEPT !.pc = "type", !.file = 0, !.form = form,
                              !.keys = Keystrokes(form, a.req.answer)]
           none == [a EXCEPT !.pc = "none", !.file = 0]
           same == form # NoForm /\ form.id = a.req.id
           b == Decide(r, form)
<1>1. r \in Watchers => b \in {none, Idle}
  BY ActorsAssumption DEF Decide, Reported
<1>2. r \notin Watchers => b \in {again, Over} \/ (b = types /\ same)
  <2>1. CASE r \notin Watchers /\ ~ act[r].acting
    BY <2>1 DEF Decide, Readers
  <2>2. CASE r \notin Watchers /\ act[r].acting
    BY <2>2 DEF Decide, Readers
  <2> QED
    BY <2>1, <2>2
<1>3. IsReader(none) /\ none.pc = "none"
  BY DEF IsReader, Fields
<1>4. IsReader(again) /\ again.pc = "open"
  BY DEF IsReader, Fields
<1>5. /\ IsReader(types) /\ types.pc = "type"
      /\ types.req = act[r].req /\ types.on = act[r].on
  BY DEF IsReader, Fields
<1>6. IsReader(Idle) /\ Idle.pc = "idle"
  BY DEF Idle, IsReader, Fields
<1> HIDE DEF again, types, none, b
<1>7. b \in {none, Idle, again, Over} \/ (b = types /\ same)
  BY <1>1, <1>2
<1>8. CASE b \in {none, Idle, again, Over}
  BY <1>3, <1>4, <1>6, <1>8, OverIs DEF Reading, b
<1>9. CASE b = types /\ same
  BY <1>5, <1>9 DEF Reading, b
<1> QED
  BY <1>7, <1>8, <1>9

\* A reader takes what it has read for what is on the screen only if it is.
LEMMA ReadStep == ASSUME IInv, NEW r \in Readers, Read(r) PROVE IInv'
<1>1. IsReader(act[r])
  BY DEF IInv, Shape
<1>2. CASE OpenFile(r)
  <2>1. IsReader(Opened(r))
    BY <1>1, OverIs DEF Opened, IsReader, Fields
  <2>2. /\ Opened(r).pc \notin {"type", "verify", "ok"}
        /\ Reading(Opened(r)) =>
             /\ Opened(r).on = Untouched
             /\ Opened(r).pc = "check" => Opened(r).file = hook /\ hook # 0
    BY <1>1, OverIs DEF Opened, IsReader, Fields, Reading
  <2>3. Untouched \in {0, menu.n}
    BY DEF Untouched
  <2>4. Reading(Opened(r)) =>
          /\ menu.n = Opened(r).on
          /\ Opened(r).pc = "check" => Opened(r).file = Opened(r).on
    BY <2>2, <2>3 DEF IInv, NewestInv, Reading
  <2>5. UNCHANGED <<menu, turn, asked, installed, hook>>
    BY <1>2 DEF OpenFile, bounds, claude
  <2>6. CASE act' = [act EXCEPT ![r] = Opened(r)]
    BY <2>1, <2>2, <2>4, <2>5, <2>6, MovesOn DEF Meets
  <2>7. CASE act' = [act EXCEPT ![r] = Over]
    BY <2>5, <2>7, OverIs, MovesOn DEF Meets, Reading
  <2> QED
    BY <1>2, <2>6, <2>7 DEF OpenFile
<1>3. CASE CheckFile(r) /\ act[r].file \in landed
  <2> DEFINE b == [act[r] EXCEPT !.pc = "look", !.file = 0]
  <2>1. act' = [act EXCEPT ![r] = b]
    BY <1>3 DEF CheckFile, IInv, Shape
  <2>2. IsReader(b) /\ b.pc = "look" /\ b.on = act[r].on
    BY <1>1 DEF IsReader, Fields
  <2>3. Reading(b) => menu.n = b.on
    BY <1>3, <2>2 DEF CheckFile, IInv, ReadInv, Reading
  <2>4. UNCHANGED <<menu, turn, asked, installed>> /\ hook' \in {0, hook}
    BY <1>3 DEF CheckFile, bounds, claude
  <2> HIDE DEF b
  <2> QED
    BY <2>1, <2>2, <2>3, <2>4, MovesOn DEF Meets
<1>4. CASE CheckFile(r) /\ act[r].file \notin landed
  <2> DEFINE form == HookForm(act[r].file, Script[act[r].file])
             b == Decide(r, form)
  <2>1. act' = [act EXCEPT ![r] = b] /\ act[r].pc = "check"
    BY <1>4 DEF CheckFile, IInv, Shape
  <2>2. form.id = <<"hook", act[r].file, 0>>
    BY DEF HookForm
  <2>3. act[r].on # 0 => act[r].file = act[r].on
    BY <2>1 DEF IInv, ReadInv, Reading
  <2>4. UNCHANGED <<menu, turn, asked, installed, hook>>
    BY <1>4 DEF CheckFile, bounds, claude
  <2> HIDE DEF b, form
  <2>5. /\ IsReader(b) /\ ~ Reading(b)
        /\ b.pc \in {"type", "verify", "ok"} /\ b.on # 0 =>
             b.on = act[r].on /\ b.req.id = form.id
    BY <1>1, Decided DEF b
  <2>6. Meets(b)
    BY <2>2, <2>3, <2>5 DEF Meets
  <2> QED
    BY <2>1, <2>4, <2>5, <2>6, MovesOn
<1>5. CASE Look(r) /\ act' = [act EXCEPT ![r] = Decide(r, OnScreen)]
  <2> DEFINE b == Decide(r, OnScreen)
  <2>1. act' = [act EXCEPT ![r] = b] /\ act[r].pc = "look"
    BY <1>5 DEF Look
  <2>2. OnScreen # NoForm => OnScreen.id = <<"pane", Template(menu.n), menu.tab>>
    BY DEF OnScreen, PaneForm
  <2>3. act[r].on # 0 => menu.n = act[r].on
    BY <2>1 DEF IInv, ReadInv, Reading
  <2>4. UNCHANGED <<menu, turn, asked, installed, hook>>
    BY <1>5 DEF Look, bounds, claude
  <2> HIDE DEF b
  <2>5. /\ IsReader(b) /\ ~ Reading(b)
        /\ b.pc \in {"type", "verify", "ok"} /\ b.on # 0 =>
             b.on = act[r].on /\ b.req.id = OnScreen.id /\ OnScreen # NoForm
    BY <1>1, Decided DEF b
  <2>6. Meets(b)
    BY <2>2, <2>3, <2>5 DEF Meets
  <2> QED
    BY <2>1, <2>4, <2>5, <2>6, MovesOn
<1>6. CASE Look(r) /\ act' = [act EXCEPT ![r] = [Decide(r, NoForm) EXCEPT !.on = 0]]
  <2> DEFINE c == [Decide(r, NoForm) EXCEPT !.on = 0]
  <2>1. IsReader(c) /\ c.on = 0
    BY <1>1, Decided, UnseenIs
  <2>2. UNCHANGED <<menu, turn, asked, installed, hook>>
    BY <1>6 DEF Look, bounds, claude
  <2> HIDE DEF c
  <2>3. act' = [act EXCEPT ![r] = c]
    BY <1>6 DEF c
  <2> QED
    BY <2>1, <2>2, <2>3, MovesOn DEF Meets, Reading
<1>7. Look(r) => \/ act' = [act EXCEPT ![r] = Decide(r, OnScreen)]
                 \/ act' = [act EXCEPT ![r] = [Decide(r, NoForm) EXCEPT !.on = 0]]
  BY DEF Look
<1> QED
  BY <1>2, <1>3, <1>4, <1>5, <1>6, <1>7 DEF Read

\* The keys of an answer go into a menu that the others are told about.
LEMMA TypeStep ==
  ASSUME IInv, NEW a \in Answerers, Type(a) \/ TypeFails(a) PROVE IInv'
<1>1. a \in Readers /\ IsReader(act[a]) /\ act[a].pc = "type"
  BY TypeSteps DEF IInv, Shape, Readers
<1>2. UNCHANGED <<installed, hook>>
  BY TypeSteps DEF bounds
<1>3. CASE Gone(a)
  BY <1>1, <1>2, <1>3, OverIs, MovesOn DEF Gone, Reading, Meets, claude
<1>4. CASE Breaks(a)
  <2>1. PICK e : Struck(e, a, "broken") /\ act' = [act EXCEPT ![a] = Ended(e)]
    BY <1>1, <1>4, BreaksIs DEF IInv
  <2>2. IsReader(Ended(e)) /\ Ended(e).pc \in {"broken", "over"}
    BY <2>1, EndedIs, OverIs DEF Struck
  <2>3. UNCHANGED <<menu, turn, asked>>
    BY <1>4 DEF Breaks, claude
  <2> QED BY <1>1, <1>2, <2>1, <2>2, <2>3, MovesOn DEF Reading, Meets
<1>5. ASSUME NEW pc \in {NextPc(a), "broken"}, Presses(a, pc) PROVE IInv'
  <2> DEFINE m == Key(a)
             d == Disturbed(act, {a})
  <2>1. PICK e : /\ Struck(e, a, pc)
                 /\ act' = [q \in Readers |-> IF q = a THEN Ended(e) ELSE d[q]]
    BY <1>1, <1>5, PressesIs DEF IInv
  <2>2. IsMenu(m) /\ m.n = menu.n
    BY PressedKeeps DEF IInv, Key
  <2>3. IsMenu(menu') /\ NewestInv'
    BY <1>2, <1>5, <2>2, BecomesKeeps DEF IInv, Presses
  <2>4. \A q \in Readers :
          /\ IsReader(d[q]) /\ d[q].pc = act[q].pc /\ d[q].req = act[q].req
          /\ d[q].on \in {0, act[q].on}
          /\ menu.n # 0 /\ q # a /\ Reading(act[q]) => d[q].on = 0
    BY DisturbedKeeps DEF IInv
  <2> DEFINE b == Ended(e)
  <2>5. /\ IsReader(b) /\ b.pc \in {"type", "verify", "ok", "broken", "over"}
        /\ b.pc # "over" => b.req = act[a].req /\ b.on = act[a].on
    <3>1. pc \in {"type", "verify", "ok", "broken"}
      BY DEF NextPc
    <3> HIDE DEF b
    <3>2. b = e \/ b = Over
      BY EndedIs DEF b
    <3> QED
      BY <2>1, <3>1, <3>2, OverIs DEF Struck
  <2> HIDE DEF m, d, b
  <2>6. act' = [q \in Readers |-> IF q = a THEN b ELSE d[q]]
    BY <2>1 DEF b
  <2>7. Shape'
    BY <2>3, <2>4, <2>5, <2>6 DEF Shape
  <2>8. ASSUME NEW q \in Readers PROVE ~ Reading(act'[q])
    <3>1. CASE q = a
      BY <2>5, <2>6, <3>1 DEF Reading
    <3>2. CASE q # a
      <4>1. Reading(act[q]) => menu.n # 0
        BY DEF IInv, ReadInv, Reading
      <4> QED
        BY <2>4, <2>6, <3>2, <4>1 DEF Reading
    <3> QED
      BY <3>1, <3>2
  <2>9. RightQuestion'
    <3>1. ASSUME NEW q \in Answerers PROVE Meets(act'[q])
      <4>1. Meets(act[q]) /\ Meets(act[a]) /\ q \in Readers
        BY Met DEF IInv, Readers
      <4>2. CASE q = a
        BY <1>1, <2>5, <2>6, <4>1, <4>2 DEF Meets
      <4>3. CASE q # a
        BY <2>4, <2>6, <4>1, <4>3 DEF Meets
      <4> QED BY <4>2, <4>3
    <3> QED
      BY <3>1, MetNext
  <2> QED
    BY <2>3, <2>7, <2>8, <2>9 DEF IInv, ReadInv
<1> QED
  BY <1>3, <1>4, <1>5, TypeSteps

\* A request is taken, and its outcome looked at.
LEMMA AnswerStep ==
  ASSUME IInv, NEW a \in Answerers, Take(a) \/ Verify(a) PROVE IInv'
<1>1. a \in Readers /\ IsReader(act[a])
  BY DEF IInv, Shape, Readers
<1>2. UNCHANGED <<menu, turn, asked, installed, hook>>
  BY DEF Take, Verify, bounds, claude
<1>3. CASE Take(a)
  <2>1. PICK req : act' = [act EXCEPT ![a].pc = "open", ![a].req = req]
    BY <1>3 DEF Take
  <2> DEFINE b == [act[a] EXCEPT !.pc = "open", !.req = req]
  <2>2. act' = [act EXCEPT ![a] = b]
    BY <1>1, <2>1 DEF IInv, Shape
  <2>3. IsReader(b) /\ b.pc = "open"
    BY <1>1 DEF IsReader, Fields
  <2> HIDE DEF b
  <2> QED
    BY <1>1, <1>2, <2>2, <2>3, MovesOn DEF Reading, Meets
<1>4. CASE Verify(a)
  <2>1. PICK open \in BOOLEAN :
          act' = [act EXCEPT ![a] =
                    Ended([act[a] EXCEPT !.pc = IF open THEN "failed" ELSE "ok"])]
    BY <1>1, <1>4 DEF Verify, IInv, Shape
  <2> DEFINE e == [act[a] EXCEPT !.pc = IF open THEN "failed" ELSE "ok"]
             b == Ended(e)
  <2>2. act[a].pc = "verify"
    BY <1>4 DEF Verify
  <2>3. IsReader(e) /\ e.pc \in {"failed", "ok"} /\ e.req = act[a].req /\ e.on = act[a].on
    BY <1>1 DEF IsReader, Fields
  <2> HIDE DEF e
  <2>4. /\ IsReader(b) /\ b.pc \in {"failed", "ok", "over"}
        /\ b.pc # "over" => b.req = act[a].req /\ b.on = act[a].on
    <3> HIDE DEF b
    <3>1. b = e \/ b = Over
      BY EndedIs DEF b
    <3> QED
      BY <2>3, <3>1, OverIs
  <2>5. Meets(b)
    BY <2>2, <2>4, Met DEF IInv, Meets
  <2>6. act' = [act EXCEPT ![a] = b]
    BY <2>1 DEF e
  <2> HIDE DEF b
  <2> QED
    BY <1>1, <1>2, <2>4, <2>5, <2>6, MovesOn DEF Reading
<1> QED
  BY <1>3, <1>4

\* Messages are posted.
LEMMA PostStep ==
  ASSUME IInv, NEW p \in Posters,
         PostFind(p) \/ PostLaunch(p) \/ PostText(p) \/ PostEnter(p)
  PROVE  IInv'
<1>1. UNCHANGED <<installed, hook, asked>>
  BY DEF PostFind, PostLaunch, PostText, PostEnter, bounds, claude
<1>2. CASE UNCHANGED <<menu, act, turn>>
  BY <1>1, <1>2, Unmoved DEF IInv, Shape, NewestInv, ReadInv
<1>3. CASE act' = Disturbed(act, {}) /\ \E m \in {menu} \cup {Pressed(k) : k \in {1, 2}} :
             Becomes(m)
  <2>1. PICK m \in {menu} \cup {Pressed(k) : k \in {1, 2}} : Becomes(m)
    BY <1>3
  <2>2. IsMenu(m) /\ m.n \in {0, menu.n}
    BY PressedKeeps DEF IInv, Shape
  <2>3. IsMenu(menu') /\ NewestInv'
    BY <1>1, <2>1, <2>2, BecomesKeeps DEF IInv
  <2> QED
    BY <1>3, <2>3, Touched DEF IInv, Shape
<1>4. CASE act' = Disturbed(act, {}) /\ menu.n = 0 /\ UNCHANGED menu
  <2>1. NewestInv' /\ IsMenu(menu')
    BY <1>1, <1>4 DEF IInv, Shape, NewestInv
  <2> QED
    BY <1>4, <2>1, Touched DEF IInv, Shape
<1>5. PostFind(p) \/ PostLaunch(p) => UNCHANGED <<menu, act, turn>>
  BY DEF PostFind, PostLaunch, claude
<1>6. PostText(p) =>
        \/ UNCHANGED <<menu, act, turn>>
        \/ /\ act' = Disturbed(act, {})
           /\ \E m \in {menu} \cup {Pressed(k) : k \in {1, 2}} : Becomes(m)
  BY DEF PostText
<1>7. PostEnter(p) =>
        \/ UNCHANGED <<menu, act, turn>>
        \/ act' = Disturbed(act, {}) /\ Becomes(Pressed(1))
        \/ act' = Disturbed(act, {}) /\ menu.n = 0 /\ UNCHANGED menu
  BY DEF PostEnter
<1> QED
  BY <1>2, <1>3, <1>4, <1>5, <1>6, <1>7

\* At the start nobody has a question.
LEMMA InitIInv == Init => IInv
<1> SUFFICES ASSUME Init PROVE IInv
  OBVIOUS
<1>1. IsReader(Idle) /\ Idle.pc = "idle"
  BY DEF Idle, IsReader, Fields
<1>2. act = [r \in Readers |-> Idle] /\ menu = NoMenu /\ hook = 0
  BY DEF Init
<1>3. Shape
  BY <1>1, <1>2 DEF Shape, NoMenu, IsMenu
<1>4. NewestInv
  BY <1>2 DEF NewestInv, NoMenu
<1>5. ReadInv
  BY <1>1, <1>2 DEF ReadInv, Reading
<1>6. RightQuestion
  BY <1>1, <1>2, Met DEF Meets, Readers
<1> QED
  BY <1>3, <1>4, <1>5, <1>6 DEF IInv

\* The invariant that RightQuestion rests on.
LEMMA Invariant == Spec => []IInv
<1>1. IInv /\ [Next]_vars => IInv'
  <2> SUFFICES ASSUME IInv, [Next]_vars PROVE IInv'
    OBVIOUS
  <2>1. CASE UNCHANGED vars
    BY <2>1, Unmoved DEF vars, bounds, claude, IInv, Shape, NewestInv, ReadInv
  <2>2. CASE Next
    BY <2>2, ClaudeStep, ReadStep, TypeStep, AnswerStep, PostStep DEF Next
  <2> QED
    BY <2>1, <2>2
<1> QED
  BY <1>1, InitIInv, PTL DEF Spec

\* While Act types into a menu that it found as it was drawn and that nobody
\* else has touched, that menu asks the question the answer was given to
\* (Act, the comparison of the ids).
THEOREM QuestionMatches == Spec => []RightQuestion
<1>1. IInv => RightQuestion
  BY DEF IInv
<1> QED
  BY <1>1, Invariant, PTL

\* What can be typed into a menu.
KeySet == Digits \cup {Tab, Right}

\* What an answer is typed as.
LEMMA KeysTyped ==
  ASSUME NEW form, NEW answer, NEW n \in Nat,
         form.fields = [i \in 1 .. n |-> form.fields[i]],
         \A key \in DOMAIN answer : answer[key] \in Seq(STRING),
         Typable(form, answer)
  PROVE  Keystrokes(form, answer) \in Seq(KeySet) /\ Keystrokes(form, answer) # << >>
<1> DEFINE Field(i) == form.fields[i]
           Said(i) == answer[Field(i).key]
           Typed(i) == [j \in DOMAIN Said(i) |-> DigitOf(Field(i), Said(i)[j])]
           Ahead == IF Len(form.fields) > 1 THEN Tab ELSE Right
           Part(i) == IF Field(i).multi THEN Append(Typed(i), Ahead) ELSE Typed(i)
           ss == [i \in 1 .. n |-> Part(i)]
           closing == IF EndsOnReview(form) THEN <<1>> ELSE << >>
           all == FlattenSeq(ss)
<1>1. DOMAIN form.fields = 1 .. n /\ n # 0
  <2>1. DOMAIN form.fields = 1 .. n
    BY Zenon
  <2>2. CASE n = 0
    <3>1. form.fields = << >>
      BY <2>2
    <3> QED BY <3>1 DEF Typable
  <2> QED BY <2>1, <2>2
<1>2. ASSUME NEW i, i \in 1 .. n
      PROVE  /\ Said(i) \in Seq(STRING)
             /\ IF Field(i).multi THEN Said(i) # << >> ELSE Len(Said(i)) = 1
             /\ \A j \in DOMAIN Said(i) : DigitOf(Field(i), Said(i)[j]) \in Digits
  BY <1>1, <1>2 DEF Typable
<1>3. 1 \in KeySet /\ Ahead \in KeySet /\ Digits \subseteq KeySet
  BY DEF KeySet, Digits, Ahead
<1> HIDE DEF Ahead
<1>4. ASSUME NEW i, i \in 1 .. n PROVE Part(i) \in Seq(KeySet) /\ Len(Part(i)) > 0
  <2> DEFINE s == Said(i)
             f == Field(i)
             m == Len(s)
             t == Typed(i)
  <2>1. /\ s \in Seq(STRING) /\ (IF f.multi THEN s # << >> ELSE Len(s) = 1)
        /\ \A j \in DOMAIN s : DigitOf(f, s[j]) \in Digits
    BY <1>2, <1>4
  <2> HIDE DEF s, f
  <2>2. m \in Nat /\ DOMAIN s = 1 .. m /\ m > 0
    BY <2>1
  <2>3. t = [j \in 1 .. m |-> DigitOf(f, s[j])]
    BY <2>2 DEF s, f
  <2>4. \A j \in 1 .. m : DigitOf(f, s[j]) \in KeySet
    BY <1>3, <2>1, <2>2
  <2> HIDE DEF m, t
  <2>5. t \in Seq(KeySet) /\ Len(t) = m
    BY <2>2, <2>3, <2>4
  <2>6. Append(t, Ahead) \in Seq(KeySet) /\ Len(Append(t, Ahead)) = m + 1
    BY <1>3, <2>5
  <2>7. Part(i) = IF f.multi THEN Append(t, Ahead) ELSE t
    BY DEF f, t
  <2>8. CASE f.multi
    <3>1. Part(i) = Append(t, Ahead)
      BY <2>7, <2>8
    <3>2. Append(t, Ahead) \in Seq(KeySet) /\ Len(Append(t, Ahead)) > 0
      BY <2>2, <2>6
    <3> QED BY <3>1, <3>2, Zenon
  <2>9. CASE ~f.multi
    <3>1. Part(i) = t
      BY <2>7, <2>9
    <3> QED BY <2>2, <2>5, <3>1
  <2> QED BY <2>8, <2>9
<1> HIDE DEF Part, closing
<1>5. ss \in Seq(Seq(KeySet)) /\ Len(ss) = n /\ \A i \in 1 .. n : ss[i] = Part(i)
  BY <1>4
<1>6. Keystrokes(form, answer) = all \o closing
  <2>1. [i \in DOMAIN form.fields |-> Part(i)] = ss
    BY <1>1
  <2> QED BY <2>1 DEF Keystrokes, Part, closing, Ahead
<1> HIDE DEF ss, all
<1>7. all \in Seq(KeySet)
  BY <1>5, FlattenType DEF all
<1>8. Len(all) > 0
  <2>1. 1 \in 1 .. n
    BY <1>1
  <2>2. ss[1] \in Seq(KeySet) /\ Len(ss[1]) > 0
    BY <1>4, <1>5, <2>1
  <2>3. ToSet(ss[1]) \subseteq ToSet(FlattenSeq(ss))
    BY <1>5, <2>1, FlattenToSet
  <2>4. ss[1][1] \in ToSet(ss[1])
    BY <2>2 DEF ToSet
  <2>5. ToSet(all) # {}
    BY <2>3, <2>4 DEF all
  <2>6. Len(all) # 0
    BY <1>7, <2>5 DEF ToSet
  <2> QED BY <1>7, <2>6
<1>9. closing \in Seq(KeySet)
  BY <1>3 DEF closing
<1>10. all \o closing \in Seq(KeySet) /\ Len(all \o closing) > 0
  BY <1>7, <1>8, <1>9
<1> QED BY <1>6, <1>10

\* Where a message to a session can be.
PostPcs == {"idle", "launch", "text", "enter", "done"}

\* TypeOK without the readers.
Scalars ==
  /\ installed \in BOOLEAN
  /\ proc \in {"gone", "booting", "up"}
  /\ turn \in {"idle", "busy", "posing", "asking"}
  /\ asked \in 0 .. Len(Script) /\ hook \in 0 .. asked /\ menu.n \in 0 .. asked
  /\ inTurn \subseteq 1 .. asked /\ landed \subseteq 1 .. asked
  /\ post \in [Posters -> PostPcs]
  /\ touches \in 0 .. MaxTouches /\ ends \in 0 .. MaxEnds

\* An answer gives a list of values for each key.
Lists(answer) == \A key \in DOMAIN answer : answer[key] \in Seq(STRING)

\* A reader, when n questions have been asked: the payload it holds is of one of
\* them, the answer it was asked to give is lists of values, and while it types
\* there is a key left.
Sound(a, n) ==
  /\ a.pc \in ReaderPcs /\ a.on \in 0 .. n
  /\ a.pc = "check" => a.file \in 1 .. n
  /\ Lists(a.req.answer)
  /\ a.keys \in Seq(KeySet)
  /\ a.pc = "type" => a.keys # << >>

\* The inductive invariant of the types.
TInv == Scalars /\ \A r \in Readers : Sound(act[r], asked)

\* The script, as ScriptAssumption has it.
LEMMA ScriptIs ==
  /\ Len(Script) \in Nat /\ DOMAIN Script = 1 .. Len(Script)
  /\ \A n \in 1 .. Len(Script) : Script[n] \in Seq(Item) /\ Len(Script[n]) \in 1 .. 4
BY ScriptAssumption

\* A reader stays sound when more has been asked.
LEMMA SoundLater ==
  ASSUME NEW a, NEW m \in Nat, NEW n \in Nat, m <= n, Sound(a, m)
  PROVE  Sound(a, n)
<1>1. 0 .. m \subseteq 0 .. n /\ 1 .. m \subseteq 1 .. n
  OBVIOUS
<1> QED BY <1>1 DEF Sound

\* A reader that has not begun, or is over, is sound.
LEMMA OverSound == ASSUME NEW n \in Nat PROVE Sound(Over, n) /\ Sound(Idle, n)
<1>1. /\ Over.pc = "over" /\ Over.on = 0 /\ Over.req = NoReq /\ Over.keys = << >>
      /\ Idle.pc = "idle" /\ Idle.on = 0 /\ Idle.req = NoReq /\ Idle.keys = << >>
  BY DEF Over, Idle
<1>2. Lists(NoReq.answer)
  BY DEF Lists, NoReq
<1>3. << >> \in Seq(KeySet)
  OBVIOUS
<1> QED BY <1>1, <1>2, <1>3 DEF Sound, ReaderPcs

\* Whoever is disturbed stays sound.
LEMMA DisturbedSound ==
  ASSUME Shape, Scalars, NEW who, NEW r \in Readers, Sound(act[r], asked)
  PROVE  Sound(Disturbed(act, who)[r], asked)
<1> DEFINE b == Disturbed(act, who)[r]
<1>1. b = act[r] \/ b = [act[r] EXCEPT !.on = 0]
  BY DEF Disturbed
<1>2. CASE b = [act[r] EXCEPT !.on = 0]
  <2>1. /\ b.pc = act[r].pc /\ b.on = 0 /\ b.file = act[r].file /\ b.req = act[r].req
        /\ b.keys = act[r].keys
    BY <1>2 DEF Shape, IsReader, Fields
  <2>2. 0 \in 0 .. asked
    BY ScriptIs DEF Scalars
  <2> HIDE DEF b
  <2>3. b.pc \in ReaderPcs /\ b.on \in 0 .. asked
    BY <2>1, <2>2 DEF Sound
  <2>4. b.pc = "check" => b.file \in 1 .. asked
    BY <2>1 DEF Sound
  <2>5. Lists(b.req.answer)
    BY <2>1 DEF Sound
  <2>6. b.keys \in Seq(KeySet) /\ (b.pc = "type" => b.keys # << >>)
    BY <2>1 DEF Sound
  <2>7. Sound(b, asked)
    BY <2>3, <2>4, <2>5, <2>6, Zenon DEF Sound
  <2> QED BY <2>7 DEF b
<1> QED BY <1>1, <1>2

\* The types hold at the start.
LEMMA TypeInit == Init => TInv
<1> SUFFICES ASSUME Init PROVE TInv
  OBVIOUS
<1>1. Scalars
  <2>1. 0 \in 0 .. Len(Script) /\ 0 \in 0 .. 0 /\ 0 \in 0 .. MaxTouches /\ 0 \in 0 .. MaxEnds
    BY ScriptIs, ActorsAssumption
  <2>2. menu.n = 0
    BY DEF Init, NoMenu
  <2> QED BY <2>1, <2>2 DEF Init, Scalars, PostPcs
<1>2. ASSUME NEW r \in Readers PROVE Sound(act[r], asked)
  BY OverSound DEF Init
<1> QED BY <1>1, <1>2 DEF TInv

\* A step that disturbs the readers, or none of them.
LEMMA AllSound ==
  ASSUME IInv, TInv, Scalars', asked <= asked',
         act' = act \/ act' = Disturbed(act, {})
  PROVE  TInv'
<1>1. asked \in Nat /\ asked' \in Nat
  BY ScriptIs DEF TInv, Scalars
<1>2. ASSUME NEW r \in Readers PROVE Sound(act'[r], asked')
  <2>1. Sound(act[r], asked)
    BY DEF TInv
  <2>2. Sound(act'[r], asked)
    BY <2>1, DisturbedSound DEF TInv, IInv
  <2> QED BY <1>1, <2>2, SoundLater
<1> QED BY <1>2 DEF TInv

\* One reader moves on.
LEMMA OneSound ==
  ASSUME IInv, TInv, Scalars', asked' = asked, NEW r \in Readers, NEW b, Sound(b, asked),
         act' = [act EXCEPT ![r] = b]
  PROVE  TInv'
<1>1. \A q \in Readers : act'[q] = IF q = r THEN b ELSE act[q]
  BY DEF IInv, Shape
<1>2. ASSUME NEW q \in Readers PROVE Sound(act'[q], asked')
  BY <1>1 DEF TInv
<1> QED BY <1>2 DEF TInv

\* What a menu becomes is in range.
LEMMA BecomesScalars ==
  ASSUME Scalars, NEW m, m.n \in {0, menu.n}, Becomes(m)
  PROVE  menu'.n \in 0 .. asked /\ turn' \in {"idle", "busy", "posing", "asking"}
<1>1. NoMenu.n = 0 /\ 0 \in 0 .. asked
  BY ScriptIs DEF Scalars, NoMenu
<1> QED BY <1>1 DEF Becomes, Scalars

\* Claude and its user keep the types.
LEMMA ClaudeTypes == ASSUME IInv, TInv, Claude PROVE TInv'
<1>a. Scalars /\ asked \in Nat /\ Len(Script) \in Nat
  BY ScriptIs DEF TInv, Scalars
<1>b. 0 .. asked \subseteq 0 .. asked + 1 /\ 1 .. asked \subseteq 1 .. asked + 1
      /\ asked + 1 \in 1 .. asked + 1 /\ asked + 1 \in 0 .. asked + 1 /\ 0 \in 0 .. asked
      /\ asked \in 0 .. asked
  BY <1>a
<1>1. CASE AskHook
  <2>1. asked + 1 \in 0 .. Len(Script)
    BY <1>a, <1>1 DEF AskHook
  <2>2. Scalars'
    BY <1>a, <1>b, <1>1, <2>1 DEF AskHook, Scalars, bounds
  <2>3. act' = act /\ asked <= asked'
    BY <1>a, <1>1 DEF AskHook
  <2> QED BY <2>2, <2>3, AllSound
<1>2. CASE Show
  <2>1. menu'.n = asked
    BY <1>2 DEF Show, Fresh
  <2>2. Scalars'
    BY <1>a, <1>b, <1>2, <2>1 DEF Show, Scalars, bounds
  <2>3. act' = act /\ asked <= asked'
    BY <1>a, <1>2 DEF Show
  <2> QED BY <2>2, <2>3, AllSound
<1>3. CASE EndTurn
  <2>2. Scalars'
    BY <1>a, <1>3 DEF EndTurn, Scalars, bounds
  <2>3. act' = act /\ asked <= asked'
    BY <1>a, <1>3 DEF EndTurn
  <2> QED BY <2>2, <2>3, AllSound
<1>4. CASE StartTurn
  <2>2. Scalars'
    BY <1>a, <1>4 DEF StartTurn, Scalars, bounds
  <2>3. act' = act /\ asked <= asked'
    BY <1>a, <1>4 DEF StartTurn
  <2> QED BY <2>2, <2>3, AllSound
<1>5. CASE Touch
  <2>1. PICK m \in {NoMenu} \cup {Pressed(k) : k \in {1, 2, Tab, Right}} : Becomes(m)
    BY <1>5 DEF Touch
  <2>2. m.n \in {0, menu.n}
    BY PressedKeeps DEF IInv, NoMenu
  <2>3. touches' \in 0 .. MaxTouches
    BY <1>5, <1>a, ActorsAssumption DEF Touch, Scalars
  <2>4. Scalars'
    BY <1>a, <1>5, <2>1, <2>2, <2>3, BecomesScalars DEF Touch, Scalars
  <2>5. act' = Disturbed(act, {}) /\ asked <= asked'
    BY <1>a, <1>5 DEF Touch
  <2> QED BY <2>4, <2>5, AllSound
<1>6. CASE End
  <2>1. menu'.n = 0
    BY <1>6 DEF End, NoMenu
  <2>2. ends' \in 0 .. MaxEnds
    BY <1>6, <1>a, ActorsAssumption DEF End, Scalars
  <2>3. Scalars'
    BY <1>a, <1>b, <1>6, <2>1, <2>2 DEF End, Scalars
  <2>4. act' = Disturbed(act, {}) /\ asked <= asked'
    BY <1>a, <1>6 DEF End
  <2> QED BY <2>3, <2>4, AllSound
<1>7. CASE Boot
  <2>2. Scalars'
    BY <1>a, <1>7 DEF Boot, Scalars, bounds, claude
  <2>3. act' = act /\ asked <= asked'
    BY <1>a, <1>7 DEF Boot, claude
  <2> QED BY <2>2, <2>3, AllSound
<1> QED BY <1>1, <1>2, <1>3, <1>4, <1>5, <1>6, <1>7 DEF Claude

\* The messages keep the types.
LEMMA PostTypes ==
  ASSUME IInv, TInv, NEW p \in Posters,
         PostFind(p) \/ PostLaunch(p) \/ PostText(p) \/ PostEnter(p)
  PROVE  TInv'
<1>a. Scalars /\ asked \in Nat
  BY ScriptIs DEF TInv, Scalars
<1>b. asked' = asked /\ asked <= asked'
  BY <1>a DEF PostFind, PostLaunch, PostText, PostEnter, claude
<1>1. post' \in [Posters -> PostPcs]
  BY <1>a DEF PostFind, PostLaunch, PostText, PostEnter, Scalars, PostPcs
<1>2. CASE UNCHANGED <<menu, act, turn>>
  <2>1. Scalars'
    BY <1>a, <1>b, <1>1, <1>2 DEF PostFind, PostLaunch, PostText, PostEnter, Scalars,
       bounds, claude
  <2> QED BY <1>2, <1>b, <2>1, AllSound
<1>3. CASE act' = Disturbed(act, {}) /\ \E m \in {menu} \cup {Pressed(k) : k \in {1, 2}} :
             Becomes(m)
  <2>1. PICK m \in {menu} \cup {Pressed(k) : k \in {1, 2}} : Becomes(m)
    BY <1>3
  <2>2. m.n \in {0, menu.n}
    BY PressedKeeps DEF IInv
  <2>3. menu'.n \in 0 .. asked /\ turn' \in {"idle", "busy", "posing", "asking"}
    BY <1>a, <2>1, <2>2, BecomesScalars
  <2>4. Scalars'
    BY <1>a, <1>b, <1>1, <2>3 DEF PostFind, PostLaunch, PostText, PostEnter, Scalars,
       bounds, claude
  <2> QED BY <1>3, <1>b, <2>4, AllSound
<1>4. CASE act' = Disturbed(act, {}) /\ UNCHANGED menu
           /\ turn' \in {"idle", "busy", "posing", "asking"}
  <2>1. Scalars'
    BY <1>a, <1>b, <1>1, <1>4 DEF PostFind, PostLaunch, PostText, PostEnter, Scalars,
       bounds, claude
  <2> QED BY <1>4, <1>b, <2>1, AllSound
<1>5. PostFind(p) \/ PostLaunch(p) => UNCHANGED <<menu, act, turn>>
  BY DEF PostFind, PostLaunch, claude
<1>6. PostText(p) =>
        \/ UNCHANGED <<menu, act, turn>>
        \/ /\ act' = Disturbed(act, {})
           /\ \E m \in {menu} \cup {Pressed(k) : k \in {1, 2}} : Becomes(m)
  BY DEF PostText
<1>7. PostEnter(p) =>
        \/ UNCHANGED <<menu, act, turn>>
        \/ act' = Disturbed(act, {}) /\ Becomes(Pressed(1))
        \/ /\ act' = Disturbed(act, {}) /\ UNCHANGED menu
           /\ turn' \in {"idle", "busy", "posing", "asking"}
  BY <1>a DEF PostEnter, Scalars
<1> QED BY <1>2, <1>3, <1>4, <1>5, <1>6, <1>7

\* A questionnaire is a sequence of fields.
Formed(form) == \E n \in Nat : form.fields = [i \in 1 .. n |-> form.fields[i]]

\* The payload is a questionnaire,
LEMMA HookFormed == ASSUME NEW n \in 1 .. Len(Script) PROVE Formed(HookForm(n, Script[n]))
<1> DEFINE k == Len(Script[n])
           form == HookForm(n, Script[n])
<1>1. k \in Nat /\ DOMAIN Script[n] = 1 .. k
  BY ScriptIs
<1>2. form.fields = [i \in 1 .. k |-> form.fields[i]]
  BY <1>1 DEF HookForm
<1> HIDE DEF k, form
<1>3. Formed(form)
  BY <1>1, <1>2 DEF Formed
<1> QED BY <1>3 DEF form

\* so is any with a single field,
LEMMA OneFormed == ASSUME NEW id, NEW f PROVE Formed([id |-> id, fields |-> <<f>>])
<1> DEFINE s == <<f>>
<1>1. s = [i \in 1 .. 1 |-> s[i]]
  OBVIOUS
<1> HIDE DEF s
<1>2. Formed([id |-> id, fields |-> s])
  BY <1>1 DEF Formed
<1> QED BY <1>2 DEF s

\* the one that stands for none,
LEMMA NoneFormed == Formed(NoForm)
<1>1. << >> = [i \in 1 .. 0 |-> NoForm.fields[i]]
  OBVIOUS
<1> QED BY <1>1 DEF NoForm, Formed

\* and what is on the screen.
LEMMA ScreenFormed == Formed(OnScreen)
<1> DEFINE t == Template(menu.n)
<1>1. OnScreen = NoForm \/ OnScreen = PaneForm(t, Items, menu.tab)
  BY DEF OnScreen
<1> HIDE DEF t
<1>2. PaneForm(t, Items, menu.tab) = NoForm
      \/ \E id, f : PaneForm(t, Items, menu.tab) = [id |-> id, fields |-> <<f>>]
  BY DEF PaneForm
<1> QED BY <1>1, <1>2, OneFormed, NoneFormed

\* A question that was read leaves the reader sound.
LEMMA DecideSound ==
  ASSUME IInv, TInv, NEW r \in Readers, NEW form, Formed(form)
  PROVE  Sound(Decide(r, form), asked)
<1> DEFINE a == act[r]
           again == [a EXCEPT !.pc = "open", !.acting = TRUE, !.file = 0, !.on = 0]
           types == [a EXCEPT !.pc = "type", !.file = 0, !.form = form,
                              !.keys = Keystrokes(form, a.req.answer)]
           none == [a EXCEPT !.pc = "none", !.file = 0]
           fits == Typable(form, a.req.answer)
           b == Decide(r, form)
<1>a. IsReader(act[r]) /\ Sound(act[r], asked)
  BY DEF IInv, Shape, TInv
<1>b. asked \in Nat /\ 0 \in 0 .. asked
  BY ScriptIs DEF TInv, Scalars
<1>1. r \in Watchers => b \in {none, Idle}
  BY ActorsAssumption DEF Decide, Reported
<1>2. r \notin Watchers => b \in {again, Over} \/ (b = types /\ fits)
  <2>1. CASE r \notin Watchers /\ ~ act[r].acting
    BY <2>1 DEF Decide, Readers
  <2>2. CASE r \notin Watchers /\ act[r].acting
    BY <2>2 DEF Decide, Readers
  <2> QED BY <2>1, <2>2
<1>3. Sound(none, asked)
  <2>1. /\ none.pc = "none" /\ none.on = a.on /\ none.req = a.req /\ none.keys = a.keys
    BY <1>a DEF IsReader, Fields
  <2> HIDE DEF none
  <2> QED BY <1>a, <2>1 DEF Sound, ReaderPcs
<1>4. Sound(again, asked)
  <2>1. /\ again.pc = "open" /\ again.on = 0 /\ again.req = a.req /\ again.keys = a.keys
    BY <1>a DEF IsReader, Fields
  <2> HIDE DEF again
  <2> QED BY <1>a, <1>b, <2>1 DEF Sound, ReaderPcs
<1>5. fits => Sound(types, asked)
  <2>1. /\ types.pc = "type" /\ types.on = a.on /\ types.req = a.req
        /\ types.keys = Keystrokes(form, a.req.answer)
    BY <1>a DEF IsReader, Fields
  <2>2. PICK n \in Nat : form.fields = [i \in 1 .. n |-> form.fields[i]]
    BY DEF Formed
  <2>3. \A key \in DOMAIN a.req.answer : a.req.answer[key] \in Seq(STRING)
    BY <1>a DEF Sound, Lists
  <2>4. fits => Keystrokes(form, a.req.answer) \in Seq(KeySet)
                /\ Keystrokes(form, a.req.answer) # << >>
    BY <2>2, <2>3, KeysTyped
  <2>5. Lists(a.req.answer) /\ a.on \in 0 .. asked
    BY <1>a DEF Sound
  <2> HIDE DEF types, fits
  <2> QED BY <2>1, <2>4, <2>5 DEF Sound, ReaderPcs
<1>6. Sound(Idle, asked) /\ Sound(Over, asked)
  BY <1>b, OverSound
<1> HIDE DEF again, types, none, fits, b
<1>7. Sound(b, asked)
  BY <1>1, <1>2, <1>3, <1>4, <1>5, <1>6
<1> QED BY <1>7 DEF b

\* The reads keep the types.
LEMMA ReadTypes == ASSUME IInv, TInv, NEW r \in Readers, Read(r) PROVE TInv'
<1>a. IsReader(act[r]) /\ Sound(act[r], asked) /\ Scalars
  BY DEF IInv, Shape, TInv
<1>b. asked \in Nat /\ 0 \in 0 .. asked /\ hook \in 0 .. asked /\ asked <= Len(Script)
      /\ Len(Script) \in Nat
  BY ScriptIs DEF TInv, Scalars
<1>1. CASE OpenFile(r)
  <2> DEFINE b == [act[r] EXCEPT !.pc = IF hook = 0 THEN "look" ELSE "check",
                                 !.file = hook, !.on = Untouched]
  <2>1. /\ \E c \in {Opened(r), Over} : act' = [act EXCEPT ![r] = c]
        /\ asked' = asked
    BY <1>1 DEF OpenFile, claude
  <2>2. Scalars'
    BY <1>a, <1>1 DEF OpenFile, Scalars, bounds, claude
  <2>3. Sound(b, asked)
    <3>1. /\ b.pc = IF hook = 0 THEN "look" ELSE "check"
          /\ b.file = hook /\ b.on = Untouched /\ b.req = act[r].req /\ b.keys = act[r].keys
      BY <1>a DEF IsReader, Fields
    <3>2. Untouched \in 0 .. asked
      BY <1>a, <1>b DEF Untouched, Scalars
    <3>3. hook # 0 => hook \in 1 .. asked
      BY <1>b
    <3> HIDE DEF b
    <3>4. b.pc \in ReaderPcs /\ b.on \in 0 .. asked
      BY <3>1, <3>2 DEF ReaderPcs
    <3>5. b.pc = "check" => b.file \in 1 .. asked
      BY <3>1, <3>3
    <3>6. b.pc # "type"
      BY <3>1
    <3>7. Lists(b.req.answer) /\ b.keys \in Seq(KeySet)
      BY <1>a, <3>1 DEF Sound
    <3> QED BY <3>4, <3>5, <3>6, <3>7, Zenon DEF Sound
  <2>4. Opened(r) \in {Over, b}
    BY DEF Opened
  <2> HIDE DEF b
  <2>5. Sound(Opened(r), asked) /\ Sound(Over, asked)
    BY <1>b, <2>3, <2>4, OverSound
  <2> QED BY <2>1, <2>2, <2>5, OneSound
<1>2. CASE CheckFile(r) /\ act[r].file \in landed
  <2> DEFINE b == [act[r] EXCEPT !.pc = "look", !.file = 0]
  <2>1. act' = [act EXCEPT ![r] = b] /\ asked' = asked
    BY <1>2 DEF CheckFile, IInv, Shape, claude
  <2>2. Scalars'
    BY <1>a, <1>b, <1>2 DEF CheckFile, Scalars, bounds, claude
  <2>3. b.pc = "look" /\ b.on = act[r].on /\ b.req = act[r].req /\ b.keys = act[r].keys
    BY <1>a DEF IsReader, Fields
  <2> HIDE DEF b
  <2>4. Sound(b, asked)
    BY <1>a, <2>3 DEF Sound, ReaderPcs
  <2> QED BY <2>1, <2>2, <2>4, OneSound
<1>3. CASE CheckFile(r) /\ act[r].file \notin landed
  <2> DEFINE form == HookForm(act[r].file, Script[act[r].file])
             b == Decide(r, form)
  <2>1. act' = [act EXCEPT ![r] = b] /\ asked' = asked
    BY <1>3 DEF CheckFile, IInv, Shape, claude
  <2>2. Scalars'
    BY <1>a, <1>b, <1>3 DEF CheckFile, Scalars, bounds, claude
  <2>3. act[r].file \in 1 .. asked
    BY <1>a, <1>3 DEF CheckFile, Sound
  <2>4. act[r].file \in 1 .. Len(Script)
    BY <1>b, <2>3
  <2>5. Formed(form)
    BY <2>4, HookFormed
  <2> HIDE DEF form
  <2>6. Sound(b, asked)
    BY <2>5, DecideSound
  <2> HIDE DEF b
  <2> QED BY <2>1, <2>2, <2>6, OneSound
<1>4. CASE Look(r)
  <2> DEFINE b == Decide(r, OnScreen)
             none == Decide(r, NoForm)
             c == [none EXCEPT !.on = 0]
  <2>1. (act' = [act EXCEPT ![r] = b] \/ act' = [act EXCEPT ![r] = c]) /\ asked' = asked
    BY <1>4 DEF Look, claude
  <2>2. Scalars'
    BY <1>a, <1>4 DEF Look, Scalars, bounds, claude
  <2>3. Sound(b, asked)
    BY ScreenFormed, DecideSound
  <2>4. Sound(none, asked)
    BY NoneFormed, DecideSound
  <2>5. IsReader(none)
    BY <1>a, Decided
  <2> HIDE DEF b, none
  <2>6. c.on = 0 /\ c.pc = none.pc /\ c.req = none.req /\ c.file = none.file
        /\ c.keys = none.keys
    BY <2>5, UnseenIs
  <2> HIDE DEF c
  <2>7. Sound(c, asked)
    BY <1>b, <2>4, <2>6 DEF Sound
  <2> QED BY <2>1, <2>2, <2>3, <2>7, OneSound
<1> QED BY <1>1, <1>2, <1>3, <1>4 DEF Read

\* What is asked of a reader is an answer of the kind the questions take.
LEMMA RequestLists ==
  ASSUME TInv, NEW req \in Requests PROVE Lists(req.answer)
<1>1. asked \in 0 .. Len(Script) /\ Len(Script) \in Nat /\ DOMAIN Script = 1 .. Len(Script)
  BY ScriptIs DEF TInv, Scalars
<1>2. PICK n \in 1 .. asked :
        req \in IF installed
                THEN {[id |-> HookForm(n, Script[n]).id, answer |-> a] : a \in Answers[n]}
                ELSE {[id |-> PaneForm(Template(n), Script[n], 1).id, answer |-> a] :
                       a \in PaneAnswers[n]}
  BY DEF Requests
<1>3. n \in DOMAIN Script
  BY <1>1
<1>4. req.answer \in Answers[n] \cup PaneAnswers[n]
  <2>1. CASE installed
    <3>1. PICK a \in Answers[n] : req = [id |-> HookForm(n, Script[n]).id, answer |-> a]
      BY <1>2, <2>1
    <3> QED BY <3>1
  <2>2. CASE ~installed
    <3>1. PICK a \in PaneAnswers[n] :
            req = [id |-> PaneForm(Template(n), Script[n], 1).id, answer |-> a]
      BY <1>2, <2>2
    <3> QED BY <3>1
  <2> QED BY <2>1, <2>2
<1> QED BY <1>3, <1>4, AnswersAssumption DEF Lists

\* The keys that are left are keys.
LEMMA TailTyped ==
  ASSUME NEW s \in Seq(KeySet), s # << >>
  PROVE  Tail(s) \in Seq(KeySet) /\ (Len(s) > 1 <=> Tail(s) # << >>)
<1> DEFINE t == Tail(s)
<1>1. t \in Seq(KeySet) /\ Len(t) = Len(s) - 1 /\ Len(s) \in Nat /\ Len(s) # 0
  OBVIOUS
<1> HIDE DEF t
<1>2. t = << >> => Len(t) = 0
  BY <1>1, EmptySeq
<1>3. t # << >> => Len(t) \in Nat \ {0}
  BY <1>1, EmptySeq
<1> QED BY <1>1, <1>2, <1>3 DEF t

\* A request and its outcome keep the types.
LEMMA AnswerTypes ==
  ASSUME IInv, TInv, NEW a \in Answerers, Take(a) \/ Verify(a) PROVE TInv'
<1>1. a \in Readers /\ IsReader(act[a]) /\ Sound(act[a], asked) /\ Scalars
  BY DEF IInv, Shape, TInv, Readers
<1>2. Scalars' /\ asked' = asked
  BY <1>1 DEF Take, Verify, Scalars, bounds, claude
<1>b. asked \in Nat
  BY <1>1, ScriptIs DEF Scalars
<1>3. CASE Take(a)
  <2>1. PICK req \in Requests : act' = [act EXCEPT ![a].pc = "open", ![a].req = req]
    BY <1>3 DEF Take
  <2> DEFINE b == [act[a] EXCEPT !.pc = "open", !.req = req]
  <2>2. act' = [act EXCEPT ![a] = b]
    BY <1>1, <2>1 DEF IInv, Shape
  <2>3. b.pc = "open" /\ b.on = act[a].on /\ b.req = req /\ b.keys = act[a].keys
    BY <1>1 DEF IsReader, Fields
  <2>4. Lists(req.answer)
    BY RequestLists
  <2> HIDE DEF b
  <2>5. Sound(b, asked)
    BY <1>1, <2>3, <2>4 DEF Sound, ReaderPcs
  <2> QED BY <1>1, <1>2, <2>2, <2>5, OneSound
<1>4. CASE Verify(a)
  <2>1. PICK pc \in {"failed", "ok"} :
          act' = [act EXCEPT ![a] = Ended([act[a] EXCEPT !.pc = pc])]
    BY <1>1, <1>4 DEF Verify, IInv, Shape
  <2> DEFINE e == [act[a] EXCEPT !.pc = pc]
  <2>2. e.pc = pc /\ e.on = act[a].on /\ e.req = act[a].req /\ e.keys = act[a].keys
    BY <1>1 DEF IsReader, Fields
  <2> HIDE DEF e
  <2>3. Sound(e, asked)
    BY <1>1, <2>2 DEF Sound, ReaderPcs
  <2>4. Sound(Ended(e), asked)
    BY <1>b, <2>3, EndedIs, OverSound
  <2>5. act' = [act EXCEPT ![a] = Ended(e)]
    BY <2>1 DEF e
  <2> QED BY <1>1, <1>2, <2>4, <2>5, OneSound
<1> QED BY <1>3, <1>4

\* A key that is typed keeps the types.
LEMMA KeyTypes ==
  ASSUME IInv, TInv, NEW a \in Answerers, Type(a) \/ TypeFails(a) PROVE TInv'
<1>1. /\ a \in Readers /\ IsReader(act[a]) /\ act[a].pc = "type" /\ Sound(act[a], asked)
      /\ Scalars
  BY TypeSteps DEF IInv, Shape, Readers, TInv
<1>b. asked \in Nat /\ 0 \in 0 .. asked
  BY <1>1, ScriptIs DEF Scalars
<1>2. UNCHANGED <<installed, touches, ends, proc, hook, post>>
  BY TypeSteps DEF bounds
<1>3. CASE Gone(a)
  <2>1. Scalars' /\ asked' = asked
    BY <1>1, <1>2, <1>3 DEF Gone, Scalars, claude
  <2> QED BY <1>1, <1>3, <1>b, <2>1, OverSound, OneSound DEF Gone
<1>4. CASE Breaks(a)
  <2>1. PICK e : /\ Struck(e, a, "broken") /\ e.keys = act[a].keys
                 /\ act' = [act EXCEPT ![a] = Ended(e)]
    BY <1>1, <1>4, BreaksIs DEF IInv
  <2>2. Scalars' /\ asked' = asked
    BY <1>1, <1>2, <1>4 DEF Breaks, Scalars, claude
  <2>3. Sound(e, asked)
    BY <1>1, <2>1 DEF Struck, Sound, ReaderPcs
  <2>4. Sound(Ended(e), asked)
    BY <1>b, <2>3, EndedIs, OverSound
  <2> QED BY <1>1, <2>1, <2>2, <2>4, OneSound
<1>5. ASSUME NEW pc \in {NextPc(a), "broken"}, Presses(a, pc) PROVE TInv'
  <2> DEFINE m == Key(a)
             d == Disturbed(act, {a})
  <2>1. PICK e : /\ Struck(e, a, pc) /\ Landing(e, a)
                 /\ act' = [q \in Readers |-> IF q = a THEN Ended(e) ELSE d[q]]
    BY <1>1, <1>5, PressesIs DEF IInv
  <2>2. m.n = menu.n /\ Becomes(m) /\ UNCHANGED <<asked, inTurn, landed>>
    BY <1>5, PressedKeeps DEF IInv, Presses, Key
  <2> HIDE DEF m
  <2>3. menu'.n \in 0 .. asked /\ turn' \in {"idle", "busy", "posing", "asking"}
    BY <1>1, <2>2, BecomesScalars
  <2>4. Scalars'
    BY <1>1, <1>2, <2>2, <2>3 DEF Scalars
  <2>5. \A q \in Readers : Sound(d[q], asked)
    BY <1>1, DisturbedSound DEF IInv, TInv
  <2> HIDE DEF d
  <2>6. e.keys \in Seq(KeySet) /\ (pc = "type" => e.keys # << >>)
    <3> DEFINE keys == act[a].keys
    <3>1. keys \in Seq(KeySet) /\ keys # << >> /\ e.keys = Tail(keys)
      BY <1>1, <2>1 DEF Sound, Landing
    <3>2. pc = "type" => Len(keys) > 1
      BY DEF NextPc
    <3> HIDE DEF keys
    <3>3. Tail(keys) \in Seq(KeySet) /\ (Len(keys) > 1 => Tail(keys) # << >>)
      BY <3>1, TailTyped
    <3> QED BY <3>1, <3>2, <3>3
  <2>7. pc \in {"type", "verify", "ok", "broken"}
    BY DEF NextPc
  <2>8. e.pc = pc /\ e.on \in 0 .. asked /\ Lists(e.req.answer)
    BY <1>1, <2>1 DEF Struck, Sound
  <2>9. Sound(e, asked)
    BY <2>6, <2>7, <2>8 DEF Sound, ReaderPcs
  <2>10. Sound(Ended(e), asked)
    BY <1>b, <2>9, EndedIs, OverSound
  <2>11. ASSUME NEW q \in Readers PROVE Sound(act'[q], asked')
    <3>1. act'[q] = IF q = a THEN Ended(e) ELSE d[q]
      BY <2>1
    <3> QED BY <2>2, <2>5, <2>10, <3>1
  <2> QED BY <2>4, <2>11 DEF TInv
<1> QED BY <1>3, <1>4, <1>5, TypeSteps

\* Every step keeps the types.
LEMMA TypeNext == ASSUME IInv, TInv, [Next]_vars PROVE TInv'
<1>1. CASE UNCHANGED vars
  <2>1. Scalars'
    BY <1>1 DEF vars, bounds, claude, TInv, Scalars
  <2>2. act' = act /\ asked' = asked
    BY <1>1 DEF vars, claude
  <2> QED BY <2>1, <2>2 DEF TInv
<1>2. CASE Next
  BY <1>2, ClaudeTypes, ReadTypes, AnswerTypes, KeyTypes, PostTypes DEF Next
<1> QED BY <1>1, <1>2

\* The types hold for any script, answers and number of readers and messages.
LEMMA TypeInvariant == Spec => []TInv
<1>1. TInv /\ IInv /\ [Next]_vars => TInv'
  BY TypeNext
<1> QED BY <1>1, TypeInit, Invariant, PTL DEF Spec

\* The state has its types: in particular nothing but the keys of a menu is ever
\* typed for an answer (keystrokesFor refuses a value that is not an option).
THEOREM TypeCorrect == Spec => []TypeOK
<1>1. TInv => TypeOK
  <2> SUFFICES ASSUME TInv PROVE TypeOK
    OBVIOUS
  <2>1. ASSUME NEW r \in Readers PROVE act[r].pc \in ReaderPcs /\ act[r].on \in 0 .. asked
    BY DEF TInv, Sound
  <2>2. ASSUME NEW a \in Answerers
        PROVE  ToSet(act[a].keys) \subseteq Digits \cup {Tab, Right}
    <3> DEFINE s == act[a].keys
    <3>1. s \in Seq(KeySet)
      BY DEF TInv, Sound, Readers
    <3> HIDE DEF s
    <3>2. ToSet(s) \subseteq KeySet
      BY <3>1 DEF ToSet
    <3> QED BY <3>2 DEF s, KeySet
  <2>3. \A p \in Posters : post[p] \in {"idle", "launch", "text", "enter", "done"}
    BY DEF TInv, Scalars, PostPcs
  <2> QED BY <2>1, <2>2, <2>3 DEF TInv, Scalars, TypeOK
<1> QED BY <1>1, TypeInvariant, PTL

\* A reader that has the question in its hands saw the menu as it was drawn, and
\* the menu is still like that; one that reported no question overlooked it.
Overlooked(n) == n = 0 \/ (Len(Script[n]) = 1 /\ Hidden(Script[n], 1))
Saw(a, live, m) ==
  /\ Reading(a) => live /\ m = Fresh(a.on, Script[a.on])
  /\ a.pc = "none" => Overlooked(a.on)
SeenInv == \A r \in Readers : Saw(act[r], Live, menu)

\* At the start nobody has looked.
LEMMA SeenInit == Init => SeenInv
<1> SUFFICES ASSUME Init PROVE SeenInv
  OBVIOUS
<1>1. ASSUME NEW r \in Readers PROVE act[r].pc = "idle"
  BY DEF Init, Idle
<1> QED BY <1>1 DEF SeenInv, Saw, Reading

\* Nobody has a question in its hands that is not on the screen.
LEMMA NobodyReads ==
  ASSUME IInv, SeenInv, menu.n = 0 \/ ~Live, NEW r \in Readers PROVE ~Reading(act[r])
BY DEF IInv, ReadInv, SeenInv, Saw, Reading

\* Who has looked at a menu that is still there has still seen it.
LEMMA StillSeen ==
  ASSUME IInv, SeenInv, act' = act, menu.n = 0 \/ ~Live \/ UNCHANGED <<menu, proc>>
  PROVE  SeenInv'
<1>1. CASE UNCHANGED <<menu, proc>>
  <2>1. Live' = Live
    BY <1>1 DEF Live, Indexed
  <2> QED BY <1>1, <2>1 DEF SeenInv
<1>2. CASE menu.n = 0 \/ ~Live
  BY <1>2, NobodyReads DEF SeenInv, Saw
<1> QED BY <1>1, <1>2

\* Once the menu is touched nobody claims to have seen it.
LEMMA TouchedSeen ==
  ASSUME IInv, SeenInv, act' = Disturbed(act, {}) PROVE SeenInv'
<1>1. ASSUME NEW r \in Readers PROVE Saw(act'[r], Live', menu')
  <2>1. /\ act'[r].pc = act[r].pc /\ act'[r].on \in {0, act[r].on}
        /\ menu.n # 0 /\ Reading(act[r]) => act'[r].on = 0
    BY DisturbedKeeps DEF IInv
  <2>2. Reading(act[r]) => menu.n # 0
    BY DEF IInv, ReadInv, Reading
  <2>3. ~Reading(act'[r])
    BY <2>1, <2>2 DEF Reading
  <2>4. act'[r].pc = "none" => Overlooked(act'[r].on)
    BY <2>1 DEF SeenInv, Saw, Overlooked
  <2> QED BY <2>3, <2>4 DEF Saw
<1> QED BY <1>1 DEF SeenInv

\* A reader moves on alone.
LEMMA OneSeen ==
  ASSUME IInv, SeenInv, NEW r \in Readers, NEW b, act' = [act EXCEPT ![r] = b],
         UNCHANGED <<menu, proc>>, Saw(b, Live, menu)
  PROVE  SeenInv'
<1>1. Live' = Live
  BY DEF Live, Indexed
<1>2. \A q \in Readers : act'[q] = IF q = r THEN b ELSE act[q]
  BY DEF IInv, Shape
<1> QED BY <1>1, <1>2 DEF SeenInv

\* What the screen of a question shows is overlooked only if it shows nothing.
LEMMA ScreenSeen ==
  ASSUME Live, NEW n \in 1 .. Len(Script), menu = Fresh(n, Script[n]), OnScreen = NoForm
  PROVE  Overlooked(n)
<1>1. menu.n = n /\ menu.tab = 1 /\ n # 0
  BY ScriptIs DEF Fresh
<1>2. Items = Script[n]
  BY <1>1 DEF Items
<1> DEFINE t == Template(menu.n)
<1>3. PaneForm(t, Script[n], 1) = NoForm
  BY <1>1, <1>2 DEF OnScreen
<1> HIDE DEF t
<1>4. <<"pane", t, 1>> # <<"none", 0, 0>>
  OBVIOUS
<1>5. ~(Len(Script[n]) > 1) /\ Hidden(Script[n], 1)
  BY <1>3, <1>4 DEF PaneForm, NoForm
<1>6. Len(Script[n]) \in 1 .. 4
  BY ScriptIs
<1> QED BY <1>5, <1>6 DEF Overlooked

\* A watcher reports no question only if it found none.
LEMMA DecideSaw ==
  ASSUME IInv, TInv, SeenInv, NEW r \in Readers, NEW form,
         form # NoForm \/ Overlooked(act[r].on)
  PROVE  Saw(Decide(r, form), Live, menu)
<1> DEFINE b == Decide(r, form)
<1>1. ~Reading(b)
  BY Decided DEF IInv, Shape
<1>2. b.pc = "none" => b.on = act[r].on /\ form = NoForm
  <2>1. CASE r \in Watchers
    <3> DEFINE none == [act[r] EXCEPT !.pc = "none", !.file = 0]
    <3>1. b = IF form = NoForm THEN none ELSE Idle
      BY <2>1, ActorsAssumption DEF Decide, Reported
    <3>2. none.on = act[r].on
      BY DEF IInv, Shape, IsReader, Fields
    <3> HIDE DEF b, none
    <3> QED BY <3>1, <3>2 DEF Idle
  <2>2. CASE r \notin Watchers
    <3> DEFINE a == act[r]
               again == [a EXCEPT !.pc = "open", !.acting = TRUE, !.file = 0, !.on = 0]
               types == [a EXCEPT !.pc = "type", !.file = 0, !.form = form,
                                  !.keys = Keystrokes(form, a.req.answer)]
    <3>1. b \in {again, Over, types}
      <4>1. CASE act[r].acting
        BY <2>2, <4>1 DEF Decide, Readers
      <4>2. CASE ~act[r].acting
        BY <2>2, <4>2 DEF Decide, Readers
      <4> QED BY <4>1, <4>2
    <3>2. again.pc = "open" /\ types.pc = "type"
      BY DEF IInv, Shape, IsReader, Fields
    <3> HIDE DEF b, again, types
    <3> QED BY <3>1, <3>2, OverIs
  <2> QED BY <2>1, <2>2
<1> HIDE DEF b
<1>3. Saw(b, Live, menu)
  BY <1>1, <1>2 DEF Saw
<1> QED BY <1>3 DEF b

\* The reads keep it,
LEMMA ReadSees == ASSUME IInv, TInv, SeenInv, NEW r \in Readers, Read(r) PROVE SeenInv'
<1>a. IsReader(act[r]) /\ Sound(act[r], asked) /\ Saw(act[r], Live, menu)
  BY DEF IInv, Shape, TInv, SeenInv
<1>b. asked \in 0 .. Len(Script) /\ Len(Script) \in Nat
  BY ScriptIs DEF TInv, Scalars
<1>c. UNCHANGED <<menu, proc>>
  BY DEF Read, OpenFile, CheckFile, Look
<1>1. CASE OpenFile(r)
  <2> DEFINE b == [act[r] EXCEPT !.pc = IF hook = 0 THEN "look" ELSE "check",
                                 !.file = hook, !.on = Untouched]
  <2>1. \E c \in {Opened(r), Over} : act' = [act EXCEPT ![r] = c]
    BY <1>1 DEF OpenFile
  <2>2. b.pc \in {"look", "check"} /\ b.on = Untouched
    BY <1>a DEF IsReader, Fields
  <2>3. Untouched # 0 => Live /\ menu = Fresh(Untouched, Script[Untouched])
    BY DEF Untouched, Items
  <2>4. Opened(r) \in {Over, b}
    BY DEF Opened
  <2> HIDE DEF b
  <2>5. Saw(b, Live, menu)
    BY <2>2, <2>3 DEF Saw, Reading
  <2>6. Saw(Over, Live, menu)
    BY OverIs DEF Saw, Reading
  <2>7. Saw(Opened(r), Live, menu)
    BY <2>4, <2>5, <2>6
  <2> QED BY <1>c, <2>1, <2>6, <2>7, OneSeen
<1>2. CASE CheckFile(r) /\ act[r].file \in landed
  <2> DEFINE b == [act[r] EXCEPT !.pc = "look", !.file = 0]
  <2>1. act' = [act EXCEPT ![r] = b] /\ act[r].pc = "check"
    BY <1>2 DEF CheckFile, IInv, Shape
  <2>2. b.pc = "look" /\ b.on = act[r].on
    BY <1>a DEF IsReader, Fields
  <2> HIDE DEF b
  <2>3. Saw(b, Live, menu)
    BY <1>a, <2>1, <2>2 DEF Saw, Reading
  <2> QED BY <1>c, <2>1, <2>3, OneSeen
<1>3. CASE CheckFile(r) /\ act[r].file \notin landed
  <2> DEFINE form == HookForm(act[r].file, Script[act[r].file])
             b == Decide(r, form)
  <2>1. act' = [act EXCEPT ![r] = b]
    BY <1>3 DEF CheckFile, IInv, Shape
  <2>2. form # NoForm
    <3>1. form.id = <<"hook", act[r].file, 0>> /\ NoForm.id = <<"none", 0, 0>>
      BY DEF HookForm, NoForm
    <3>2. <<"hook", act[r].file, 0>> # <<"none", 0, 0>>
      OBVIOUS
    <3> QED BY <3>1, <3>2
  <2> HIDE DEF form
  <2>3. Saw(b, Live, menu)
    BY <2>2, DecideSaw
  <2> HIDE DEF b
  <2> QED BY <1>c, <2>1, <2>3, OneSeen
<1>4. CASE Look(r) /\ act' = [act EXCEPT ![r] = Decide(r, OnScreen)]
  <2> DEFINE b == Decide(r, OnScreen)
  <2>1. act' = [act EXCEPT ![r] = b] /\ act[r].pc = "look"
    BY <1>4 DEF Look
  <2>2. OnScreen # NoForm \/ Overlooked(act[r].on)
    <3>1. CASE act[r].on = 0
      BY <3>1 DEF Overlooked
    <3>2. CASE act[r].on # 0
      <4>1. Live /\ menu = Fresh(act[r].on, Script[act[r].on])
        BY <1>a, <2>1, <3>2 DEF Saw, Reading
      <4>2. act[r].on \in 1 .. Len(Script)
        BY <1>a, <1>b, <3>2 DEF Sound
      <4> QED BY <4>1, <4>2, ScreenSeen
    <3> QED BY <3>1, <3>2
  <2>3. Saw(b, Live, menu)
    BY <2>2, DecideSaw
  <2> HIDE DEF b
  <2> QED BY <1>c, <2>1, <2>3, OneSeen
<1>5. CASE Look(r) /\ act' = [act EXCEPT ![r] = [Decide(r, NoForm) EXCEPT !.on = 0]]
  <2> DEFINE none == Decide(r, NoForm)
             c == [none EXCEPT !.on = 0]
  <2>1. IsReader(none)
    BY <1>a, Decided
  <2>2. act' = [act EXCEPT ![r] = c]
    BY <1>5
  <2> HIDE DEF none
  <2>3. c.on = 0
    BY <2>1, UnseenIs
  <2> HIDE DEF c
  <2>4. Saw(c, Live, menu)
    BY <2>3 DEF Saw, Reading, Overlooked
  <2> QED BY <1>c, <2>2, <2>4, OneSeen
<1>6. Look(r) => \/ act' = [act EXCEPT ![r] = Decide(r, OnScreen)]
                 \/ act' = [act EXCEPT ![r] = [Decide(r, NoForm) EXCEPT !.on = 0]]
  BY DEF Look
<1> QED BY <1>1, <1>2, <1>3, <1>4, <1>5, <1>6 DEF Read

\* a request and its outcome,
LEMMA AnswerSees ==
  ASSUME IInv, TInv, SeenInv, NEW a \in Answerers, Take(a) \/ Verify(a) PROVE SeenInv'
<1>1. a \in Readers /\ IsReader(act[a])
  BY DEF IInv, Shape, Readers
<1>2. UNCHANGED <<menu, proc>>
  BY DEF Take, Verify
<1>3. CASE Take(a)
  <2>1. PICK req : act' = [act EXCEPT ![a].pc = "open", ![a].req = req]
    BY <1>3 DEF Take
  <2> DEFINE b == [act[a] EXCEPT !.pc = "open", !.req = req]
  <2>2. act' = [act EXCEPT ![a] = b]
    BY <1>1, <2>1 DEF IInv, Shape
  <2>3. b.pc = "open"
    BY <1>1 DEF IsReader, Fields
  <2> HIDE DEF b
  <2>4. Saw(b, Live, menu)
    BY <2>3 DEF Saw, Reading
  <2> QED BY <1>1, <1>2, <2>2, <2>4, OneSeen
<1>4. CASE Verify(a)
  <2>1. PICK pc \in {"failed", "ok"} :
          act' = [act EXCEPT ![a] = Ended([act[a] EXCEPT !.pc = pc])]
    BY <1>1, <1>4 DEF Verify, IInv, Shape
  <2> DEFINE e == [act[a] EXCEPT !.pc = pc]
             b == Ended(e)
  <2>2. e.pc = pc
    BY <1>1 DEF IsReader, Fields
  <2>3. act' = [act EXCEPT ![a] = b]
    BY <2>1
  <2> HIDE DEF e
  <2>4. b = e \/ b = Over
    BY EndedIs
  <2> HIDE DEF b
  <2>5. Saw(b, Live, menu)
    BY <2>2, <2>4, OverIs DEF Saw, Reading
  <2> QED BY <1>1, <1>2, <2>3, <2>5, OneSeen
<1> QED BY <1>3, <1>4

\* a key that is typed,
LEMMA KeySees ==
  ASSUME IInv, TInv, SeenInv, NEW a \in Answerers, Type(a) \/ TypeFails(a)
  PROVE  SeenInv'
<1>1. a \in Readers /\ IsReader(act[a]) /\ proc' = proc
  BY TypeSteps DEF IInv, Shape, Readers
<1>2. Saw(Over, Live, menu)
  BY OverIs DEF Saw, Reading
<1>3. CASE Gone(a)
  BY <1>1, <1>2, <1>3, OneSeen DEF Gone
<1>4. CASE Breaks(a)
  <2>1. PICK e : Struck(e, a, "broken") /\ act' = [act EXCEPT ![a] = Ended(e)]
    BY <1>1, <1>4, BreaksIs DEF IInv
  <2>2. Ended(e).pc \in {"broken", "over"}
    BY <2>1, EndedIs, OverIs DEF Struck
  <2>3. Saw(Ended(e), Live, menu) /\ menu' = menu
    BY <1>4, <2>2 DEF Saw, Reading, Breaks
  <2> QED BY <1>1, <2>1, <2>3, OneSeen
<1>5. ASSUME NEW pc \in {NextPc(a), "broken"}, Presses(a, pc) PROVE SeenInv'
  <2> DEFINE d == Disturbed(act, {a})
  <2>1. PICK e : /\ Struck(e, a, pc)
                 /\ act' = [q \in Readers |-> IF q = a THEN Ended(e) ELSE d[q]]
    BY <1>1, <1>5, PressesIs DEF IInv
  <2>2. \A q \in Readers :
          /\ d[q].pc = act[q].pc /\ d[q].on \in {0, act[q].on}
          /\ menu.n # 0 /\ q # a /\ Reading(act[q]) => d[q].on = 0
    BY DisturbedKeeps DEF IInv
  <2> DEFINE b == Ended(e)
  <2>3. b.pc \in {"type", "verify", "ok", "broken", "over"}
    <3>1. e.pc \in {"type", "verify", "ok", "broken"}
      BY <2>1 DEF Struck, NextPc
    <3> QED BY <3>1, EndedIs, OverIs
  <2> HIDE DEF b, d
  <2>4. ASSUME NEW q \in Readers PROVE Saw(act'[q], Live', menu')
    <3>1. act'[q] = IF q = a THEN b ELSE d[q]
      BY <2>1 DEF b
    <3>2. CASE q = a
      BY <2>3, <3>1, <3>2 DEF Saw, Reading
    <3>3. CASE q # a
      <4>1. Reading(act[q]) => menu.n # 0
        BY DEF IInv, ReadInv, Reading
      <4>2. ~Reading(act'[q])
        BY <2>2, <3>1, <3>3, <4>1 DEF Reading
      <4>3. act'[q].pc = "none" => Overlooked(act'[q].on)
        BY <2>2, <3>1, <3>3 DEF SeenInv, Saw, Overlooked
      <4> QED BY <4>2, <4>3 DEF Saw
    <3> QED BY <3>2, <3>3
  <2> QED BY <2>4 DEF SeenInv
<1> QED BY <1>3, <1>4, <1>5, TypeSteps

\* Claude and its user,
LEMMA ClaudeSees == ASSUME IInv, SeenInv, Claude PROVE SeenInv'
<1>1. CASE AskHook \/ EndTurn \/ StartTurn
  BY <1>1, StillSeen DEF AskHook, EndTurn, StartTurn
<1>2. CASE Show
  <2>1. menu.n = 0 /\ act' = act
    BY <1>2 DEF Show, IInv, NewestInv
  <2> QED BY <2>1, StillSeen
<1>3. CASE Touch \/ End
  BY <1>3, TouchedSeen DEF Touch, End
<1>4. CASE Boot
  <2>1. ~Live /\ act' = act
    BY <1>4 DEF Boot, Live, Indexed
  <2> QED BY <2>1, StillSeen
<1> QED BY <1>1, <1>2, <1>3, <1>4 DEF Claude

\* and the messages.
LEMMA PostSees ==
  ASSUME IInv, SeenInv, NEW p \in Posters,
         PostFind(p) \/ PostLaunch(p) \/ PostText(p) \/ PostEnter(p)
  PROVE  SeenInv'
<1>1. CASE PostFind(p)
  BY <1>1, StillSeen DEF PostFind
<1>2. CASE PostLaunch(p)
  <2>1. act' = act /\ UNCHANGED menu /\ (proc' # proc => ~Live)
    BY <1>2 DEF PostLaunch, Live, Indexed
  <2> QED BY <2>1, StillSeen
<1>3. CASE PostText(p) \/ PostEnter(p)
  <2>1. proc' = proc
    BY <1>3 DEF PostText, PostEnter
  <2>2. (act' = act /\ menu' = menu) \/ act' = Disturbed(act, {})
    BY <1>3 DEF PostText, PostEnter
  <2> QED BY <2>1, <2>2, StillSeen, TouchedSeen
<1> QED BY <1>1, <1>2, <1>3

\* So it holds always.
LEMMA SeenHolds == Spec => []SeenInv
<1>1. TInv /\ IInv /\ SeenInv /\ [Next]_vars => SeenInv'
  <2> SUFFICES ASSUME TInv, IInv, SeenInv, [Next]_vars PROVE SeenInv'
    OBVIOUS
  <2>1. CASE UNCHANGED vars
    BY <2>1, StillSeen DEF vars
  <2>2. CASE Next
    BY <2>2, ClaudeSees, ReadSees, AnswerSees, KeySees, PostSees DEF Next
  <2> QED BY <2>1, <2>2
<1> QED BY <1>1, SeenInit, TypeInvariant, Invariant, PTL DEF Spec

\* A question that is up on the screen is reported, by its payload or from the
\* screen, except a lone one whose options all look like rows of the menu
\* (State: PendingQuestion, then parsePaneQuestion).
THEOREM QuestionIsSeen == Spec => []SeenWhileUp
<1>1. SeenInv => SeenWhileUp
  BY DEF SeenInv, Saw, SeenWhileUp, Overlooked, Readers
<1> QED BY <1>1, SeenHolds, PTL

(***************************************************************************)
(* What the keys of an answer do in the menu of the question.              *)
(***************************************************************************)
\* The key that leaves a question with several choices.
Ahead(form) == IF Len(form.fields) > 1 THEN Tab ELSE Right

\* The digits of the values given for the i-th field.
DigitsOf(form, answer, i) ==
  LET f == form.fields[i] IN
  [j \in DOMAIN answer[f.key] |-> DigitOf(f, answer[f.key][j])]

\* The keys of one field, of all of them, and of those from the i-th on.
Part(form, answer, i) ==
  IF form.fields[i].multi THEN Append(DigitsOf(form, answer, i), Ahead(form))
  ELSE DigitsOf(form, answer, i)
Parts(form, answer) == [i \in DOMAIN form.fields |-> Part(form, answer, i)]
Closing(form) == IF EndsOnReview(form) THEN <<1>> ELSE << >>
Onward(form, answer, i) ==
  FlattenSeq(SubSeq(Parts(form, answer), i, Len(Parts(form, answer)))) \o Closing(form)

\* The rows that the answer names in a question, and the picks of a menu whose
\* questions before the i-th are answered.
Named(items, form, answer, i) ==
  {k \in DOMAIN items[i].opts :
     items[i].opts[k] \in ToSet(answer[form.fields[i].key])}
Picked(items, form, answer, i, S) ==
  [j \in DOMAIN items |-> IF j < i THEN Named(items, form, answer, j)
                          ELSE IF j = i THEN S ELSE {}]

\* The form is one of the items, all of it, and the answer is one to it.
Meant(items, form, answer) ==
  /\ items \in Seq(Item) /\ Len(items) # 0
  /\ form.fields = [i \in 1 .. Len(items) |-> form.fields[i]]
  /\ \A i \in 1 .. Len(items) :
       /\ form.fields[i].multi = items[i].multi /\ form.fields[i].opts = items[i].opts
       /\ IsInjective(items[i].opts)
       /\ answer[form.fields[i].key] \in Seq(STRING)
       /\ IsInjective(answer[form.fields[i].key])
  /\ Typable(form, answer)

\* The keys of the values: each is the digit of its row, and no two the same.
Spelt(opts, said, p, m) ==
  /\ m = Len(said) /\ m \in Nat /\ m >= 1
  /\ \A j \in 1 .. m :
       p[j] \in Digits \cap DOMAIN opts /\ opts[p[j]] = said[j]
  /\ {p[j] : j \in 1 .. m} = {k \in DOMAIN opts : opts[k] \in ToSet(said)}
  /\ \A j, k \in 1 .. m : p[j] = p[k] => j = k

\* The digit of a value is that of its row, when no two rows are called the same.
LEMMA DigitIs ==
  ASSUME NEW f, f.opts \in Seq(STRING), IsInjective(f.opts), NEW v, DigitOf(f, v) \in Digits
  PROVE  DigitOf(f, v) \in DOMAIN f.opts /\ f.opts[DigitOf(f, v)] = v
<1> DEFINE s == f.opts
           I == {i \in 1 .. Len(s) : s[i] = v}
<1>0. s \in Seq(STRING) /\ IsInjective(s)
  OBVIOUS
<1>1. DigitOf(f, v) = IF I # {} THEN Min(I) ELSE 0
  BY DEF DigitOf, SelectInSeq
<1>2. 0 \notin Digits
  BY DEF Digits
<1>3. PICK i \in I : TRUE
  BY <1>1, <1>2
<1> HIDE DEF s
<1>4. i \in 1 .. Len(s) /\ s[i] = v /\ Len(s) \in Nat /\ DOMAIN s = 1 .. Len(s)
  BY <1>0, <1>3
<1>5. \A j \in I : j = i
  BY <1>0, <1>4 DEF IsInjective
<1>6. I = {i}
  BY <1>3, <1>5
<1>7. Min(I) = i
  BY <1>4, <1>6 DEF Min
<1>8. DigitOf(f, v) = i
  BY <1>1, <1>6, <1>7
<1> QED BY <1>4, <1>8 DEF s

\* A field is spelt by its keys, which end by a key that moves on if it takes
\* several values.
FieldSpelt(items, form, answer, i) ==
  LET said == answer[form.fields[i].key]
      m == Len(said)
      p == Part(form, answer, i)
  IN /\ Spelt(items[i].opts, said, p, m)
     /\ p \in Seq(KeySet)
     /\ items[i].multi => Len(p) = m + 1 /\ p[m + 1] = Ahead(form)
     /\ ~items[i].multi => m = 1 /\ Len(p) = 1

\* Every field of an answer is spelt by its keys.
LEMMA FieldIsSpelt ==
  ASSUME NEW items, NEW form, NEW answer, Meant(items, form, answer),
         NEW i, i \in 1 .. Len(items)
  PROVE  FieldSpelt(items, form, answer, i)
<1> DEFINE f == form.fields[i]
           said == answer[f.key]
           m == Len(said)
           d == DigitsOf(form, answer, i)
           p == Part(form, answer, i)
           opts == items[i].opts
<1>1. DOMAIN form.fields = 1 .. Len(items)
  <2>1. DOMAIN [k \in 1 .. Len(items) |-> form.fields[k]] = 1 .. Len(items)
    OBVIOUS
  <2> QED BY <2>1, Zenon DEF Meant
<1>2. /\ said \in Seq(STRING) /\ IsInjective(said)
      /\ f.opts = opts /\ f.multi = items[i].multi /\ IsInjective(opts)
  BY DEF Meant
<1>3. /\ IF f.multi THEN said # << >> ELSE Len(said) = 1
      /\ \A j \in DOMAIN said : DigitOf(f, said[j]) \in Digits
  BY <1>1 DEF Meant, Typable
<1>4. opts \in Seq(STRING)
  <2>1. items[i] \in Item
    BY DEF Meant
  <2> QED BY <2>1 DEF Item
<1>5. d = [j \in DOMAIN said |-> DigitOf(f, said[j])]
  BY DEF DigitsOf
<1>6. p = IF f.multi THEN Append(d, Ahead(form)) ELSE d
  BY DEF Part
<1>7. Ahead(form) \in KeySet
  BY DEF Ahead, KeySet
<1> HIDE DEF f, said, d, p, opts
<1>8. m \in Nat /\ DOMAIN said = 1 .. m /\ m >= 1
  BY <1>2, <1>3
<1>9. \A j \in 1 .. m : DigitOf(f, said[j]) \in Digits \cap DOMAIN opts
                        /\ opts[DigitOf(f, said[j])] = said[j]
  BY <1>2, <1>3, <1>4, <1>8, DigitIs
<1> HIDE DEF m
<1>10. \A j \in 1 .. m : d[j] = DigitOf(f, said[j]) /\ d[j] \in KeySet
  BY <1>5, <1>8, <1>9 DEF KeySet
<1>11. d \in Seq(KeySet) /\ Len(d) = m
  BY <1>5, <1>8, <1>10
<1>12. /\ p \in Seq(KeySet) /\ \A j \in 1 .. m : p[j] = d[j]
       /\ f.multi => Len(p) = m + 1 /\ p[m + 1] = Ahead(form)
       /\ ~f.multi => m = 1 /\ Len(p) = 1
  <2>1. CASE f.multi
    <3>1. p = Append(d, Ahead(form))
      BY <1>6, <2>1
    <3> QED BY <1>7, <1>8, <1>11, <2>1, <3>1
  <2>2. CASE ~f.multi
    <3>1. p = d
      BY <1>6, <2>2
    <3>2. m = 1
      BY <1>3, <2>2 DEF m
    <3> QED BY <1>11, <2>2, <3>1, <3>2
  <2> QED BY <2>1, <2>2
<1>13. \A j \in 1 .. m : p[j] \in Digits \cap DOMAIN opts /\ opts[p[j]] = said[j]
  BY <1>9, <1>10, <1>12
<1>14. \A j, k \in 1 .. m : p[j] = p[k] => j = k
  BY <1>2, <1>8, <1>13 DEF IsInjective
<1>15. {p[j] : j \in 1 .. m} = {k \in DOMAIN opts : opts[k] \in ToSet(said)}
  <2>1. ToSet(said) = {said[j] : j \in 1 .. m}
    BY <1>8 DEF ToSet
  <2>2. ASSUME NEW k \in DOMAIN opts, opts[k] \in ToSet(said)
        PROVE  k \in {p[j] : j \in 1 .. m}
    <3>1. PICK j \in 1 .. m : opts[k] = said[j]
      BY <2>1, <2>2
    <3>2. p[j] \in DOMAIN opts /\ opts[p[j]] = opts[k]
      BY <1>13, <3>1
    <3>3. p[j] = k
      BY <1>2, <3>2 DEF IsInjective
    <3> QED BY <3>3
  <2>3. \A j \in 1 .. m : p[j] \in DOMAIN opts /\ opts[p[j]] \in ToSet(said)
    BY <1>13, <2>1
  <2> QED BY <2>2, <2>3
<1>16. Spelt(opts, said, p, m)
  BY <1>8, <1>13, <1>14, <1>15 DEF Spelt, m
<1> QED BY <1>2, <1>12, <1>16, Zenon DEF FieldSpelt, f, said, m, p, opts

\* The keys from the i-th field on are those of the field and those that follow.
LEMMA OnwardIs ==
  ASSUME NEW items, NEW form, NEW answer, Meant(items, form, answer),
         NEW i, i \in 1 .. Len(items) + 1
  PROVE  /\ Onward(form, answer, i) \in Seq(KeySet)
         /\ i <= Len(items) =>
              Onward(form, answer, i) = Part(form, answer, i) \o Onward(form, answer, i + 1)
         /\ i = Len(items) + 1 => Onward(form, answer, i) = Closing(form)
<1> DEFINE n == Len(items)
           ss == Parts(form, answer)
           e == Closing(form)
           o == Onward(form, answer, i)
<1>1. DOMAIN form.fields = 1 .. n
  <2>1. DOMAIN [k \in 1 .. Len(items) |-> form.fields[k]] = 1 .. Len(items)
    OBVIOUS
  <2> QED BY <2>1, Zenon DEF Meant
<1>2. n \in Nat
  BY DEF Meant
<1>3. ss = [k \in 1 .. n |-> Part(form, answer, k)]
  BY <1>1 DEF Parts
<1>4. \A k \in 1 .. n : Part(form, answer, k) \in Seq(KeySet)
  BY FieldIsSpelt, Zenon DEF FieldSpelt
<1>5. e \in Seq(KeySet)
  <2>1. 1 \in KeySet
    BY DEF KeySet, Digits
  <2>2. <<1>> \in Seq(KeySet) /\ << >> \in Seq(KeySet)
    BY <2>1
  <2> QED BY <2>2 DEF Closing
<1> HIDE DEF n, ss, e
<1>6. ss \in Seq(Seq(KeySet)) /\ Len(ss) = n
  BY <1>2, <1>3, <1>4
<1>7. i \in 1 .. n + 1
  BY DEF n
<1> DEFINE tt == SubSeq(ss, i, n)
<1>8. o = FlattenSeq(tt) \o e
  BY <1>6, Zenon DEF Onward, ss, e
<1>9. /\ tt \in Seq(Seq(KeySet)) /\ Len(tt) = n + 1 - i
      /\ \A k \in 1 .. Len(tt) : tt[k] = ss[i + k - 1]
  <2>1. \A k \in i .. n : ss[k] \in Seq(KeySet)
    BY <1>2, <1>6, <1>7
  <2>2. i \in Int /\ n \in Int
    BY <1>2, <1>7
  <2>3. /\ tt \in Seq(Seq(KeySet)) /\ Len(tt) = (IF i <= n THEN n - i + 1 ELSE 0)
        /\ \A k \in 1 .. n - i + 1 : tt[k] = ss[i + k - 1]
    BY <2>1, <2>2, SubSeqProperties
  <2> QED BY <1>2, <1>7, <2>3
<1>10. FlattenSeq(tt) \in Seq(KeySet)
  BY <1>9, FlattenType
<1>11. o \in Seq(KeySet)
  BY <1>5, <1>8, <1>10
<1>12. CASE i = n + 1
  <2>1. Len(tt) = 0 /\ tt = << >>
    BY <1>2, <1>9, <1>12
  <2>2. FlattenSeq(tt) = << >>
    BY <2>1, FlattenEmpty
  <2>3. o = e
    BY <1>5, <1>8, <2>2
  <2>4. ~(i <= n)
    BY <1>2, <1>12
  <2> QED BY <1>11, <2>3, <2>4 DEF n, e
<1>13. CASE i # n + 1
  <2>0. i <= n /\ i \in Nat /\ 1 <= Len(tt) /\ 1 \in Nat /\ i + 1 \in Int /\ i \in 1 .. n
    BY <1>2, <1>7, <1>9, <1>13
  <2> DEFINE uu == SubSeq(tt, 1, 1)
             vv == SubSeq(tt, 2, Len(tt))
             ww == SubSeq(ss, i + 1, n)
  <2>1. FlattenSeq(tt) = FlattenSeq(uu) \o FlattenSeq(SubSeq(tt, 1 + 1, Len(tt)))
    BY <1>9, <2>0, FlattenSplit
  <2>2. Len(uu) = 1 /\ uu[1] = tt[1]
    BY <1>9, <2>0
  <2>3. FlattenSeq(uu) = tt[1]
    BY <2>2, FlattenOne
  <2>4. tt[1] = Part(form, answer, i)
    BY <1>2, <1>3, <1>9, <2>0
  <2>5. vv = ww
    <3>1. \A k \in i + 1 .. n : ss[k] \in Seq(KeySet)
      BY <1>2, <1>6, <2>0
    <3>2. /\ ww \in Seq(Seq(KeySet)) /\ Len(ww) = (IF i + 1 <= n THEN n - (i + 1) + 1 ELSE 0)
          /\ \A k \in 1 .. n - (i + 1) + 1 : ww[k] = ss[i + 1 + k - 1]
      BY <1>2, <2>0, <3>1, SubSeqProperties
    <3>3. /\ vv \in Seq(Seq(KeySet)) /\ Len(vv) = (IF 2 <= Len(tt) THEN Len(tt) - 2 + 1 ELSE 0)
          /\ \A k \in 1 .. Len(tt) - 2 + 1 : vv[k] = tt[2 + k - 1]
      <4>1. \A k \in 2 .. Len(tt) : tt[k] \in Seq(KeySet)
        BY <1>9
      <4>2. 2 \in Int /\ Len(tt) \in Int
        BY <1>9
      <4> HIDE DEF tt
      <4> QED BY <4>1, <4>2, SubSeqProperties
    <3> HIDE DEF tt, ww, vv
    <3>4. Len(vv) = Len(ww) /\ Len(ww) = n - i
      BY <1>2, <1>9, <2>0, <3>2, <3>3
    <3>5. ASSUME NEW k \in 1 .. Len(vv) PROVE vv[k] = ww[k]
      <4>1. k \in 1 .. n - (i + 1) + 1 /\ k \in 1 .. Len(tt) - 2 + 1 /\ 2 + k - 1 \in 1 .. Len(tt)
        <5>1. Len(tt) = n + 1 - i
          BY <1>9
        <5>2. Len(vv) = n - i
          BY <3>4
        <5>3. n \in Nat /\ i \in Nat /\ i <= n
          BY <1>2, <2>0
        <5>4. k \in 1 .. n - i
          BY <5>2
        <5> QED BY <5>1, <5>3, <5>4
      <4>2. ww[k] = ss[i + 1 + k - 1] /\ vv[k] = tt[2 + k - 1]
        BY <3>2, <3>3, <4>1
      <4>3. tt[2 + k - 1] = ss[i + (2 + k - 1) - 1]
        BY <1>9, <4>1
      <4>4. i + (2 + k - 1) - 1 = i + 1 + k - 1
        BY <2>0, <4>1
      <4> QED BY <4>2, <4>3, <4>4
    <3> QED BY <3>2, <3>3, <3>4, <3>5, SeqEqual
  <2>6. SubSeq(tt, 1 + 1, Len(tt)) = vv
    OBVIOUS
  <2>7. FlattenSeq(tt) = Part(form, answer, i) \o FlattenSeq(ww)
    <3> HIDE DEF tt, uu, vv, ww
    <3> QED BY <2>1, <2>3, <2>4, <2>5, <2>6
  <2>8. Onward(form, answer, i + 1) = FlattenSeq(ww) \o e
    BY <1>6, Zenon DEF Onward, ss, e
  <2>9. FlattenSeq(ww) \in Seq(KeySet) /\ Part(form, answer, i) \in Seq(KeySet)
    <3>1. ww \in Seq(Seq(KeySet))
      <4>1. \A k \in i + 1 .. n : ss[k] \in Seq(KeySet)
        BY <1>2, <1>6, <2>0
      <4> QED BY <1>2, <2>0, <4>1, SubSeqProperties
    <3> QED BY <1>4, <2>0, <3>1, FlattenType
  <2> DEFINE x == Part(form, answer, i)
             y == FlattenSeq(ww)
  <2> HIDE DEF x, y
  <2>10. (x \o y) \o e = x \o (y \o e)
    <3>1. x \in Seq(KeySet) /\ y \in Seq(KeySet)
      BY <2>9 DEF x, y
    <3> QED BY <1>5, <3>1, ConcatAssociative
  <2>11. o = Part(form, answer, i) \o Onward(form, answer, i + 1)
    BY <1>8, <2>7, <2>8, <2>10, Zenon DEF x, y
  <2> QED BY <1>11, <1>13, <2>11 DEF n
<1> QED BY <1>12, <1>13

\* The whole answer is typed from the first field on.
LEMMA KeystrokesAre ==
  ASSUME NEW items, NEW form, NEW answer, Meant(items, form, answer)
  PROVE  Keystrokes(form, answer) = Onward(form, answer, 1)
<1> DEFINE n == Len(items)
           ss == Parts(form, answer)
           tt == [i \in DOMAIN form.fields |->
                    LET f == form.fields[i]
                        digits == [j \in DOMAIN answer[f.key] |-> DigitOf(f, answer[f.key][j])]
                    IN IF f.multi
                       THEN Append(digits, IF Len(form.fields) > 1 THEN Tab ELSE Right)
                       ELSE digits]
<1>1. DOMAIN form.fields = 1 .. n
  <2>1. DOMAIN [k \in 1 .. Len(items) |-> form.fields[k]] = 1 .. Len(items)
    OBVIOUS
  <2> QED BY <2>1, Zenon DEF Meant
<1>2. ss = [k \in 1 .. n |-> Part(form, answer, k)] /\ n \in Nat
  BY <1>1 DEF Parts, Meant
<1>3. \A k \in 1 .. n : Part(form, answer, k) \in Seq(KeySet)
  BY FieldIsSpelt, Zenon DEF FieldSpelt
<1>4. tt = ss
  BY DEF Parts, Part, DigitsOf, Ahead
<1>5. Keystrokes(form, answer) = FlattenSeq(tt) \o Closing(form)
  BY DEF Keystrokes, Closing
<1> HIDE DEF n, ss, tt
<1>6. ss \in Seq(Seq(KeySet)) /\ Len(ss) = n
  BY <1>2, <1>3
<1>7. SubSeq(ss, 1, Len(ss)) = ss
  BY <1>6, SubSeqFull
<1> QED BY <1>4, <1>5, <1>7, Zenon DEF Onward, ss

\* A menu, with what is picked in it.
At(n, i, f) == [n |-> n, tab |-> i, picked |-> f]

\* The i-th question takes several choices; one entry of what is picked is set.
Many(items, i) == items[i].multi
Put(f, i, S) == [f EXCEPT ![i] = S]

\* A digit is that of a row of the i-th question; where the menu goes once one
\* has been picked.
RowKey(items, i, k) ==
  /\ Len(items) \in Nat /\ DOMAIN items = 1 .. Len(items) /\ i \in 1 .. Len(items)
  /\ k \in Digits \cap DOMAIN items[i].opts
After(items, i) == IF Len(items) = 1 THEN 0 ELSE i + 1

\* A digit toggles a row of a question with several choices.
LEMMA PressToggle ==
  ASSUME NEW items, NEW n, NEW f, NEW i, NEW k, RowKey(items, i, k), Many(items, i)
  PROVE  Press(At(n, i, f), items, k) = At(n, i, Put(f, i, Toggled(f[i], k)))
<1> DEFINE m == At(n, i, f)
           N == Len(items)
           T == Toggled(f[i], k)
<1>0. N \in Nat /\ DOMAIN items = 1 .. N /\ i \in 1 .. N /\ k \in Digits \cap DOMAIN items[i].opts
  BY DEF RowKey
<1>1. m.n = n /\ m.tab = i /\ m.picked = f /\ m = [n |-> n, tab |-> i, picked |-> f]
  BY DEF At
<1>2. ~OnReview(m, items) /\ m.tab \in DOMAIN items /\ k \in Digits \cap DOMAIN items[m.tab].opts
  BY <1>0, <1>1 DEF OnReview
<1>3. Press(m, items, k) = [m EXCEPT !.picked[i] = T]
  <2>1. Press(m, items, k) = [m EXCEPT !.picked[i] = Toggled(@, k)]
    <3>1. k # Tab /\ k # Right
      BY <1>0 DEF Tab, Right, Digits
    <3> QED BY <1>1, <1>2, <3>1 DEF Press, Many
  <2>2. [m EXCEPT !.picked[i] = Toggled(@, k)] = [m EXCEPT !.picked[i] = Toggled(m.picked[i], k)]
    OBVIOUS
  <2> QED BY <1>1, <2>1, <2>2
<1>4. ASSUME NEW S PROVE [m EXCEPT !.picked[i] = S] = At(n, i, [f EXCEPT ![i] = S])
  BY DEF At
<1> HIDE DEF m, T
<1>5. Press(m, items, k) = At(n, i, Put(f, i, T))
  BY <1>3, <1>4 DEF Put
<1> QED BY <1>5 DEF m, T

\* It picks a row of a question with one choice, and moves on.
LEMMA PressPick ==
  ASSUME NEW items, NEW n, NEW f, NEW i, NEW k, RowKey(items, i, k), ~Many(items, i),
         NEW S, S = {k}
  PROVE  Press(At(n, i, f), items, k) = At(n, After(items, i), Put(f, i, S))
<1> DEFINE m == At(n, i, f)
           N == Len(items)
<1>0. N \in Nat /\ DOMAIN items = 1 .. N /\ i \in 1 .. N /\ k \in Digits \cap DOMAIN items[i].opts
  BY DEF RowKey
<1>1. m.n = n /\ m.tab = i /\ m.picked = f /\ m = [n |-> n, tab |-> i, picked |-> f]
  BY DEF At
<1>2. ~OnReview(m, items) /\ m.tab \in DOMAIN items /\ k \in Digits \cap DOMAIN items[m.tab].opts
  BY <1>0, <1>1 DEF OnReview
<1>3. Press(m, items, k) = [m EXCEPT !.picked[i] = S, !.tab = IF N = 1 THEN 0 ELSE @ + 1]
  <2>1. k # Tab /\ k # Right
    BY <1>0 DEF Tab, Right, Digits
  <2> QED BY <1>1, <1>2, <2>1 DEF Press, Many
<1>4. [m EXCEPT !.picked[i] = S, !.tab = IF N = 1 THEN 0 ELSE @ + 1]
        = At(n, After(items, i), Put(f, i, S))
  <2>1. [m EXCEPT !.picked[i] = S, !.tab = IF N = 1 THEN 0 ELSE @ + 1]
          = [[m EXCEPT !.picked[i] = S] EXCEPT !.tab = IF N = 1 THEN 0 ELSE @ + 1]
    OBVIOUS
  <2>2. [m EXCEPT !.picked[i] = S] = At(n, i, Put(f, i, S))
    BY DEF At, Put
  <2>3. ASSUME NEW g
        PROVE  [At(n, i, g) EXCEPT !.tab = IF N = 1 THEN 0 ELSE @ + 1]
                 = At(n, After(items, i), g)
    BY DEF At, After
  <2> QED BY <2>1, <2>2, <2>3
<1> HIDE DEF m
<1>5. Press(m, items, k) = At(n, After(items, i), Put(f, i, S))
  BY <1>3, <1>4
<1> QED BY <1>5 DEF m

\* The same key as the menu takes it.
AheadKey(items) == IF Len(items) > 1 THEN Tab ELSE Right

\* The key that moves on leaves what is picked as it is.
LEMMA PressAhead ==
  ASSUME NEW items, NEW N, N = Len(items), DOMAIN items = 1 .. N, NEW n, NEW f,
         NEW i, i \in 1 .. N, N \in Nat, Many(items, i)
  PROVE  Press(At(n, i, f), items, AheadKey(items)) = At(n, i + 1, f)
<1> DEFINE m == At(n, i, f)
           k == AheadKey(items)
<1>1. m.n = n /\ m.tab = i /\ m.picked = f
  BY DEF At
<1>2. ~OnReview(m, items) /\ m.tab \in DOMAIN items /\ k \notin Digits
  BY <1>1 DEF OnReview, Tab, Right, Digits, AheadKey
<1>3. k = (IF Len(items) > 1 THEN Tab ELSE Right) /\ (Len(items) > 1 \/ items[1].multi)
  BY <1>1 DEF Many, AheadKey
<1> HIDE DEF k
<1>4. Press(m, items, k) = [m EXCEPT !.tab = @ + 1]
  BY <1>2, <1>3 DEF Press
<1>5. [m EXCEPT !.tab = @ + 1] = At(n, i + 1, f)
  BY DEF At
<1> HIDE DEF m
<1>6. Press(m, items, k) = At(n, i + 1, f)
  BY <1>4, <1>5
<1> QED BY <1>6, Zenon DEF m, k

\* The review tab is submitted by the digit 1.
LEMMA PressSubmit ==
  ASSUME NEW items, NEW N, N = Len(items), N \in Nat, DOMAIN items = 1 .. N,
         NEW n, NEW f
  PROVE  Press(At(n, N + 1, f), items, 1) = At(n, 0, f)
<1> DEFINE m == At(n, N + 1, f)
<1>1. m.tab = N + 1
  BY DEF At
<1>2. OnReview(m, items) /\ m.tab \notin DOMAIN items
  BY <1>1 DEF OnReview
<1>3. Press(m, items, 1) = [m EXCEPT !.tab = 0]
  BY <1>2 DEF Press
<1>4. [m EXCEPT !.tab = 0] = At(n, 0, f)
  BY DEF At
<1> QED BY <1>3, <1>4

\* What is left of the keys p after the first q of them.
Left(p, q, s) ==
  /\ s \in Seq(KeySet) /\ s # << >> /\ q + Len(s) = Len(p)
  /\ \A j \in 1 .. Len(s) : s[j] = p[q + j]
\* The menu stands in the i-th question after the first q keys of its field, or
\* on the review tab.
InField(n, items, form, answer, m, keys, i, q) ==
  LET p == Part(form, answer, i) IN
  /\ i \in 1 .. Len(items) /\ q \in Nat
  /\ m = At(n, i, Picked(items, form, answer, i, {p[j] : j \in 1 .. q}))
  /\ \E s : Left(p, q, s) /\ keys = s \o Onward(form, answer, i + 1)
InReview(n, items, form, answer, m, keys) ==
  /\ EndsOnReview(form) /\ keys = <<1>>
  /\ m = At(n, Len(items) + 1, Picked(items, form, answer, Len(items) + 1, {}))
OnCourse(n, items, form, answer, m, keys) ==
  \/ \E i, q : InField(n, items, form, answer, m, keys, i, q)
  \/ InReview(n, items, form, answer, m, keys)

\* What is picked when a question is left is what is picked when the next comes up.
LEMMA PickedNext ==
  ASSUME NEW items, NEW form, NEW answer, DOMAIN items = 1 .. Len(items), Len(items) \in Nat,
         NEW i \in Nat
  PROVE  Picked(items, form, answer, i, Named(items, form, answer, i))
           = Picked(items, form, answer, i + 1, {})
BY DEF Picked

\* The next field begins, or the answer is reviewed.
LEMMA NextField ==
  ASSUME NEW n, NEW items, NEW form, NEW answer, Meant(items, form, answer),
         NEW i, i \in 1 .. Len(items) + 1,
         NEW m, m = At(n, i, Picked(items, form, answer, i, {})),
         NEW keys, keys = Onward(form, answer, i), i = Len(items) + 1 => EndsOnReview(form)
  PROVE  OnCourse(n, items, form, answer, m, keys) /\ keys # << >>
<1>0. Len(items) \in Nat
  BY DEF Meant
<1>1. CASE i = Len(items) + 1
  <2>1. keys = Closing(form)
    BY <1>1, OnwardIs
  <2>2. keys = <<1>> /\ <<1>> # << >>
    BY <1>1, <2>1 DEF Closing
  <2> QED BY <1>1, <2>2 DEF OnCourse, InReview
<1>2. CASE i # Len(items) + 1
  <2>1. i \in 1 .. Len(items) /\ i <= Len(items) /\ i + 1 \in 1 .. Len(items) + 1
    BY <1>0, <1>2
  <2> DEFINE p == Part(form, answer, i)
             t == Onward(form, answer, i + 1)
  <2>2. p \in Seq(KeySet) /\ Len(p) # 0
    BY <2>1, FieldIsSpelt DEF FieldSpelt, Spelt
  <2>3. keys = p \o t /\ t \in Seq(KeySet)
    <3>1. Onward(form, answer, i) = p \o t
      BY <2>1, OnwardIs
    <3>2. t \in Seq(KeySet)
      BY <2>1, OnwardIs
    <3> QED BY <3>1, <3>2
  <2>4. {p[j] : j \in 1 .. 0} = {}
    OBVIOUS
  <2>5. m = At(n, i, Picked(items, form, answer, i, {p[j] : j \in 1 .. 0}))
    BY <2>4
  <2> HIDE DEF p, t
  <2>6. Left(p, 0, p) /\ 0 \in Nat
    BY <2>2 DEF Left
  <2>7. InField(n, items, form, answer, m, keys, i, 0)
    BY <2>1, <2>3, <2>5, <2>6, Zenon DEF InField, p, t
  <2>8. keys # << >>
    BY <2>2, <2>3
  <2> QED BY <2>7, <2>8 DEF OnCourse
<1> QED BY <1>1, <1>2

\* What is picked when the whole answer has been given.
Done(items, form, answer) == [i \in DOMAIN items |-> Named(items, form, answer, i)]

\* On the review tab everything the answer names is picked.
LEMMA AllPicked ==
  ASSUME NEW items, NEW form, NEW answer, DOMAIN items = 1 .. Len(items), Len(items) \in Nat
  PROVE  Picked(items, form, answer, Len(items) + 1, {}) = Done(items, form, answer)
BY DEF Picked, Done

\* What a key of the answer makes of the menu and of the keys that are left.
Underway(n, items, form, answer, m, keys) ==
  /\ keys # << >> /\ m.tab # 0 /\ m.n = n
  /\ OnCourse(n, items, form, answer, m, keys)
Sent(n, items, form, answer, m, keys) ==
  keys = << >> /\ m = At(n, 0, Done(items, form, answer))

\* Something else is picked in one question.
LEMMA Repicked ==
  ASSUME NEW items, NEW form, NEW answer, NEW i \in DOMAIN items, DOMAIN items \subseteq Nat,
         NEW S, NEW T
  PROVE  Put(Picked(items, form, answer, i, S), i, T) = Picked(items, form, answer, i, T)
<1> DEFINE f == Picked(items, form, answer, i, S)
           g == Picked(items, form, answer, i, T)
<1>1. ASSUME NEW j \in DOMAIN items PROVE [f EXCEPT ![i] = T][j] = g[j]
  <2>1. ~(i < i)
    OBVIOUS
  <2> QED BY <2>1 DEF Picked
<1>2. DOMAIN f = DOMAIN items /\ DOMAIN g = DOMAIN items
  BY DEF Picked
<1>3. [f EXCEPT ![i] = T] = [j \in DOMAIN items |-> [f EXCEPT ![i] = T][j]]
  BY <1>2
<1>4. g = [j \in DOMAIN items |-> g[j]]
  BY DEF Picked
<1> QED BY <1>1, <1>3, <1>4 DEF Put

\* A form that asks the items has as many fields, and ends as they do.
LEMMA FieldsAre ==
  ASSUME NEW items, NEW form, NEW answer, Meant(items, form, answer)
  PROVE  /\ Len(items) \in Nat /\ Len(items) >= 1 /\ DOMAIN items = 1 .. Len(items)
         /\ Len(form.fields) = Len(items)
         /\ \A i \in 1 .. Len(items) : form.fields[i].multi = items[i].multi
         /\ EndsOnReview(form) <=> (Len(items) > 1 \/ items[1].multi)
         /\ Ahead(form) = AheadKey(items)
<1>1. Len(items) \in Nat /\ Len(items) >= 1 /\ DOMAIN items = 1 .. Len(items)
  BY DEF Meant
<1>2. Len([i \in 1 .. Len(items) |-> form.fields[i]]) = Len(items)
  BY <1>1
<1>3. Len(form.fields) = Len(items)
  BY <1>2, Zenon DEF Meant
<1>4. \A i \in 1 .. Len(items) : form.fields[i].multi = items[i].multi
  BY DEF Meant
<1> QED BY <1>1, <1>3, <1>4 DEF EndsOnReview, Ahead, AheadKey

\* A field has been answered: the menu stands at the next question, or on the
\* review tab.
LEMMA MovedOn ==
  ASSUME NEW n, NEW items, NEW form, NEW answer, Meant(items, form, answer),
         NEW i, i \in 1 .. Len(items), EndsOnReview(form)
  PROVE  Underway(n, items, form, answer,
                At(n, i + 1, Picked(items, form, answer, i, Named(items, form, answer, i))),
                Onward(form, answer, i + 1))
<1>1. Len(items) \in Nat /\ DOMAIN items = 1 .. Len(items)
  BY FieldsAre
<1>2. i + 1 \in 1 .. Len(items) + 1 /\ i \in Nat /\ i + 1 # 0
  BY <1>1
<1>3. Picked(items, form, answer, i, Named(items, form, answer, i))
        = Picked(items, form, answer, i + 1, {})
  BY <1>1, <1>2, PickedNext
<1> DEFINE m == At(n, i + 1, Picked(items, form, answer, i, Named(items, form, answer, i)))
           keys == Onward(form, answer, i + 1)
<1>4. m = At(n, i + 1, Picked(items, form, answer, i + 1, {}))
  BY <1>3
<1>5. m.tab # 0 /\ m.n = n
  BY <1>2 DEF At
<1> HIDE DEF m
<1>6. OnCourse(n, items, form, answer, m, keys) /\ keys # << >>
  BY <1>2, <1>4, NextField
<1> QED BY <1>5, <1>6, Zenon DEF Underway, m

\* How many values the answer gives to a field.
Given(form, answer, i) == Len(answer[form.fields[i].key])

\* A value of a question with several is picked.
LEMMA CourseToggle ==
  ASSUME NEW n, NEW items, NEW form, NEW answer, Meant(items, form, answer),
         NEW i, i \in 1 .. Len(items), Many(items, i),
         NEW q \in Nat, q + 1 <= Given(form, answer, i),
         NEW s, Left(Part(form, answer, i), q, s),
         NEW f, f = Picked(items, form, answer, i, {Part(form, answer, i)[j] : j \in 1 .. q}),
         NEW m2, m2 = Press(At(n, i, f), items, s[1]),
         NEW rest, rest = Tail(s) \o Onward(form, answer, i + 1)
  PROVE  Underway(n, items, form, answer, m2, rest)
<1> DEFINE p == Part(form, answer, i)
           said == answer[form.fields[i].key]
           opts == items[i].opts
           c == Given(form, answer, i)
           S == {p[j] : j \in 1 .. q}
           S2 == {p[j] : j \in 1 .. q + 1}
           k == p[q + 1]
           m == At(n, i, f)
           N == Len(items)
           t == Onward(form, answer, i + 1)
<1>0. f = Picked(items, form, answer, i, S)
  OBVIOUS
<1>1. N \in Nat /\ DOMAIN items = 1 .. N /\ i \in Nat /\ i # 0
  BY FieldsAre
<1>2. Spelt(opts, said, p, c) /\ p \in Seq(KeySet) /\ Len(p) = c + 1
  BY FieldIsSpelt DEF FieldSpelt, Given, Many
<1>3. s[1] = k
  <2>1. Left(p, q, s)
    OBVIOUS
  <2> HIDE DEF p
  <2>2. 1 \in 1 .. Len(s) /\ s[1] = p[q + 1]
    BY <2>1 DEF Left
  <2> QED BY <2>2
<1>4. t \in Seq(KeySet)
  BY <1>1, OnwardIs
<1>5. /\ c \in Nat /\ k \in Digits \cap DOMAIN opts
      /\ \A j \in 1 .. q : p[j] # k
  BY <1>2 DEF Spelt
<1> HIDE DEF m, p, opts, said, c, t
<1>a. Left(p, q, s) /\ q + 1 <= c
  BY DEF p, c
<1>6. S \cup {k} = S2 /\ k \notin S
  <2>1. 1 .. q + 1 = (1 .. q) \cup {q + 1}
    OBVIOUS
  <2> QED BY <1>5, <2>1
<1> HIDE DEF S, S2, k
<1>7. Toggled(S, k) = S2
  BY <1>6 DEF Toggled
<1>8. Put(f, i, Toggled(f[i], k)) = Picked(items, form, answer, i, S2)
  <2>1. f[i] = S
    BY <1>0, <1>1 DEF Picked
  <2>2. i \in DOMAIN items /\ DOMAIN items \subseteq Nat
    BY <1>1
  <2>3. Put(f, i, S2) = Picked(items, form, answer, i, S2)
    BY <1>0, <2>2, Repicked
  <2> QED BY <1>7, <2>1, <2>3
<1>9. Press(m, items, k) = At(n, i, Picked(items, form, answer, i, S2))
  <2>1. RowKey(items, i, k)
    BY <1>1, <1>5 DEF opts, RowKey
  <2>2. Press(At(n, i, f), items, k) = At(n, i, Put(f, i, Toggled(f[i], k)))
    BY <2>1, PressToggle
  <2> QED BY <1>8, <2>2 DEF m
<1> DEFINE s2 == Tail(s)
<1>b. rest = s2 \o t
  BY DEF t
<1>10. m2 = At(n, i, Picked(items, form, answer, i, S2))
  BY <1>3, <1>9 DEF m
<1>11. m2.tab # 0 /\ m2.n = n
  BY <1>1, <1>10 DEF At
<1>12. Left(p, q + 1, s2)
  <2>1. Len(s) \in Nat /\ Len(s) >= 1 /\ Len(s2) = Len(s) - 1 /\ s2 \in Seq(KeySet)
    BY <1>a DEF Left
  <2>2. q + Len(s) = Len(p) /\ Len(p) = c + 1 /\ q + 1 <= c
    BY <1>a, <1>2 DEF Left
  <2> HIDE DEF s2
  <2>3. Len(s2) # 0 /\ q + 1 + Len(s2) = Len(p)
    <3>1. c \in Nat
      BY <1>5
    <3> QED BY <2>1, <2>2, <3>1
  <2>4. ASSUME NEW j \in 1 .. Len(s2) PROVE s2[j] = p[q + 1 + j]
    <3>1. s2[j] = s[j + 1] /\ j + 1 \in 1 .. Len(s)
      BY <1>a, <2>1 DEF s2, Left
    <3>2. s[j + 1] = p[q + (j + 1)]
      BY <1>a, <3>1 DEF Left
    <3>3. q + (j + 1) = q + 1 + j
      BY <2>1
    <3> HIDE DEF p
    <3> QED BY <3>1, <3>2, <3>3
  <2>5. s2 # << >>
    BY <2>3
  <2> QED BY <2>1, <2>3, <2>4, <2>5 DEF Left
<1>13. rest # << >>
  BY <1>4, <1>12, <1>b DEF Left
<1>14. q + 1 \in Nat
  OBVIOUS
<1>15. InField(n, items, form, answer, m2, rest, i, q + 1)
  <2> HIDE DEF s2
  <2> QED BY <1>10, <1>12, <1>14, <1>b, Zenon DEF InField, p, t, S2
<1>16. OnCourse(n, items, form, answer, m2, rest)
  BY <1>15 DEF OnCourse
<1> QED BY <1>11, <1>13, <1>16, Zenon DEF Underway

\* The value of a question with one choice is picked, and the menu moves on.
LEMMA CoursePick ==
  ASSUME NEW n, NEW items, NEW form, NEW answer, Meant(items, form, answer),
         NEW i, i \in 1 .. Len(items), ~Many(items, i),
         NEW q \in Nat, NEW s, Left(Part(form, answer, i), q, s),
         NEW f, f = Picked(items, form, answer, i, {Part(form, answer, i)[j] : j \in 1 .. q}),
         NEW m2, m2 = Press(At(n, i, f), items, s[1]),
         NEW rest, rest = Tail(s) \o Onward(form, answer, i + 1)
  PROVE  Underway(n, items, form, answer, m2, rest) \/ Sent(n, items, form, answer, m2, rest)
<1> DEFINE p == Part(form, answer, i)
           said == answer[form.fields[i].key]
           opts == items[i].opts
           k == p[1]
           S == Named(items, form, answer, i)
           N == Len(items)
           t == Onward(form, answer, i + 1)
<1>1. N \in Nat /\ DOMAIN items = 1 .. N /\ i \in Nat /\ i # 0 /\ N >= 1
  BY FieldsAre
<1>2. Spelt(opts, said, p, 1) /\ p \in Seq(KeySet) /\ Len(p) = 1
  <2>1. FieldSpelt(items, form, answer, i)
    BY FieldIsSpelt
  <2>2. Spelt(opts, said, p, Len(said)) /\ p \in Seq(KeySet)
    BY <2>1, Zenon DEF FieldSpelt
  <2>3. Len(said) = 1 /\ Len(p) = 1
    BY <2>1 DEF FieldSpelt, Many
  <2> HIDE DEF opts, said, p
  <2> QED BY <2>2, <2>3
<1>3. t \in Seq(KeySet)
  BY <1>1, OnwardIs
<1>4. k \in Digits \cap DOMAIN opts /\ {p[j] : j \in 1 .. 1} = S
  BY <1>2 DEF Spelt, Named
<1>5. S = {k}
  BY <1>4
<1>6. s[1] = k /\ Tail(s) = << >>
  <2>1. Left(p, q, s)
    OBVIOUS
  <2> HIDE DEF p
  <2>2. s \in Seq(KeySet) /\ s # << >> /\ q + Len(s) = 1 /\ s[1] = p[q + 1]
    BY <1>2, <2>1 DEF Left
  <2>3. q = 0 /\ Len(s) = 1
    <3> DEFINE x == Len(s)
    <3>1. x \in Nat /\ x # 0
      BY <2>2
    <3>2. q + x = 1
      BY <2>2
    <3> HIDE DEF x
    <3>3. q = 0 /\ x = 1
      BY <3>1, <3>2
    <3> QED BY <3>3 DEF x
  <2>4. Tail(s) = << >>
    BY <2>2, <2>3, TailOfOne
  <2> QED BY <2>2, <2>3, <2>4
<1>7. rest = t
  <2>1. rest = Tail(s) \o t
    BY DEF t
  <2> HIDE DEF t
  <2>2. << >> \o t = t
    BY <1>3
  <2> QED BY <1>6, <2>1, <2>2
<1> HIDE DEF S, k, p, said, opts, t
<1>8. Put(f, i, S) = Picked(items, form, answer, i, S)
  <2>1. i \in DOMAIN items /\ DOMAIN items \subseteq Nat
    BY <1>1
  <2> QED BY <2>1, Repicked
<1>9. m2 = At(n, After(items, i), Picked(items, form, answer, i, S))
  <2>1. RowKey(items, i, k)
    BY <1>1, <1>4 DEF opts, RowKey
  <2>2. Press(At(n, i, f), items, k) = At(n, After(items, i), Put(f, i, S))
    BY <1>5, <2>1, PressPick
  <2> QED BY <1>6, <1>8, <2>2
<1>10. CASE N = 1
  <2>1. i = 1 /\ After(items, i) = 0 /\ ~EndsOnReview(form)
    BY <1>1, <1>10, FieldsAre DEF After, Many
  <2>2. t = << >>
    <3>1. i + 1 = Len(items) + 1 /\ i + 1 \in 1 .. Len(items) + 1
      BY <1>1, <1>10, <2>1
    <3>2. t = Closing(form)
      BY <3>1, OnwardIs DEF t
    <3> QED BY <2>1, <3>2 DEF Closing
  <2>3. Picked(items, form, answer, i, S) = Done(items, form, answer)
    <3>1. Picked(items, form, answer, i, S) = Picked(items, form, answer, i + 1, {})
      BY <1>1, PickedNext DEF S
    <3>2. Picked(items, form, answer, N + 1, {}) = Done(items, form, answer)
      BY <1>1, AllPicked
    <3> QED BY <1>10, <2>1, <3>1, <3>2
  <2> QED BY <1>7, <1>9, <2>1, <2>2, <2>3 DEF Sent
<1>11. CASE N # 1
  <2>1. EndsOnReview(form) /\ After(items, i) = i + 1
    BY <1>1, <1>11, FieldsAre DEF After
  <2>2. Underway(n, items, form, answer, At(n, i + 1, Picked(items, form, answer, i, S)), t)
    BY <2>1, MovedOn DEF S, t
  <2> QED BY <1>7, <1>9, <2>1, <2>2
<1> QED BY <1>10, <1>11

\* A question with several choices is left for the next one.
LEMMA CourseAhead ==
  ASSUME NEW n, NEW items, NEW form, NEW answer, Meant(items, form, answer),
         NEW i, i \in 1 .. Len(items), Many(items, i),
         NEW q \in Nat, ~(q + 1 <= Given(form, answer, i)),
         NEW s, Left(Part(form, answer, i), q, s),
         NEW f, f = Picked(items, form, answer, i, {Part(form, answer, i)[j] : j \in 1 .. q}),
         NEW m2, m2 = Press(At(n, i, f), items, s[1]),
         NEW rest, rest = Tail(s) \o Onward(form, answer, i + 1)
  PROVE  Underway(n, items, form, answer, m2, rest)
<1> DEFINE p == Part(form, answer, i)
           said == answer[form.fields[i].key]
           opts == items[i].opts
           c == Given(form, answer, i)
           S == Named(items, form, answer, i)
           N == Len(items)
           k == AheadKey(items)
           t == Onward(form, answer, i + 1)
<1>1. N \in Nat /\ DOMAIN items = 1 .. N /\ i \in Nat /\ i # 0 /\ N >= 1
  BY FieldsAre
<1>2. Spelt(opts, said, p, c) /\ p \in Seq(KeySet) /\ Len(p) = c + 1 /\ p[c + 1] = Ahead(form)
  BY FieldIsSpelt DEF FieldSpelt, Given, Many
<1>3. t \in Seq(KeySet)
  BY <1>1, OnwardIs
<1>4. c \in Nat /\ {p[j] : j \in 1 .. c} = S
  BY <1>2 DEF Spelt, Named
<1>5. Ahead(form) = k
  BY FieldsAre
<1>6. q = c /\ s[1] = k /\ Tail(s) = << >>
  <2>1. Left(p, q, s) /\ ~(q + 1 <= c)
    OBVIOUS
  <2> HIDE DEF p, c, k
  <2>2. s \in Seq(KeySet) /\ s # << >> /\ q + Len(s) = c + 1 /\ s[1] = p[q + 1]
    BY <1>2, <2>1 DEF Left
  <2>3. q = c /\ Len(s) = 1
    <3> DEFINE x == Len(s)
    <3>1. x \in Nat /\ x # 0
      BY <2>2
    <3>2. q + x = c + 1 /\ ~(q + 1 <= c)
      BY <2>1, <2>2
    <3>3. c \in Nat
      BY <1>4
    <3> HIDE DEF x
    <3>4. q = c /\ x = 1
      BY <3>1, <3>2, <3>3
    <3> QED BY <3>4 DEF x
  <2>4. Tail(s) = << >>
    BY <2>2, <2>3, TailOfOne
  <2> QED BY <1>2, <1>5, <2>2, <2>3, <2>4
<1>7. rest = t
  <2>1. rest = Tail(s) \o t
    BY DEF t
  <2> HIDE DEF t
  <2>2. << >> \o t = t
    BY <1>3
  <2> QED BY <1>6, <2>1, <2>2
<1>8. f = Picked(items, form, answer, i, S)
  BY <1>4, <1>6
<1> HIDE DEF S, p, said, opts, t, c
<1>9. m2 = At(n, i + 1, f)
  <2>1. Press(At(n, i, f), items, k) = At(n, i + 1, f)
    BY <1>1, PressAhead
  <2> QED BY <1>6, <2>1
<1>10. EndsOnReview(form)
  BY <1>1, FieldsAre DEF Many
<1>11. Underway(n, items, form, answer, At(n, i + 1, Picked(items, form, answer, i, S)), t)
  BY <1>10, MovedOn DEF S, t
<1> QED BY <1>7, <1>8, <1>9, <1>11

\* Each key takes the menu further, and the last one sends it.
LEMMA CourseStep ==
  ASSUME NEW n, NEW items, NEW form, NEW answer, Meant(items, form, answer),
         NEW m, NEW keys, OnCourse(n, items, form, answer, m, keys),
         NEW m2, m2 = Press(m, items, Head(keys)), NEW rest, rest = Tail(keys)
  PROVE  Underway(n, items, form, answer, m2, rest) \/ Sent(n, items, form, answer, m2, rest)
<1>1. ASSUME NEW i, NEW q, InField(n, items, form, answer, m, keys, i, q)
      PROVE  Underway(n, items, form, answer, m2, rest) \/ Sent(n, items, form, answer, m2, rest)
  <2> DEFINE p == Part(form, answer, i)
             f == Picked(items, form, answer, i, {p[j] : j \in 1 .. q})
             t == Onward(form, answer, i + 1)
  <2>1. i \in 1 .. Len(items) /\ q \in Nat /\ m = At(n, i, f)
    BY <1>1, Zenon DEF InField
  <2>2. PICK s : Left(p, q, s) /\ keys = s \o t
    BY <1>1, Zenon DEF InField
  <2>3. t \in Seq(KeySet)
    <3>1. Len(items) \in Nat
      BY FieldsAre
    <3> QED BY <2>1, <3>1, OnwardIs
  <2>4. Head(keys) = s[1] /\ Tail(keys) = Tail(s) \o t
    <3> HIDE DEF t
    <3>1. s \in Seq(KeySet) /\ s # << >>
      BY <2>2 DEF Left
    <3> QED BY <2>2, <2>3, <3>1, ConcatHead
  <2> HIDE DEF p, t
  <2>5. m2 = Press(At(n, i, f), items, s[1]) /\ rest = Tail(s) \o t
    BY <2>1, <2>4
  <2>6. CASE ~Many(items, i)
    BY <2>1, <2>2, <2>5, <2>6, CoursePick DEF p, t
  <2>7. CASE Many(items, i) /\ ~(q + 1 <= Given(form, answer, i))
    BY <2>1, <2>2, <2>5, <2>7, CourseAhead DEF p, t
  <2>8. CASE Many(items, i) /\ q + 1 <= Given(form, answer, i)
    BY <2>1, <2>2, <2>5, <2>8, CourseToggle DEF p, t
  <2> QED BY <2>6, <2>7, <2>8
<1>2. CASE InReview(n, items, form, answer, m, keys)
  <2>1. Len(items) \in Nat /\ DOMAIN items = 1 .. Len(items)
    BY FieldsAre
  <2>2. /\ Head(keys) = 1 /\ rest = << >>
        /\ m = At(n, Len(items) + 1, Done(items, form, answer))
    BY <1>2, <2>1, AllPicked DEF InReview
  <2>3. m2 = At(n, 0, Done(items, form, answer))
    BY <2>1, <2>2, PressSubmit
  <2> QED BY <2>2, <2>3 DEF Sent
<1> QED BY <1>1, <1>2 DEF OnCourse

\* The form asks the questions of the prompt, with their options.
Asks(form, items) ==
  /\ form.fields = [i \in 1 .. Len(items) |-> form.fields[i]]
  /\ \A i \in 1 .. Len(items) :
       form.fields[i].multi = items[i].multi /\ form.fields[i].opts = items[i].opts

\* No two options of a question are called the same, or as a row of the menu.
Unhidden(n) ==
  \A i \in DOMAIN Script[n] :
    LET opts == Script[n][i].opts IN IsInjective(opts) /\ ToSet(opts) \cap Chrome = {}

\* The payload is such a form,
LEMMA HookAsks ==
  ASSUME NEW n \in 1 .. Len(Script) PROVE Asks(HookForm(n, Script[n]), Script[n])
<1> DEFINE items == Script[n]
           form == HookForm(n, items)
<1>1. Len(items) \in Nat /\ DOMAIN items = 1 .. Len(items)
  BY ScriptIs
<1>2. form.fields = [i \in DOMAIN items |->
        [key |-> IF items[i].header = "" THEN DefaultKey(i) ELSE items[i].header,
         multi |-> items[i].multi, opts |-> items[i].opts]]
  BY DEF HookForm
<1> HIDE DEF form, items
<1>3. form.fields = [i \in 1 .. Len(items) |-> form.fields[i]]
  BY <1>1, <1>2
<1>4. \A i \in 1 .. Len(items) :
        form.fields[i].multi = items[i].multi /\ form.fields[i].opts = items[i].opts
  <2> SUFFICES ASSUME NEW i \in 1 .. Len(items)
               PROVE  form.fields[i].multi = items[i].multi /\ form.fields[i].opts = items[i].opts
    OBVIOUS
  <2> DEFINE f == [key |-> IF items[i].header = "" THEN DefaultKey(i) ELSE items[i].header,
                   multi |-> items[i].multi, opts |-> items[i].opts]
  <2>1. form.fields[i] = f
    BY <1>1, <1>2
  <2>2. f.multi = items[i].multi /\ f.opts = items[i].opts
    OBVIOUS
  <2> HIDE DEF f
  <2> QED BY <2>1, <2>2
<1>5. Asks(form, items)
  BY <1>3, <1>4 DEF Asks
<1> QED BY <1>5 DEF form, items

\* A question that no row of is hidden is shown whole.
LEMMA ShownWhole ==
  ASSUME NEW items, 1 \in DOMAIN items, items[1].opts \in Seq(STRING),
         ToSet(items[1].opts) \cap Chrome = {}
  PROVE  Shown(items, 1) = items[1].opts
<1> DEFINE s == items[1].opts
           ss == [k \in DOMAIN s |-> IF s[k] \in Chrome THEN << >> ELSE <<s[k]>>]
           tt == [k \in DOMAIN s |-> <<s[k]>>]
<1>1. Shown(items, 1) = FlattenSeq(ss)
  BY DEF Shown
<1>2. s \in Seq(STRING) /\ ToSet(s) \cap Chrome = {}
  OBVIOUS
<1> HIDE DEF s
<1>3. \A k \in DOMAIN s : s[k] \notin Chrome
  BY <1>2 DEF ToSet
<1>4. ss = tt
  BY <1>3
<1> HIDE DEF ss
<1>5. FlattenSeq(tt) = s
  BY <1>2, FlattenSingles
<1> HIDE DEF tt
<1> QED BY <1>1, <1>4, <1>5 DEF s

\* so is what the screen shows of a lone question; what it shows of several can
\* not be answered.
LEMMA PaneAsks ==
  ASSUME NEW n \in 1 .. Len(Script), Unhidden(n), NEW t, NEW form,
         form = PaneForm(t, Script[n], 1), NEW answer, Lists(answer), Typable(form, answer)
  PROVE  Asks(form, Script[n])
<1> DEFINE items == Script[n]
<1>1. Len(items) \in Nat /\ DOMAIN items = 1 .. Len(items) /\ 1 \in DOMAIN items
      /\ items \in Seq(Item)
  BY ScriptIs
<1>2. items[1].multi \in BOOLEAN /\ items[1].opts \in Seq(STRING)
  <2>1. items[1] \in Item
    BY <1>1
  <2> QED BY <2>1 DEF Item
<1>3. ToSet(items[1].opts) \cap Chrome = {}
  BY <1>1 DEF Unhidden
<1>4. form = PaneForm(t, items, 1)
  OBVIOUS
<1> HIDE DEF items
<1>5. form # NoForm
  BY DEF Typable, NoForm
<1>6. PICK f : /\ form.fields = <<f>>
               /\ f.multi = items[1].multi
               /\ f.opts = IF Len(items) > 1 THEN << >> ELSE Shown(items, 1)
  <2> DEFINE g == [key |-> "answer", multi |-> 1 \in DOMAIN items /\ items[1].multi,
                   opts |-> IF Len(items) > 1 THEN << >> ELSE Shown(items, 1)]
  <2>1. form.fields = <<g>>
    BY <1>4, <1>5 DEF PaneForm
  <2>2. g.multi = (1 \in DOMAIN items /\ items[1].multi)
    OBVIOUS
  <2>3. g.multi = items[1].multi
    BY <1>1, <1>2, <2>2
  <2>4. g.opts = IF Len(items) > 1 THEN << >> ELSE Shown(items, 1)
    OBVIOUS
  <2> HIDE DEF g
  <2> QED BY <2>1, <2>3, <2>4
<1>7. 1 \in DOMAIN form.fields /\ form.fields[1] = f
  BY <1>6
<1>8. Len(items) = 1
  <2> SUFFICES ASSUME Len(items) # 1 PROVE FALSE
    OBVIOUS
  <2>1. f.opts = << >>
    BY <1>1, <1>6
  <2>2. /\ f.key \in DOMAIN answer
        /\ IF f.multi THEN answer[f.key] # << >> ELSE Len(answer[f.key]) = 1
        /\ \A j \in DOMAIN answer[f.key] : DigitOf(f, answer[f.key][j]) \in Digits
    BY <1>7 DEF Typable
  <2>3. answer[f.key] \in Seq(STRING)
    BY <2>2 DEF Lists
  <2> DEFINE said == answer[f.key]
  <2>4. 1 \in DOMAIN said
    BY <2>2, <2>3
  <2>5. DigitOf(f, said[1]) \in Digits
    BY <2>2, <2>4
  <2> HIDE DEF said
  <2>6. DigitOf(f, said[1]) = 0
    <3>1. {i \in 1 .. Len(<< >>) : << >>[i] = said[1]} = {}
      OBVIOUS
    <3> QED BY <2>1, <3>1 DEF DigitOf, SelectInSeq
  <2> QED BY <2>5, <2>6 DEF Digits
<1>9. f.opts = items[1].opts
  <2>1. f.opts = Shown(items, 1)
    BY <1>6, <1>8
  <2> QED BY <1>1, <1>2, <1>3, <2>1, ShownWhole
<1>10. form.fields = [i \in 1 .. 1 |-> form.fields[i]]
  BY <1>6
<1>11. Asks(form, items)
  BY <1>6, <1>7, <1>8, <1>9, <1>10 DEF Asks
<1> QED BY <1>11 DEF items

(***************************************************************************)
(* While an answer is typed, the menu is where its keys have taken it.     *)
(***************************************************************************)
\* An answerer types what the answer says, until it has been submitted, unless
\* somebody else has touched the menu, or the menu can not be trusted.
Clear(b) ==
  /\ \A i \in DOMAIN b.form.fields : IsInjective(b.req.answer[b.form.fields[i].key])
  /\ Unhidden(b.on)
Quiet(m) == m.n = 0 \/ m = Fresh(m.n, Script[m.n])
Result(b) == Done(Script[b.on], b.form, b.req.answer)
Typing(b, m) ==
  /\ Meant(Script[b.on], b.form, b.req.answer)
  /\ OnCourse(b.on, Script[b.on], b.form, b.req.answer, m, b.keys)
Partly(b, m) ==
  m.n = b.on /\ \A i \in DOMAIN m.picked : m.picked[i] \subseteq Result(b)[i]
Landed(b, m) ==
  /\ b.pc = "type" => Typing(b, m)
  /\ b.pc = "verify" => b.got = Result(b) /\ Quiet(m)
  /\ b.pc = "ok" => b.got = Result(b)
  /\ b.pc = "broken" => b.got = Result(b) \/ Partly(b, m)
  /\ b.pc # "failed"
Lands(b, m) == b.on # 0 /\ Clear(b) => Landed(b, m)
LandInv == \A a \in Answerers : Lands(act[a], menu)

\* Who does not type is not concerned.
LEMMA OthersLand ==
  ASSUME NEW b, NEW m,
         b.pc \notin {"type", "verify", "ok", "failed", "broken"} \/ b.on = 0
  PROVE  Lands(b, m)
BY DEF Lands, Landed

\* Who types has the menu of the question before it.
LEMMA TypingMenu ==
  ASSUME NEW b, NEW m, Typing(b, m) PROVE m.n = b.on /\ m.tab # 0
<1> DEFINE items == Script[b.on]
<1>1. Len(items) \in Nat
  BY FieldsAre DEF Typing
<1> HIDE DEF items
<1>2. OnCourse(b.on, items, b.form, b.req.answer, m, b.keys)
  BY DEF Typing, items
<1>3. CASE InReview(b.on, items, b.form, b.req.answer, m, b.keys)
  <2>1. PICK f : m = At(b.on, Len(items) + 1, f)
    BY <1>3 DEF InReview
  <2> QED BY <1>1, <2>1 DEF At
<1>4. ASSUME NEW i, NEW q, InField(b.on, items, b.form, b.req.answer, m, b.keys, i, q)
      PROVE  m.n = b.on /\ m.tab # 0
  <2>1. i \in 1 .. Len(items) /\ \E f : m = At(b.on, i, f)
    BY <1>4 DEF InField
  <2> QED BY <1>1, <2>1 DEF At
<1> QED BY <1>2, <1>3, <1>4 DEF OnCourse

\* Who ends lands where it did.
LEMMA EndedLands == ASSUME NEW e, NEW m, Lands(e, m) PROVE Lands(Ended(e), m)
<1>1. Lands(Over, m)
  BY OverIs, OthersLand
<1> QED BY <1>1, EndedIs

\* On the way nothing is picked that the answer does not name.
LEMMA TypingPartly == ASSUME NEW b, NEW m, Typing(b, m) PROVE Partly(b, m)
<1> DEFINE items == Script[b.on]
           form == b.form
           answer == b.req.answer
           n == b.on
           keys == b.keys
<1>1. Meant(items, form, answer) /\ OnCourse(n, items, form, answer, m, keys)
  BY DEF Typing
<1>2. m.n = n
  BY TypingMenu
<1>3. Result(b) = Done(items, form, answer)
  BY DEF Result
<1> HIDE DEF items, form, answer, n, keys
<1>4. Len(items) \in Nat /\ DOMAIN items = 1 .. Len(items)
  BY <1>1, FieldsAre
<1>5. CASE InReview(n, items, form, answer, m, keys)
  <2>1. m.picked = Done(items, form, answer)
    BY <1>4, <1>5, AllPicked DEF InReview, At
  <2> QED BY <1>2, <1>3, <2>1 DEF Partly, n
<1>6. ASSUME NEW i, NEW q, InField(n, items, form, answer, m, keys, i, q) PROVE Partly(b, m)
  <2> DEFINE p == Part(form, answer, i)
             S == {p[j] : j \in 1 .. q}
             said == answer[form.fields[i].key]
  <2>1. /\ i \in 1 .. Len(items) /\ q \in Nat
        /\ m.picked = Picked(items, form, answer, i, S)
        /\ \E s : Left(p, q, s)
    BY <1>6 DEF InField, At
  <2>2. /\ Spelt(items[i].opts, said, p, Len(said)) /\ Len(p) \in Nat
        /\ Len(p) = Len(said) + 1 \/ Len(p) = Len(said)
    <3>1. FieldSpelt(items, form, answer, i)
      BY <1>1, <2>1, FieldIsSpelt
    <3>2. Spelt(items[i].opts, said, p, Len(said)) /\ p \in Seq(KeySet)
      BY <3>1 DEF FieldSpelt
    <3>3. CASE items[i].multi
      BY <3>1, <3>2, <3>3 DEF FieldSpelt
    <3>4. CASE ~items[i].multi
      BY <3>1, <3>2, <3>4 DEF FieldSpelt
    <3> QED BY <3>3, <3>4
  <2> HIDE DEF p, said
  <2>3. q <= Len(said) /\ Len(said) \in Nat
    <3>1. PICK s : Left(p, q, s)
      BY <2>1
    <3>2. q + Len(s) = Len(p) /\ Len(s) \in Nat /\ Len(s) # 0
      BY <3>1 DEF Left
    <3>3. Len(said) \in Nat
      BY <2>2 DEF Spelt
    <3> QED BY <2>1, <2>2, <3>2, <3>3
  <2>4. 1 .. q \subseteq 1 .. Len(said)
    BY <2>1, <2>3
  <2>5. S \subseteq Named(items, form, answer, i)
    BY <2>2, <2>4 DEF Spelt, Named, said
  <2> HIDE DEF S
  <2>6. ASSUME NEW j \in DOMAIN m.picked PROVE m.picked[j] \subseteq Done(items, form, answer)[j]
    <3>1. /\ j \in DOMAIN items
          /\ m.picked[j] = IF j < i THEN Named(items, form, answer, j)
                           ELSE IF j = i THEN S ELSE {}
      BY <2>1, <2>6 DEF Picked
    <3>2. Done(items, form, answer)[j] = Named(items, form, answer, j)
      BY <3>1 DEF Done
    <3> QED BY <2>5, <3>1, <3>2
  <2> QED BY <1>2, <1>3, <2>6 DEF Partly, n
<1> QED BY <1>1, <1>5, <1>6 DEF OnCourse

\* A menu that comes up finds nobody typing.
LEMMA LandsOn ==
  ASSUME NEW b, NEW m, NEW m2, Lands(b, m), m2 = m \/ (m.n = 0 /\ Quiet(m2))
  PROVE  Lands(b, m2)
<1>1. CASE m2 = m
  BY <1>1
<1>2. CASE m.n = 0 /\ Quiet(m2)
  <2> SUFFICES ASSUME b.on # 0, Clear(b) PROVE Landed(b, m2)
    BY DEF Lands
  <2>1. Landed(b, m)
    BY DEF Lands
  <2>2. ~Typing(b, m) /\ ~Partly(b, m)
    BY <1>2, TypingMenu DEF Partly
  <2> QED BY <1>2, <2>1, <2>2 DEF Landed
<1> QED BY <1>1, <1>2

\* The same of the answerers, when none of them moves,
LEMMA StillLands ==
  ASSUME LandInv, act' = act, menu' = menu \/ (menu.n = 0 /\ Quiet(menu'))
  PROVE  LandInv'
BY LandsOn DEF LandInv

\* One that is touched belongs to nobody.
LEMMA DisturbedLands ==
  ASSUME IInv, LandInv, NEW who, NEW a \in Answerers, a \notin who, NEW m2,
         menu.n = 0 => m2.n = 0
  PROVE  Lands(Disturbed(act, who)[a], m2)
<1> DEFINE b == Disturbed(act, who)[a]
<1>1. a \in Readers /\ IsReader(act[a]) /\ Lands(act[a], menu)
  BY DEF IInv, Shape, Readers, LandInv
<1>2. CASE menu.n = 0
  <2>1. b = act[a]
    BY <1>2 DEF Disturbed
  <2>2. Quiet(m2)
    BY <1>2 DEF Quiet
  <2> HIDE DEF b
  <2> QED BY <1>1, <1>2, <2>1, <2>2, LandsOn DEF b
<1>3. CASE menu.n # 0
  <2>1. b = IF act[a].pc \in {"ok", "failed"} THEN act[a] ELSE [act[a] EXCEPT !.on = 0]
    BY <1>1, <1>3 DEF Disturbed
  <2> HIDE DEF b
  <2>2. CASE act[a].pc \in {"ok", "failed"}
    <3>1. b = act[a]
      BY <2>1, <2>2
    <3>2. Lands(act[a], m2)
      BY <1>1, <2>2 DEF Lands, Landed
    <3> QED BY <3>1, <3>2 DEF b
  <2>3. CASE act[a].pc \notin {"ok", "failed"}
    <3>1. b.on = 0
      BY <1>1, <2>1, <2>3 DEF IsReader, Fields
    <3> QED BY <3>1, OthersLand DEF b
  <2> QED BY <2>2, <2>3
<1> QED BY <1>2, <1>3

\* and when somebody else touches the menu.
LEMMA TouchedLands ==
  ASSUME IInv, LandInv, act' = Disturbed(act, {}), menu.n = 0 => menu'.n = 0
  PROVE  LandInv'
<1>1. ASSUME NEW a \in Answerers PROVE Lands(act'[a], menu')
  BY DisturbedLands
<1> QED BY <1>1 DEF LandInv

\* One reader moves on alone.
LEMMA OneLands ==
  ASSUME IInv, LandInv, NEW r \in Readers, NEW b, act' = [act EXCEPT ![r] = b],
         menu' = menu, r \in Answerers => Lands(b, menu)
  PROVE  LandInv'
<1>1. \A q \in Answerers : act'[q] = IF q = r THEN b ELSE act[q]
  BY DEF IInv, Shape, Readers
<1> QED BY <1>1 DEF LandInv

\* The menu as it was drawn is that of the first question, with nothing picked.
LEMMA FreshIs ==
  ASSUME NEW n, NEW items, DOMAIN items \subseteq Nat \ {0}, NEW form, NEW answer
  PROVE  Fresh(n, items) = At(n, 1, Picked(items, form, answer, 1, {}))
<1>1. ASSUME NEW j \in DOMAIN items
      PROVE  Picked(items, form, answer, 1, {})[j] = {}
  BY DEF Picked
<1>2. Picked(items, form, answer, 1, {})
        = [j \in DOMAIN items |-> Picked(items, form, answer, 1, {})[j]]
  BY DEF Picked
<1>3. Picked(items, form, answer, 1, {}) = [j \in DOMAIN items |-> {}]
  BY <1>1, <1>2
<1> QED BY <1>3 DEF Fresh, At

\* An answer to the question on the screen is typed from the start.
LEMMA DecideLands ==
  ASSUME IInv, TInv, NEW a \in Answerers, NEW form,
         act[a].on # 0 => menu = Fresh(act[a].on, Script[act[a].on]),
         act[a].on # 0 /\ Unhidden(act[a].on) /\ Typable(form, act[a].req.answer)
           => Asks(form, Script[act[a].on])
  PROVE  Lands(Decide(a, form), menu)
<1> DEFINE r == act[a]
           again == [r EXCEPT !.pc = "open", !.acting = TRUE, !.file = 0, !.on = 0]
           types == [r EXCEPT !.pc = "type", !.file = 0, !.form = form,
                              !.keys = Keystrokes(form, r.req.answer)]
           b == Decide(a, form)
<1>a. a \in Readers /\ IsReader(act[a]) /\ Sound(act[a], asked) /\ a \notin Watchers
  BY ActorsAssumption DEF IInv, Shape, TInv, Readers
<1>b. asked \in 0 .. Len(Script) /\ Len(Script) \in Nat
  BY ScriptIs DEF TInv, Scalars
<1>1. b \in {again, Over} \/ (b = types /\ Typable(form, r.req.answer))
  <2>1. CASE ~ act[a].acting
    BY <1>a, <2>1 DEF Decide
  <2>2. CASE act[a].acting
    BY <1>a, <2>2 DEF Decide
  <2> QED BY <2>1, <2>2
<1>2. again.pc = "open"
  BY <1>a DEF IsReader, Fields
<1>3. /\ types.pc = "type" /\ types.on = r.on /\ types.req = r.req /\ types.form = form
      /\ types.keys = Keystrokes(form, r.req.answer)
  BY <1>a DEF IsReader, Fields
<1> HIDE DEF again, types, b
<1>4. CASE b \in {again, Over}
  <2>1. b.pc \in {"open", "over"}
    BY <1>2, <1>4, OverIs
  <2> QED BY <2>1, OthersLand DEF b
<1>5. CASE b = types /\ Typable(form, r.req.answer)
  <2> SUFFICES ASSUME types.on # 0, Clear(types) PROVE Typing(types, menu)
    BY <1>3, <1>5 DEF Lands, Landed, b
  <2> DEFINE n == r.on
             items == Script[n]
             answer == r.req.answer
  <2>1. n \in 1 .. Len(Script) /\ n # 0
    BY <1>3, <1>a, <1>b DEF Sound
  <2>2. /\ items \in Seq(Item) /\ Len(items) \in Nat /\ Len(items) >= 1
        /\ DOMAIN items = 1 .. Len(items)
    <3> HIDE DEF n
    <3>1. items \in Seq(Item) /\ Len(items) \in 1 .. 4
      BY <2>1, ScriptIs
    <3> HIDE DEF items
    <3> QED BY <3>1
  <2>3. Unhidden(n) /\ \A i \in DOMAIN form.fields : IsInjective(answer[form.fields[i].key])
    BY <1>3 DEF Clear
  <2>4. Asks(form, items) /\ menu = Fresh(n, items)
    BY <1>5, <2>1, <2>3
  <2>5. Lists(answer) /\ Typable(form, answer)
    BY <1>a, <1>5 DEF Sound
  <2> HIDE DEF items, answer, n
  <2>6. Meant(items, form, answer)
    <3>1. DOMAIN form.fields = 1 .. Len(items)
      <4>1. form.fields = [i \in 1 .. Len(items) |-> form.fields[i]]
        BY <2>4 DEF Asks
      <4>2. DOMAIN [i \in 1 .. Len(items) |-> form.fields[i]] = 1 .. Len(items)
        OBVIOUS
      <4> QED BY <4>1, <4>2, Zenon
    <3>2. ASSUME NEW i \in 1 .. Len(items)
          PROVE  /\ form.fields[i].multi = items[i].multi /\ form.fields[i].opts = items[i].opts
                 /\ IsInjective(items[i].opts)
                 /\ answer[form.fields[i].key] \in Seq(STRING)
                 /\ IsInjective(answer[form.fields[i].key])
      <4>1. form.fields[i].multi = items[i].multi /\ form.fields[i].opts = items[i].opts
        BY <2>4 DEF Asks
      <4>2. IsInjective(items[i].opts)
        BY <2>2, <2>3 DEF Unhidden, items
      <4>3. form.fields[i].key \in DOMAIN answer
        BY <2>5, <3>1 DEF Typable
      <4>4. answer[form.fields[i].key] \in Seq(STRING)
        BY <2>5, <4>3 DEF Lists
      <4>5. IsInjective(answer[form.fields[i].key])
        BY <2>3, <3>1
      <4> QED BY <4>1, <4>2, <4>4, <4>5
    <3>3. form.fields = [i \in 1 .. Len(items) |-> form.fields[i]]
      BY <2>4 DEF Asks
    <3>4. items \in Seq(Item) /\ Len(items) # 0
      BY <2>2
    <3> QED BY <2>5, <3>2, <3>3, <3>4, Zenon DEF Meant
  <2>7. menu = At(n, 1, Picked(items, form, answer, 1, {}))
    <3>1. DOMAIN items \subseteq Nat \ {0}
      BY <2>2
    <3> QED BY <2>4, <3>1, FreshIs
  <2>8. Keystrokes(form, answer) = Onward(form, answer, 1)
    BY <2>6, KeystrokesAre
  <2>9. OnCourse(n, items, form, answer, menu, Keystrokes(form, answer))
    <3>1. 1 \in 1 .. Len(items) + 1 /\ ~(1 = Len(items) + 1)
      BY <2>2
    <3> QED BY <2>6, <2>7, <2>8, <3>1, NextField
  <2> QED BY <1>3, <2>6, <2>9 DEF Typing, n, items, answer
<1> QED BY <1>1, <1>4, <1>5

\* The reads keep it,
LEMMA ReadLands ==
  ASSUME IInv, TInv, SeenInv, LandInv, NEW r \in Readers, Read(r) PROVE LandInv'
<1>a. IsReader(act[r]) /\ Sound(act[r], asked) /\ Saw(act[r], Live, menu)
  BY DEF IInv, Shape, TInv, SeenInv
<1>b. asked \in 0 .. Len(Script) /\ Len(Script) \in Nat
  BY ScriptIs DEF TInv, Scalars
<1>c. menu' = menu
  BY DEF Read, OpenFile, CheckFile, Look
<1>1. CASE OpenFile(r)
  <2>1. \E c \in {Opened(r), Over} : act' = [act EXCEPT ![r] = c]
    BY <1>1 DEF OpenFile
  <2>2. Opened(r).pc \in {"look", "check", "over"}
    BY <1>a, OverIs DEF Opened, IsReader, Fields
  <2>3. Lands(Opened(r), menu) /\ Lands(Over, menu)
    BY <2>2, OverIs, OthersLand
  <2> QED BY <1>c, <2>1, <2>3, OneLands
<1>2. CASE CheckFile(r) /\ act[r].file \in landed
  <2> DEFINE b == [act[r] EXCEPT !.pc = "look", !.file = 0]
  <2>1. act' = [act EXCEPT ![r] = b]
    BY <1>2 DEF CheckFile, IInv, Shape
  <2>2. b.pc = "look"
    BY <1>a DEF IsReader, Fields
  <2> HIDE DEF b
  <2>3. Lands(b, menu)
    BY <2>2, OthersLand
  <2> QED BY <1>c, <2>1, <2>3, OneLands
<1>3. CASE CheckFile(r) /\ act[r].file \notin landed
  <2> DEFINE form == HookForm(act[r].file, Script[act[r].file])
             b == Decide(r, form)
  <2>1. act' = [act EXCEPT ![r] = b] /\ act[r].pc = "check"
    BY <1>3 DEF CheckFile, IInv, Shape
  <2>2. Asks(form, Script[act[r].file])
    <3>1. act[r].file \in 1 .. Len(Script)
      BY <1>a, <1>b, <2>1 DEF Sound
    <3> QED BY <3>1, HookAsks
  <2>3. act[r].on # 0 => /\ menu = Fresh(act[r].on, Script[act[r].on])
                         /\ act[r].file = act[r].on
    BY <1>a, <2>1 DEF IInv, ReadInv, Saw, Reading
  <2> HIDE DEF form
  <2>4. r \in Answerers => Lands(b, menu)
    BY <2>2, <2>3, DecideLands
  <2> HIDE DEF b
  <2> QED BY <1>c, <2>1, <2>4, OneLands
<1>4. CASE Look(r) /\ act' = [act EXCEPT ![r] = Decide(r, OnScreen)]
  <2> DEFINE b == Decide(r, OnScreen)
             n == act[r].on
             answer == act[r].req.answer
  <2>1. act' = [act EXCEPT ![r] = b] /\ act[r].pc = "look"
    BY <1>4 DEF Look
  <2>2. n # 0 => Live /\ menu = Fresh(n, Script[n])
    BY <1>a, <2>1 DEF Saw, Reading
  <2>3. ASSUME n # 0, Unhidden(n), Typable(OnScreen, answer) PROVE Asks(OnScreen, Script[n])
    <3>1. n \in 1 .. Len(Script) /\ Lists(answer)
      BY <1>a, <1>b, <2>3 DEF Sound
    <3>2. Live /\ menu.n = n /\ menu.tab = 1
      BY <2>2, <2>3 DEF Fresh
    <3> HIDE DEF n, answer
    <3>3. OnScreen = PaneForm(Template(n), Script[n], 1)
      BY <2>3, <3>2 DEF OnScreen, Items
    <3> QED BY <2>3, <3>1, <3>3, PaneAsks
  <2>4. r \in Answerers => Lands(b, menu)
    BY <2>2, <2>3, DecideLands
  <2> HIDE DEF b
  <2> QED BY <1>c, <2>1, <2>4, OneLands
<1>5. CASE Look(r) /\ act' = [act EXCEPT ![r] = [Decide(r, NoForm) EXCEPT !.on = 0]]
  <2> DEFINE none == Decide(r, NoForm)
             c == [none EXCEPT !.on = 0]
  <2>1. IsReader(none)
    BY <1>a, Decided
  <2>2. act' = [act EXCEPT ![r] = c]
    BY <1>5
  <2> HIDE DEF none
  <2>3. c.on = 0
    BY <2>1, UnseenIs
  <2> HIDE DEF c
  <2>4. Lands(c, menu)
    BY <2>3, OthersLand
  <2> QED BY <1>c, <2>2, <2>4, OneLands
<1>6. Look(r) => \/ act' = [act EXCEPT ![r] = Decide(r, OnScreen)]
                 \/ act' = [act EXCEPT ![r] = [Decide(r, NoForm) EXCEPT !.on = 0]]
  BY DEF Look
<1> QED BY <1>1, <1>2, <1>3, <1>4, <1>5, <1>6 DEF Read

\* a request and its outcome,
LEMMA AnswerLands ==
  ASSUME IInv, TInv, LandInv, NEW a \in Answerers, Take(a) \/ Verify(a) PROVE LandInv'
<1>1. a \in Readers /\ IsReader(act[a]) /\ Sound(act[a], asked) /\ Lands(act[a], menu)
  BY DEF IInv, Shape, Readers, TInv, LandInv
<1>2. menu' = menu
  BY DEF Take, Verify
<1>3. CASE Take(a)
  <2>1. PICK req : act' = [act EXCEPT ![a].pc = "open", ![a].req = req]
    BY <1>3 DEF Take
  <2> DEFINE b == [act[a] EXCEPT !.pc = "open", !.req = req]
  <2>2. act' = [act EXCEPT ![a] = b]
    BY <1>1, <2>1 DEF IInv, Shape
  <2>3. b.pc = "open"
    BY <1>1 DEF IsReader, Fields
  <2> HIDE DEF b
  <2>4. Lands(b, menu)
    BY <2>3, OthersLand
  <2> QED BY <1>1, <1>2, <2>2, <2>4, OneLands
<1>4. CASE Verify(a)
  <2>1. PICK open \in {menu.n # 0 /\ OnReview(menu, Items), FALSE} :
          act' = [act EXCEPT ![a] =
                    Ended([act[a] EXCEPT !.pc = IF open THEN "failed" ELSE "ok"])]
    BY <1>1, <1>4 DEF Verify, IInv, Shape
  <2> DEFINE e == [act[a] EXCEPT !.pc = IF open THEN "failed" ELSE "ok"]
  <2>2. ASSUME Quiet(menu) PROVE ~open
    <3> SUFFICES ASSUME menu.n # 0 PROVE ~OnReview(menu, Items)
      BY <2>1
    <3>1. menu.n \in 1 .. Len(Script)
      BY ScriptIs DEF TInv, Scalars
    <3>2. Len(Items) \in 1 .. 4
      BY <3>1, ScriptIs DEF Items
    <3>3. menu.tab = 1
      BY <2>2 DEF Quiet, Fresh
    <3> QED BY <3>2, <3>3 DEF OnReview
  <2>3. /\ e.pc = (IF open THEN "failed" ELSE "ok") /\ e.on = act[a].on
        /\ e.form = act[a].form /\ e.req = act[a].req /\ e.got = act[a].got
    BY <1>1 DEF IsReader, Fields
  <2> HIDE DEF e
  <2>4. ASSUME e.on # 0, Clear(e) PROVE Landed(e, menu)
    <3>1. act[a].on # 0 /\ Clear(act[a])
      BY <2>3, <2>4 DEF Clear
    <3>2. act[a].got = Result(act[a]) /\ Quiet(menu)
      BY <1>1, <1>4, <3>1 DEF Lands, Landed, Verify
    <3>3. e.got = Result(e)
      BY <2>3, <3>2 DEF Result
    <3>4. e.pc = "ok"
      BY <2>2, <2>3, <3>2
    <3> QED BY <3>3, <3>4 DEF Landed
  <2>5. Lands(Ended(e), menu)
    BY <2>4, EndedLands DEF Lands
  <2>6. act' = [act EXCEPT ![a] = Ended(e)]
    BY <2>1 DEF e
  <2> QED BY <1>1, <1>2, <2>5, <2>6, OneLands
<1> QED BY <1>3, <1>4

\* a key that is typed,
LEMMA KeyLands ==
  ASSUME IInv, TInv, LandInv, NEW a \in Answerers, Type(a) \/ TypeFails(a) PROVE LandInv'
<1>1. /\ a \in Readers /\ IsReader(act[a]) /\ Lands(act[a], menu) /\ act[a].pc = "type"
      /\ Sound(act[a], asked)
  BY TypeSteps DEF IInv, Shape, Readers, LandInv, TInv
<1>2. CASE Gone(a)
  <2>1. Lands(Over, menu)
    BY OthersLand, OverIs
  <2> QED BY <1>1, <1>2, <2>1, OneLands DEF Gone
<1>3. CASE Breaks(a)
  <2>1. PICK e : Struck(e, a, "broken") /\ act' = [act EXCEPT ![a] = Ended(e)]
    BY <1>1, <1>3, BreaksIs DEF IInv
  <2>2. /\ e.pc = "broken" /\ e.on = act[a].on /\ e.form = act[a].form
        /\ e.req = act[a].req
    BY <2>1 DEF Struck
  <2>3. ASSUME e.on # 0, Clear(e) PROVE Partly(e, menu)
    <3>1. act[a].on # 0 /\ Clear(act[a])
      BY <2>2, <2>3 DEF Clear
    <3>2. Partly(act[a], menu)
      BY <1>1, <3>1, TypingPartly DEF Lands, Landed
    <3> QED BY <2>2, <3>2 DEF Partly, Result
  <2>4. Lands(e, menu)
    BY <2>2, <2>3 DEF Lands, Landed
  <2>5. Lands(Ended(e), menu) /\ menu' = menu
    BY <1>3, <2>4, EndedLands DEF Breaks
  <2> QED BY <1>1, <2>1, <2>5, OneLands
<1>4. ASSUME NEW pc \in {NextPc(a), "broken"}, Presses(a, pc) PROVE LandInv'
  <2> DEFINE m == Key(a)
             d == Disturbed(act, {a})
             rest == Tail(act[a].keys)
  <2>1. PICK e : /\ Struck(e, a, pc) /\ Landing(e, a)
                 /\ act' = [q \in Readers |-> IF q = a THEN Ended(e) ELSE d[q]]
    BY <1>1, <1>4, PressesIs DEF IInv
  <2>2. Becomes(m) /\ m.n = menu.n
        /\ (menu.n # 0 => m = Press(menu, Script[menu.n], Head(act[a].keys)))
    BY <1>4, PressedKeeps DEF IInv, Presses, Key, Pressed, Items
  <2>3. menu' = IF m.tab = 0 THEN NoMenu ELSE m
    BY <2>2 DEF Becomes
  <2>4. menu.n = 0 => menu'.n = 0
    BY <2>2, <2>3 DEF NoMenu
  <2>5. \A q \in Answerers : q # a => Lands(d[q], menu')
    BY <2>4, DisturbedLands, Zenon
  <2>6. /\ e.pc = pc /\ e.on = act[a].on /\ e.form = act[a].form /\ e.req = act[a].req
        /\ e.keys = rest
        /\ e.got = IF menu.n # 0 /\ m.tab = 0 THEN m.picked ELSE act[a].got
    BY <2>1 DEF Struck, Landing
  <2> HIDE DEF m, d
  <2>7. ASSUME e.on # 0, Clear(e) PROVE Landed(e, menu')
    <3> DEFINE n == act[a].on
               items == Script[n]
               form == act[a].form
               answer == act[a].req.answer
               keys == act[a].keys
    <3>1. n # 0 /\ Clear(act[a])
      BY <2>6, <2>7 DEF Clear
    <3>2. Typing(act[a], menu)
      BY <1>1, <3>1 DEF Lands, Landed
    <3>3. menu.n = n
      BY <3>2, TypingMenu
    <3>4. Meant(items, form, answer) /\ OnCourse(n, items, form, answer, menu, keys)
      BY <3>2 DEF Typing
    <3>5. m = Press(menu, items, Head(keys)) /\ rest = Tail(keys)
      BY <2>2, <3>1, <3>3
    <3>6. keys \in Seq(KeySet) /\ keys # << >>
      BY <1>1 DEF Sound
    <3>7. pc = "broken" \/ pc = IF Len(keys) > 1 THEN "type"
                                ELSE IF EndsOnReview(form) THEN "verify" ELSE "ok"
      BY DEF NextPc
    <3> HIDE DEF n, items, form, answer, keys, rest
    <3>8. Len(keys) > 1 <=> rest # << >>
      BY <3>5, <3>6, TailTyped
    <3>9. Underway(n, items, form, answer, m, rest) \/ Sent(n, items, form, answer, m, rest)
      BY <3>4, <3>5, CourseStep
    <3>10. CASE Underway(n, items, form, answer, m, rest)
      <4>1. rest # << >> /\ m.tab # 0 /\ OnCourse(n, items, form, answer, m, rest)
        BY <3>10 DEF Underway
      <4>2. menu' = m /\ e.pc \in {"type", "broken"}
        BY <2>3, <2>6, <3>7, <3>8, <4>1
      <4>3. Typing(e, menu')
        BY <2>6, <3>4, <4>1, <4>2 DEF Typing, n, items, form, answer
      <4>4. Partly(e, menu')
        BY <4>3, TypingPartly
      <4> QED BY <4>2, <4>3, <4>4 DEF Landed
    <3>11. CASE Sent(n, items, form, answer, m, rest)
      <4>1. rest = << >> /\ m.tab = 0 /\ m.picked = Done(items, form, answer)
        BY <3>11 DEF Sent, At
      <4>2. menu'.n = 0 /\ e.pc \in {"verify", "ok", "broken"}
        BY <2>3, <2>6, <3>7, <3>8, <4>1 DEF NoMenu
      <4>3. e.got = Done(items, form, answer)
        BY <2>6, <3>1, <3>3, <4>1
      <4>4. e.got = Result(e)
        BY <2>6, <4>3 DEF Result, n, items, form, answer
      <4> QED BY <4>2, <4>4 DEF Landed, Quiet
    <3> QED BY <3>9, <3>10, <3>11
  <2>8. Lands(Ended(e), menu')
    BY <2>7, EndedLands DEF Lands
  <2>9. ASSUME NEW q \in Answerers PROVE Lands(act'[q], menu')
    <3>1. act'[q] = IF q = a THEN Ended(e) ELSE d[q]
      BY <2>1 DEF Readers
    <3> QED BY <2>5, <2>8, <3>1
  <2> QED BY <2>9 DEF LandInv
<1> QED BY <1>2, <1>3, <1>4, TypeSteps

\* Claude and its user,
LEMMA ClaudeLands == ASSUME IInv, LandInv, Claude PROVE LandInv'
<1>1. CASE AskHook \/ EndTurn \/ StartTurn \/ Boot
  BY <1>1, StillLands DEF AskHook, EndTurn, StartTurn, Boot
<1>2. CASE Show
  <2>1. menu.n = 0 /\ act' = act /\ menu' = Fresh(asked, Script[asked])
    BY <1>2 DEF Show, IInv, NewestInv
  <2>2. Quiet(menu')
    <3>1. menu'.n = asked
      BY <2>1 DEF Fresh
    <3> QED BY <2>1, <3>1 DEF Quiet
  <2> QED BY <2>1, <2>2, StillLands
<1>3. CASE Touch \/ End
  <2>1. act' = Disturbed(act, {})
    BY <1>3 DEF Touch, End
  <2>2. menu.n = 0 => menu'.n = 0
    BY <1>3 DEF Touch, End, NoMenu
  <2> QED BY <2>1, <2>2, TouchedLands
<1> QED BY <1>1, <1>2, <1>3 DEF Claude

\* and the messages.
LEMMA PostLands ==
  ASSUME IInv, LandInv, NEW p \in Posters,
         PostFind(p) \/ PostLaunch(p) \/ PostText(p) \/ PostEnter(p)
  PROVE  LandInv'
<1>1. CASE PostFind(p) \/ PostLaunch(p)
  BY <1>1, StillLands DEF PostFind, PostLaunch
<1>2. CASE PostText(p)
  <2>1. CASE act' = act /\ menu' = menu
    BY <2>1, StillLands
  <2>2. CASE /\ act' = Disturbed(act, {})
             /\ \E m \in {menu} \cup {Pressed(k) : k \in {1, 2}} : Becomes(m)
    <3>1. PICK m : Becomes(m) /\ (m = menu \/ \E k : m = Pressed(k))
      BY <2>2
    <3>2. m.n = menu.n
      BY <3>1, PressedKeeps DEF IInv
    <3>3. menu.n = 0 => menu'.n = 0
      BY <3>1, <3>2 DEF Becomes, NoMenu
    <3> QED BY <2>2, <3>3, TouchedLands
  <2> QED BY <1>2, <2>1, <2>2 DEF PostText
<1>3. CASE PostEnter(p)
  <2>1. CASE act' = act /\ menu' = menu
    BY <2>1, StillLands
  <2>2. CASE act' = Disturbed(act, {}) /\ (menu.n = 0 => menu' = menu)
    BY <2>2, TouchedLands
  <2> QED BY <1>3, <2>1, <2>2 DEF PostEnter
<1> QED BY <1>1, <1>2, <1>3

\* The keys do what the answer says: when nobody else touches the menu, it is
\* submitted with the rows the answer names, in every question, and the caller
\* is told so; a call whose keys fail has submitted it so, or left it up with
\* nothing picked that the answer does not name (keystrokesFor, the loop over
\* the keys, and the check for the review tab).
THEOREM AnswerIsTyped == Spec => []LandsAsChosen
<1>1. Init => LandInv
  <2> SUFFICES ASSUME Init PROVE LandInv
    OBVIOUS
  <2>1. ASSUME NEW a \in Answerers PROVE act[a].pc = "idle"
    BY DEF Init, Idle, Readers
  <2> QED BY <2>1, OthersLand DEF LandInv
<1>2. TInv /\ IInv /\ SeenInv /\ LandInv /\ [Next]_vars => LandInv'
  <2> SUFFICES ASSUME TInv, IInv, SeenInv, LandInv, [Next]_vars PROVE LandInv'
    OBVIOUS
  <2>1. CASE UNCHANGED vars
    BY <2>1, StillLands DEF vars
  <2>2. CASE Next
    BY <2>2, ClaudeLands, ReadLands, AnswerLands, KeyLands, PostLands DEF Next
  <2> QED BY <2>1, <2>2
<1>3. LandInv => LandsAsChosen
  <2> SUFFICES ASSUME LandInv, NEW a \in Answerers,
                      act[a].pc \in {"ok", "failed", "broken"}, act[a].on # 0, Plain(a)
               PROVE  \/ act[a].pc # "failed" /\ act[a].got = Chosen(a)
                      \/ /\ act[a].pc = "broken" /\ menu.n = act[a].on
                         /\ \A i \in DOMAIN menu.picked : menu.picked[i] \subseteq Chosen(a)[i]
    BY DEF LandsAsChosen
  <2>1. Clear(act[a])
    BY DEF Plain, Clear, Unhidden
  <2>2. Landed(act[a], menu)
    BY <2>1 DEF LandInv, Lands
  <2>3. Result(act[a]) = Chosen(a)
    BY DEF Result, Done, Named, Chosen
  <2>4. CASE act[a].pc # "broken"
    BY <2>2, <2>3, <2>4 DEF Landed
  <2>5. CASE act[a].pc = "broken"
    BY <2>2, <2>3, <2>5 DEF Landed, Partly
  <2> QED BY <2>4, <2>5
<1>4. Spec => []SeenInv
  BY SeenHolds
<1> QED BY <1>1, <1>2, <1>3, <1>4, TypeInvariant, Invariant, PTL DEF Spec
=============================================================================
