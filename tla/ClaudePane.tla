----------------------------- MODULE ClaudePane -----------------------------
(***************************************************************************)
(* Answering a question of a Claude Code session (plugins/claude) from the *)
(* web app (service.handleAnswer) or from the conversation                 *)
(* (concierge.answerQuestionnaire).  Either way the session's state is     *)
(* read, the answer is validated against it, and Act reads the question    *)
(* again and types the keys of the answer into the pane.  The payload of   *)
(* the hook, the transcript, the tmux window and the menu on the screen    *)
(* change under its feet: the user is at the terminal, Claude goes on, the *)
(* fleet watcher reads the same state, messages are posted, and the        *)
(* session may end.                                                        *)
(***************************************************************************)
EXTENDS AnswerKeys, FiniteSets

CONSTANTS
  Script,       \* the questions Claude asks, in order
  Answerers,    \* the requests to answer
  Watchers,     \* those who only read the session's state
  Posters,      \* the messages posted to the session
  Answers,      \* n -> the answers offered to question n in its hook's form
  PaneAnswers,  \* n -> the answers offered to what the pane shows of it
  MaxTouches,   \* bound: keys the user presses at the terminal
  MaxEnds       \* bound: how often the session's process ends

\* A question, as the hook's payload has it.
Item == [header : STRING, multi : BOOLEAN, opts : Seq(STRING)]

ASSUME ScriptAssumption ==
  Script \in Seq(Seq(Item)) /\ \A n \in DOMAIN Script : Len(Script[n]) \in 1 .. 4

\* An answer gives a list of values to each of its fields.
ASSUME AnswersAssumption ==
  \A n \in DOMAIN Script :
    \A a \in Answers[n] \cup PaneAnswers[n] :
      \A key \in DOMAIN a : a[key] \in Seq(STRING)

ASSUME ActorsAssumption ==
  /\ Answerers \cap Watchers = {}
  /\ MaxTouches \in Nat /\ MaxEnds \in Nat

VARIABLES
  installed,  \* whether the hook is in the settings of the CLI
  proc,       \* the session: "gone", "booting" (not in the index yet) or "up"
  turn,       \* what Claude is doing: "idle", "busy", "posing" or "asking"
  asked,      \* how many questions have been asked
  inTurn,     \* the questions of the current turn
  landed,     \* the questions whose tool_use_id is in the transcript
  hook,       \* the question whose payload is in the pending directory, or 0
  menu,       \* the menu on the screen
  act,        \* reader -> where it stands
  post,       \* poster -> where it stands
  touches, ends

claude == <<turn, asked, inTurn, landed>>
bounds == <<installed, touches, ends>>
vars == <<bounds, proc, claude, hook, menu, act, post>>

Readers == Answerers \cup Watchers

\* on: the question the reader found on the screen, as it was drawn, when it
\* opened the payload; back to 0 as soon as anyone else touches the menu.
\* got: what was picked in the menu that the reader's own key submitted.
NoReq == [id |-> NoForm.id, answer |-> << >>]
Idle == [pc |-> "idle", acting |-> FALSE, req |-> NoReq, file |-> 0,
         form |-> NoForm, keys |-> << >>, on |-> 0, got |-> << >>]
\* A request that was refused, or that failed or ended after somebody else had
\* touched the menu.
Over == [Idle EXCEPT !.pc = "over"]

Init ==
  /\ installed \in BOOLEAN
  /\ proc = "up"
  /\ turn = "busy" /\ asked = 0 /\ inTurn = {} /\ landed = {}
  /\ hook = 0
  /\ menu = NoMenu
  /\ act = [r \in Readers |-> Idle]
  /\ post = [p \in Posters |-> "idle"]
  /\ touches = 0 /\ ends = 0

\* The index has the session, with the pid of its process.
Indexed == proc = "up"

\* That pid is joined to the pane that shares its tty.
Live == Indexed

Items == Script[menu.n]

\* The first question of the script with this text and these options.
Template(n) == CHOOSE m \in 1 .. n :
  Script[m] = Script[n] /\ \A k \in 1 .. m - 1 : Script[k] # Script[n]

\* What parsePaneQuestion makes of the screen.
OnScreen ==
  IF menu.n = 0 \/ ~Live THEN NoForm
  ELSE PaneForm(Template(menu.n), Items, menu.tab)

\* The question on the screen as it was drawn; 0 for none.
Untouched ==
  IF Live /\ menu.n # 0 /\ menu = Fresh(menu.n, Items) THEN menu.n ELSE 0

\* Once anyone touches the menu, nobody else knows what it shows.
Disturbed(f, who) ==
  IF menu.n = 0 THEN f
  ELSE [r \in Readers |-> IF r \in who \/ f[r].pc \in {"ok", "failed"} THEN f[r]
                          ELSE [f[r] EXCEPT !.on = 0]]

\* A menu that has been submitted goes away, and Claude goes on.
Becomes(m) ==
  IF m.tab = 0 THEN menu' = NoMenu /\ turn' = (IF menu.n = 0 THEN turn ELSE "busy")
  ELSE menu' = m /\ UNCHANGED turn

Pressed(k) == IF menu.n = 0 THEN menu ELSE Press(menu, Items, k)

(***************************************************************************)
(* Claude and its user (not part of the repository; the payload is written *)
(* by the hook of cmd/yscr, the menu is drawn after it has returned).      *)
(***************************************************************************)
AskHook ==
  /\ Live /\ turn = "busy" /\ asked < Len(Script)
  /\ turn' = "posing" /\ asked' = asked + 1 /\ inTurn' = inTurn \cup {asked + 1}
  /\ hook' = IF installed THEN asked + 1 ELSE hook
  /\ UNCHANGED <<bounds, proc, landed, menu, act, post>>

Show ==
  /\ turn = "posing"
  /\ turn' = "asking" /\ menu' = Fresh(asked, Script[asked])
  /\ UNCHANGED <<bounds, proc, asked, inTurn, landed, hook, act, post>>

\* The turn is complete: what was asked and answered in it is written out.  (A
\* turn without questions changes nothing here.)
EndTurn ==
  /\ turn = "busy" /\ inTurn # {}
  /\ turn' = "idle" /\ landed' = landed \cup inTurn /\ inTurn' = {}
  /\ UNCHANGED <<bounds, proc, asked, hook, menu, act, post>>

StartTurn ==
  /\ Live /\ turn = "idle"
  /\ turn' = "busy"
  /\ UNCHANGED <<bounds, proc, asked, inTurn, landed, hook, menu, act, post>>

\* The user answers at the terminal, key by key, or escapes from the question.
Touch ==
  /\ Live /\ menu.n # 0 /\ touches < MaxTouches
  /\ \E m \in {NoMenu} \cup {Pressed(k) : k \in {1, 2, Tab, Right}} :
       m # menu /\ Becomes(m)
  /\ act' = Disturbed(act, {})
  /\ touches' = touches + 1
  /\ UNCHANGED <<installed, ends, proc, asked, inTurn, landed, hook, post>>

\* The process ends, and its window with it; its last turn may be written.
End ==
  /\ proc # "gone" /\ ends < MaxEnds
  /\ proc' = "gone"
  /\ turn' = "idle" /\ inTurn' = {} /\ menu' = NoMenu
  /\ landed' \in {landed, landed \cup inTurn}
  /\ act' = Disturbed(act, {})
  /\ ends' = ends + 1
  /\ UNCHANGED <<installed, touches, asked, hook, post>>

Boot ==
  /\ proc = "booting"
  /\ proc' = "up"
  /\ UNCHANGED <<bounds, claude, hook, menu, act, post>>

(***************************************************************************)
(* State, and the first half of Act: the payload is read, the transcript   *)
(* is searched for its id, and without a payload the screen is parsed.     *)
(* What follows the read (Validate, the comparison of the ids, the mapping *)
(* to keys) touches nothing shared.                                        *)
(***************************************************************************)
\* What the web app or the model has been shown of question n, and answers.
Requests ==
  UNION {IF installed
         THEN {[id |-> HookForm(n, Script[n]).id, answer |-> a] : a \in Answers[n]}
         ELSE {[id |-> PaneForm(Template(n), Script[n], 1).id, answer |-> a] :
                a \in PaneAnswers[n]}
         : n \in 1 .. asked}

Take(a) ==
  /\ act[a].pc = "idle"
  /\ \E req \in Requests : act' = [act EXCEPT ![a].pc = "open", ![a].req = req]
  /\ UNCHANGED <<bounds, proc, claude, hook, menu, post>>

\* Act asks for the live pane first.
Opened(r) ==
  IF act[r].acting /\ ~Live THEN Over
  ELSE [act[r] EXCEPT !.pc = IF hook = 0 THEN "look" ELSE "check",
                      !.file = hook, !.on = Untouched]

\* (When list-panes fails, a live pane is not found either.)
OpenFile(r) ==
  /\ act[r].pc \in (IF r \in Watchers THEN {"idle", "none"} ELSE {"open"})
  /\ \/ act' = [act EXCEPT ![r] = Opened(r)]
     \/ act[r].acting /\ act' = [act EXCEPT ![r] = Over]
  /\ UNCHANGED <<bounds, proc, claude, hook, menu, post>>

\* A watcher that reports no question keeps what it had found on the screen.
Reported(a, form) == IF form = NoForm THEN [a EXCEPT !.pc = "none", !.file = 0]
                     ELSE Idle

\* Mutant: Act answers whatever question it finds.
DecideAny(r, form) ==
  LET a == act[r] IN
  CASE r \in Watchers -> Reported(a, form)
    [] r \in Answerers /\ ~a.acting ->
         IF form.id = a.req.id /\ Valid(form, a.req.answer)
         THEN [a EXCEPT !.pc = "open", !.acting = TRUE, !.file = 0, !.on = 0]
         ELSE Over
    [] OTHER ->
         IF form # NoForm /\ Typable(form, a.req.answer)
         THEN [a EXCEPT !.pc = "type", !.file = 0, !.form = form,
                        !.keys = Keystrokes(form, a.req.answer)]
         ELSE Over

\* The question has been read: a watcher reports it; a request is refused
\* unless it is the same question and the answer is one to it, once by the
\* caller of Act and once more by Act.
Decide(r, form) ==
  LET a == act[r]
      same == form # NoForm /\ form.id = a.req.id
  IN
  CASE r \in Watchers -> Reported(a, form)
    [] r \in Answerers /\ ~a.acting ->
         IF same /\ Valid(form, a.req.answer)
         THEN [a EXCEPT !.pc = "open", !.acting = TRUE, !.file = 0, !.on = 0]
         ELSE Over
    [] OTHER ->
         IF same /\ Typable(form, a.req.answer)
         THEN [a EXCEPT !.pc = "type", !.file = 0, !.form = form,
                        !.keys = Keystrokes(form, a.req.answer)]
         ELSE Over

\* Mutant: the payload of an answered question is skipped and left there.
CheckFileLeaving(r) ==
  /\ act[r].pc = "check"
  /\ act' = [act EXCEPT ![r] = IF act[r].file \in landed
                                THEN [@ EXCEPT !.pc = "look", !.file = 0]
                                ELSE Decide(r, HookForm(@.file, Script[@.file]))]
  /\ UNCHANGED <<bounds, proc, claude, hook, menu, post>>

\* The id is in the transcript: the file is removed, whatever it holds by now.
CheckFile(r) ==
  /\ act[r].pc = "check"
  /\ act' = [act EXCEPT ![r] = IF act[r].file \in landed
                                THEN [@ EXCEPT !.pc = "look", !.file = 0]
                                ELSE Decide(r, HookForm(@.file, Script[@.file]))]
  /\ hook' = IF act[r].file \in landed THEN 0 ELSE hook
  /\ UNCHANGED <<bounds, proc, claude, menu, post>>

\* A screen that cannot be read (list-panes or the capture fails) is an empty
\* one; a reader that has not seen it has found nothing on it.
Look(r) ==
  /\ act[r].pc = "look"
  /\ \/ act' = [act EXCEPT ![r] = Decide(r, OnScreen)]
     \/ act' = [act EXCEPT ![r] = [Decide(r, NoForm) EXCEPT !.on = 0]]
  /\ UNCHANGED <<bounds, proc, claude, hook, menu, post>>

(***************************************************************************)
(* The second half of Act: the keys, one call of tmux each, and the look   *)
(* at the screen that must no longer show the review tab.                  *)
(***************************************************************************)
Ended(a) == IF a.pc \in {"ok", "failed", "broken"} /\ a.on = 0 THEN Over ELSE a

\* The reader after its key has made the menu m of the one before.
Keyed(f, a, m, pc) ==
  [f EXCEPT ![a] = Ended([f[a] EXCEPT
     !.keys = Tail(f[a].keys), !.pc = pc,
     !.got = IF menu.n # 0 /\ m.tab = 0 THEN m.picked ELSE f[a].got])]

\* The pane may outlive the process, when it is a shell of the user's.
Type(a) ==
  /\ act[a].pc = "type"
  /\ \/ /\ ~Live
        /\ act' = [act EXCEPT ![a] = Over]
        /\ UNCHANGED <<claude, menu>>
     \/ LET m == Pressed(Head(act[a].keys))
            pc == IF Len(act[a].keys) > 1 THEN "type"
                  ELSE IF EndsOnReview(act[a].form) THEN "verify" ELSE "ok"
        IN /\ Becomes(m)
           /\ act' = Keyed(Disturbed(act, {a}), a, m, pc)
           /\ UNCHANGED <<asked, inTurn, landed>>
  /\ UNCHANGED <<bounds, proc, hook, post>>

\* send-keys fails while the pane is there (the request's context is cancelled
\* between two keys, or tmux is): the call ends, with the key typed or not.
TypeFails(a) ==
  /\ act[a].pc = "type" /\ Live
  /\ \/ /\ act' = [act EXCEPT ![a] = Ended([@ EXCEPT !.pc = "broken"])]
        /\ UNCHANGED <<menu, turn>>
     \/ LET m == Pressed(Head(act[a].keys))
        IN Becomes(m) /\ act' = Keyed(Disturbed(act, {a}), a, m, "broken")
  /\ UNCHANGED <<bounds, proc, asked, inTurn, landed, hook, post>>

\* A capture that fails shows no review tab.
Verify(a) ==
  /\ act[a].pc = "verify"
  /\ \E open \in {menu.n # 0 /\ OnReview(menu, Items), FALSE} :
       act' = [act EXCEPT ![a] =
                 Ended([@ EXCEPT !.pc = IF open THEN "failed" ELSE "ok"])]
  /\ UNCHANGED <<bounds, proc, claude, hook, menu, post>>

(***************************************************************************)
(* Post: a live session gets the text in its pane; another one is launched *)
(* in a window named after it, and gets the text at once.                  *)
(***************************************************************************)
PostFind(p) ==
  /\ post[p] = "idle"
  /\ post' = [post EXCEPT ![p] = IF Live THEN "text" ELSE "launch"]
  /\ UNCHANGED <<bounds, proc, claude, hook, menu, act>>

\* tmux refuses a second session of the same name.
PostLaunch(p) ==
  /\ post[p] = "launch"
  /\ IF proc = "gone"
     THEN post' = [post EXCEPT ![p] = "text"] /\ proc' = "booting"
     ELSE post' = [post EXCEPT ![p] = "done"] /\ UNCHANGED proc
  /\ UNCHANGED <<bounds, claude, hook, menu, act>>

\* What is typed while a question is up goes into its menu.  A send-keys that
\* fails ends the post, before or after its keys have arrived.
PostText(p) ==
  /\ post[p] = "text"
  /\ \/ post' = [post EXCEPT ![p] = "done"] /\ UNCHANGED <<menu, act, turn>>
     \/ /\ proc # "gone"
        /\ \E at \in {"enter", "done"} : post' = [post EXCEPT ![p] = at]
        /\ \E m \in {menu} \cup {Pressed(k) : k \in {1, 2}} : Becomes(m)
        /\ act' = Disturbed(act, {})
  /\ UNCHANGED <<bounds, proc, asked, inTurn, landed, hook>>

\* Enter takes the highlighted row of a menu, or submits the prompt.
PostEnter(p) ==
  /\ post[p] = "enter"
  /\ post' = [post EXCEPT ![p] = "done"]
  /\ \/ UNCHANGED <<menu, act, turn>>
     \/ /\ proc # "gone"
        /\ IF menu.n # 0 THEN Becomes(Pressed(1))
           ELSE /\ turn' = IF Live /\ turn = "idle" THEN "busy" ELSE turn
                /\ UNCHANGED menu
        /\ act' = Disturbed(act, {})
  /\ UNCHANGED <<bounds, proc, asked, inTurn, landed, hook>>

Claude == AskHook \/ Show \/ EndTurn \/ StartTurn \/ Touch \/ End \/ Boot

Read(r) == OpenFile(r) \/ CheckFile(r) \/ Look(r)

Next ==
  \/ Claude
  \/ \E r \in Readers : Read(r)
  \/ \E a \in Answerers : Take(a) \/ Type(a) \/ TypeFails(a) \/ Verify(a)
  \/ \E p \in Posters : PostFind(p) \/ PostLaunch(p) \/ PostText(p) \/ PostEnter(p)

Spec == Init /\ [][Next]_vars

\* The fleet watcher reads every session's state on each tick.
FairSpec == Spec /\ \A w \in Watchers : WF_vars(Read(w))

(***************************************************************************)
(* Properties.                                                             *)
(***************************************************************************)
ReaderPcs == {"idle", "open", "check", "look", "none", "type", "verify", "ok",
              "failed", "broken", "over"}

TypeOK ==
  /\ installed \in BOOLEAN
  /\ proc \in {"gone", "booting", "up"}
  /\ turn \in {"idle", "busy", "posing", "asking"}
  /\ asked \in 0 .. Len(Script) /\ hook \in 0 .. asked /\ menu.n \in 0 .. asked
  /\ inTurn \subseteq 1 .. asked /\ landed \subseteq 1 .. asked
  /\ \A r \in Readers : act[r].pc \in ReaderPcs /\ act[r].on \in 0 .. asked
  /\ \A a \in Answerers : ToSet(act[a].keys) \subseteq Digits \cup {Tab, Right}
  /\ \A p \in Posters :
       post[p] \in {"idle", "launch", "text", "enter", "done"}
  /\ touches \in 0 .. MaxTouches /\ ends \in 0 .. MaxEnds

\* The answer asks for nothing twice, no two options of a question are called
\* the same, and the parser has hidden no row of the menu from the answer (each
\* of these shifts what the keys mean).
Plain(a) ==
  /\ \A i \in DOMAIN act[a].form.fields :
       LET f == act[a].form.fields[i] IN
         IsInjective(act[a].req.answer[f.key])
  /\ \A i \in DOMAIN Script[act[a].on] :
       LET opts == Script[act[a].on][i].opts IN
         IsInjective(opts) /\ ToSet(opts) \cap Chrome = {}

\* What an answer names, as the rows of the menu.
Chosen(a) ==
  [i \in DOMAIN Script[act[a].on] |->
    LET opts == Script[act[a].on][i].opts
        said == ToSet(act[a].req.answer[act[a].form.fields[i].key])
    IN {k \in DOMAIN opts : opts[k] \in said}]

\* The keys do what the answer says: when nobody else touches the menu from
\* the moment Act has read the question, a call that returns has submitted the
\* menu with the rows the answer names, in every question, and says so; a call
\* whose keys fail has submitted it so or left it up with nothing picked that
\* the answer does not name (keystrokesFor, the loop over the keys and the check
\* for the review tab, claude.go).
LandsAsChosen ==
  \A a \in Answerers :
    /\ act[a].pc \in {"ok", "failed", "broken"} /\ act[a].on # 0
    /\ Plain(a)
    => \/ act[a].pc # "failed" /\ act[a].got = Chosen(a)
       \/ /\ act[a].pc = "broken" /\ menu.n = act[a].on
          /\ \A i \in DOMAIN menu.picked : menu.picked[i] \subseteq Chosen(a)[i]

\* No key of an answer goes into another question: while Act types into a menu
\* that it found as it was drawn and that nobody else has touched, that menu
\* asks the question the answer was given to (the comparison of the ids).
RightQuestion ==
  \A a \in Answerers :
    act[a].pc \in {"type", "verify", "ok"} /\ act[a].on # 0
    => LET id == act[a].req.id
       IN id[2] = IF id[1] = "hook" THEN act[a].on ELSE Template(act[a].on)

\* A question that is up on the screen is reported: State finds it by its
\* payload or, when the payload was never written or has just been removed
\* with the one before, on the screen; there it overlooks only a lone question
\* all of whose options it takes for rows of the menu.
SeenWhileUp ==
  \A w \in Watchers :
    act[w].pc = "none" =>
      \/ act[w].on = 0
      \/ Len(Script[act[w].on]) = 1 /\ Hidden(Script[act[w].on], 1)

\* The payload of a question that was answered goes away, so that the session
\* does not stay awaiting an answer for ever.
AnsweredGoes ==
  \A n \in DOMAIN Script : (hook = n /\ n \in landed) ~> hook # n
=============================================================================
