----------------------------- MODULE AnswerKeys -----------------------------
(***************************************************************************)
(* How an answer becomes keystrokes: the two ways a pending question turns *)
(* into a questionnaire (plugins/claude/claude.go, from the hook's payload *)
(* or from the pane), the validation of an answer (source/validate.go) and *)
(* the keys it is mapped to.  The last part is the menu those keys are     *)
(* typed into, which belongs to the Claude CLI: it is modelled from the    *)
(* protocol that keystrokesFor writes down.                                *)
(*                                                                         *)
(* A question is asked as a sequence of items [header, multi, opts]; an    *)
(* answer maps the key of a field to the sequence of the values chosen.    *)
(***************************************************************************)
EXTENDS Naturals, Sequences, SequencesExt

\* The keys: the digits 1 .. 9, and two more.
Tab == 10
Right == 11
Digits == 1 .. 9

NoForm == [id |-> <<"none", 0, 0>>, fields |-> << >>]

\* Fields without a header are called q1, q2, ...; there are at most four.
DefaultKey(i) == <<"q1", "q2", "q3", "q4">>[i]

\* The payload of question n as a questionnaire.
HookForm(n, items) ==
  [id |-> <<"hook", n, 0>>,
   fields |-> [i \in DOMAIN items |->
     [key |-> IF items[i].header = "" THEN DefaultKey(i) ELSE items[i].header,
      multi |-> items[i].multi, opts |-> items[i].opts]]]

\* Labels the parser takes for rows of the menu itself.
Chrome == {"", "type something", "chat about this", "submit", "submit answers",
           "cancel"}

\* What is left of the options on screen, and whether nothing is.
Shown(items, tab) ==
  IF tab \in DOMAIN items
  THEN FlattenSeq([k \in DOMAIN items[tab].opts |->
         IF items[tab].opts[k] \in Chrome THEN << >> ELSE <<items[tab].opts[k]>>])
  ELSE << >>
Hidden(items, tab) ==
  tab \in DOMAIN items => ToSet(items[tab].opts) \subseteq Chrome

\* Mutant: only what the screen of a lone question shows is recognised.
PaneFormOfLone(t, items, tab) ==
  IF Len(items) > 1 \/ Hidden(items, tab) THEN NoForm
  ELSE [id |-> <<"pane", t, tab>>,
        fields |-> <<[key |-> "answer", multi |-> items[tab].multi,
                      opts |-> Shown(items, tab)]>>]

\* The screen as a questionnaire: one field, with the options of the tab on
\* screen, or with none when there are several questions.  The id is a hash of
\* the text and the options, so the same question asked again has the same id.
PaneForm(t, items, tab) ==
  LET many == Len(items) > 1 IN
  IF ~many /\ Hidden(items, tab) THEN NoForm
  ELSE [id |-> <<"pane", t, tab>>,
        fields |-> <<[key |-> "answer",
                      multi |-> tab \in DOMAIN items /\ items[tab].multi,
                      opts |-> IF many THEN << >> ELSE Shown(items, tab)]>>]

(***************************************************************************)
(* Validate: every field is required, and its values are options of the    *)
(* last field that has its key (and has options at all).                   *)
(***************************************************************************)
Allowed(form, key) ==
  LET i == SelectLastInSeq(form.fields,
             LAMBDA f : f.key = key /\ f.opts # << >>)
  IN IF i = 0 THEN << >> ELSE form.fields[i].opts

Valid(form, answer) ==
  \A i \in DOMAIN form.fields :
    LET f == form.fields[i]
        set == Allowed(form, f.key)
    IN /\ f.key \in DOMAIN answer
       /\ set # << >> =>
            /\ ~f.multi => Len(answer[f.key]) = 1
            /\ ToSet(answer[f.key]) \subseteq ToSet(set)

(***************************************************************************)
(* keystrokesFor.                                                          *)
(***************************************************************************)
DigitOf(f, v) == SelectInSeq(f.opts, LAMBDA o : o = v)

\* Mutant: a value that is not among the options is typed all the same.
TypableAnyValue(form, answer) ==
  /\ form.fields # << >>
  /\ \A i \in DOMAIN form.fields :
       LET f == form.fields[i] IN
         /\ f.key \in DOMAIN answer
         /\ IF f.multi THEN answer[f.key] # << >> ELSE Len(answer[f.key]) = 1

\* What keystrokesFor refuses on its own account.
Typable(form, answer) ==
  /\ form.fields # << >>
  /\ \A i \in DOMAIN form.fields :
       LET f == form.fields[i] IN
         /\ f.key \in DOMAIN answer
         /\ IF f.multi THEN answer[f.key] # << >> ELSE Len(answer[f.key]) = 1
         /\ \A j \in DOMAIN answer[f.key] : DigitOf(f, answer[f.key][j]) \in Digits

EndsOnReview(form) == Len(form.fields) > 1 \/ form.fields[1].multi

\* Mutant: several questions are left with the key of a lone one, and the
\* review tab is not submitted.
KeystrokesNoSubmit(form, answer) ==
  FlattenSeq([i \in DOMAIN form.fields |->
    LET f == form.fields[i]
        digits == [j \in DOMAIN answer[f.key] |-> DigitOf(f, answer[f.key][j])]
    IN IF f.multi THEN Append(digits, Right) ELSE digits])

\* A digit selects in a question with one choice, and moves on; in a question
\* with several it toggles, and a key of its own moves on.  Only a lone
\* question with one choice is submitted without the 1 on the review tab.
Keystrokes(form, answer) ==
  FlattenSeq([i \in DOMAIN form.fields |->
    LET f == form.fields[i]
        digits == [j \in DOMAIN answer[f.key] |-> DigitOf(f, answer[f.key][j])]
    IN IF f.multi
       THEN Append(digits, IF Len(form.fields) > 1 THEN Tab ELSE Right)
       ELSE digits])
  \o (IF EndsOnReview(form) THEN <<1>> ELSE << >>)

(***************************************************************************)
(* The menu: the tab it shows (0 when it has been submitted) and what is   *)
(* picked in each question.                                                *)
(***************************************************************************)
Fresh(n, items) == [n |-> n, tab |-> 1, picked |-> [i \in DOMAIN items |-> {}]]
NoMenu == [n |-> 0, tab |-> 0, picked |-> << >>]

OnReview(m, items) == m.tab = Len(items) + 1

Toggled(S, k) == IF k \in S THEN S \ {k} ELSE S \cup {k}

Press(m, items, k) ==
  CASE OnReview(m, items) ->
         IF k = 1 THEN [m EXCEPT !.tab = 0] ELSE m
    [] m.tab \in DOMAIN items /\ k \in Digits \cap DOMAIN items[m.tab].opts ->
         IF items[m.tab].multi
         THEN [m EXCEPT !.picked[m.tab] = Toggled(@, k)]
         ELSE [m EXCEPT !.picked[m.tab] = {k},
                        !.tab = IF Len(items) = 1 THEN 0 ELSE @ + 1]
    [] m.tab \in DOMAIN items /\ k = (IF Len(items) > 1 THEN Tab ELSE Right)
         /\ (Len(items) > 1 \/ items[1].multi) -> [m EXCEPT !.tab = @ + 1]
    [] OTHER -> m
=============================================================================
