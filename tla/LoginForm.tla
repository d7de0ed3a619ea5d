------------------------------- MODULE LoginForm -------------------------------
(***************************************************************************)
(* extension/src/fill.ts and the filling half of content.ts: which input   *)
(* of a page is the username, the password, the one-time code, and how     *)
(* sure that is.  An input is what the scores look at: its type, the       *)
(* autocomplete tokens that remain after section and context words, and    *)
(* which word lists its name, id, label and placeholder hit.  Scores are   *)
(* in hundredths; 0 stands for null.                                       *)
(***************************************************************************)
EXTENDS Integers, FiniteSets, Sequences

\* A token the code never fills as a username is "other" (name, address-..., cc-...).
Tokens  == {"username", "email", "current-password", "password", "new-password",
            "one-time-code", "other"}
Signals == {"user", "mail", "pass", "new", "otp"}

InputType == {"text", "email", "tel", "password", "search", "hidden"}

Input == [type : InputType,
          tokens : SUBSET Tokens, signals : SUBSET Signals, usable : BOOLEAN]

Threshold == 70

\* isSignupForm: a new password and no current one; unusable inputs count too.
IsSignupForm(inputs) ==
  LET has(token) == \E i \in DOMAIN inputs :
                      inputs[i].type = "password" /\ token \in inputs[i].tokens
  IN has("new-password") /\ ~has("current-password")

SkippedAsUsername == {"other", "one-time-code", "new-password", "current-password"}

ScoreUsername(input) ==
  IF ~input.usable \/ input.type \in {"password", "hidden"} THEN 0
  ELSE IF input.tokens \cap SkippedAsUsername # {} THEN 0
  ELSE IF "username" \in input.tokens THEN 98
  ELSE IF "email" \in input.tokens THEN 96
  ELSE IF input.type = "email" THEN 90
  ELSE IF "user" \in input.signals THEN 82
  ELSE IF "mail" \in input.signals THEN 80
  ELSE IF input.type \in {"text", "tel"} THEN 45
  ELSE 0

ScorePassword(input) ==
  IF ~input.usable \/ input.type # "password" THEN 0
  ELSE IF "new-password" \in input.tokens \/ "new" \in input.signals THEN 0
  ELSE IF "one-time-code" \in input.tokens THEN 0
  ELSE IF "current-password" \in input.tokens THEN 98
  ELSE IF "password" \in input.tokens THEN 92
  ELSE IF "pass" \in input.signals THEN 80
  ELSE 72

ScoreOtp(input) ==
  IF ~input.usable \/ input.type \in {"password", "hidden"} THEN 0
  ELSE IF "one-time-code" \in input.tokens THEN 98
  ELSE IF "otp" \in input.signals THEN 85
  ELSE 0

\* bestOf and the threshold: the first input with the highest score, or none.
Best(inputs, score(_), threshold) ==
  {i \in DOMAIN inputs :
     /\ score(inputs[i]) > 0 /\ score(inputs[i]) >= threshold
     /\ \A j \in DOMAIN inputs :
          \/ score(inputs[j]) < score(inputs[i])
          \/ score(inputs[j]) = score(inputs[i]) /\ i <= j}

\* buildLoginModel: each role is the index of its input, in a set of at most one.
BuildLoginModel(inputs, threshold) ==
  LET user == Best(inputs, ScoreUsername, threshold)
      pass == Best(inputs, ScorePassword, threshold)
      otp  == Best(inputs, ScoreOtp, threshold)
      least(scores) == IF scores = {} THEN 0
                       ELSE CHOOSE s \in scores : \A t \in scores : s <= t
      main == {ScoreUsername(inputs[i]) : i \in user} \cup {ScorePassword(inputs[i]) : i \in pass}
      confidence == IF main # {} THEN least(main) ELSE least({ScoreOtp(inputs[i]) : i \in otp})
  IN [username |-> user, password |-> pass, otp |-> otp,
      eligible |-> /\ ~IsSignupForm(inputs)
                   /\ confidence >= threshold
                   /\ user \cup pass \cup otp # {}]

\* leftoverAssistFields and shouldOfferAssist: what a second, explicit click may fill.
AssistFields(inputs, strict) ==
  LET weak == BuildLoginModel(inputs, 0)
      left == {r \in {"username", "password"} : weak[r] # {} /\ strict[r] = {}}
  IN IF IsSignupForm(inputs) \/ (strict.password = {} /\ weak.password = {})
     THEN {} ELSE left

\* probeForm: the verdict before any secret leaves the worker.
ProbeForm(page) ==
  LET model == BuildLoginModel(page.inputs, Threshold)
  IN [ok |-> ~page.signup /\ model.eligible,
      assist |-> IF page.signup THEN {} ELSE AssistFields(page.inputs, model)]

\* fillForm: for every role recognized and every value that is not empty, the input.
FillForm(page, values, assist) ==
  LET model == BuildLoginModel(page.inputs, IF assist THEN 0 ELSE Threshold)
      roles == {"username", "password", "otp"} \cap values
  IN IF page.signup \/ ~model.eligible THEN {}
     ELSE {f \in roles \X DOMAIN page.inputs : f[2] \in model[f[1]]}
================================================================================
