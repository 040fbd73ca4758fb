-------------------------------- MODULE SignIn ---------------------------------
(***************************************************************************)
(* The way in: the login and register screens, the Google and Apple sheets *)
(* they raise, and the session an answer leaves on the device.             *)
(* mobile/src/screens/{Login,Register}Screen.tsx, mobile/src/store/auth.ts,*)
(* backend/src/api/auth.rs.                                                *)
(*                                                                         *)
(* The screens form a stack; each keeps its form while another lies on it, *)
(* and what a screen has sent is under way when the screen is gone.  One   *)
(* e-mail address, with an account or without; a session is a login family *)
(* of refresh tokens, and the device holds the token of one at most.  What *)
(* a first sign-in tells the account (course, name) is left out.           *)
(***************************************************************************)
EXTENDS Naturals, Sequences, SequencesExt

CONSTANTS
  Attempts,                     (* Sign-ins under way at a time.              *)
  LoginFields, RegisterFields,  (* Fields of the two forms.                   *)
  MaxStack, MaxFamilies,
  NoAttempt

ASSUME SignInFields == "password" \in LoginFields /\ "email" \in RegisterFields
ASSUME SignInBounds == {MaxStack, MaxFamilies} \subseteq Nat \ {0}

AttemptRecords ==
  [kind : {"login", "register", "google", "apple"}, level : 0 .. MaxStack,
   stage : {"sheet", "sent", "granted", "refused"}, family : 0 .. MaxFamilies]

ASSUME NoAttemptIsNothing == NoAttempt \notin AttemptRecords

VARIABLES
  stack,            (* The screens; empty while signed in.                    *)
  attempt,          (* What each sign-in under way has come to.               *)
  account,          (* Server: the address has an account.                    *)
  families,         (* Server: families that can be refreshed.                *)
  issued,           (* Server: families so far.                               *)
  session,          (* The family the device holds; 0: none.                  *)
  overlapped, lost  (* History: two were under way; an answer was lost.       *)

signInVars == << stack, attempt, account, families, issued, session, overlapped, lost >>

Forms ==
  [screen : {"login", "register"}, wrong : SUBSET (LoginFields \cup RegisterFields),
   errors : SUBSET (LoginFields \cup RegisterFields), socialError : BOOLEAN]

FieldsOf(screen) == IF screen = "login" THEN LoginFields ELSE RegisterFields
NewScreen(name) ==
  [screen |-> name, wrong |-> FieldsOf(name), errors |-> {}, socialError |-> FALSE]
Top == Len(stack)
SignedOut == stack # << >>

Under(kind, level) == \E a \in Attempts : attempt[a] # NoAttempt
                        /\ attempt[a].kind = kind /\ attempt[a].level = level

Begin(a, kind, stage) ==
  /\ attempt[a] = NoAttempt
  /\ attempt' = [attempt EXCEPT ![a] =
       [kind |-> kind, level |-> Top, stage |-> stage, family |-> 0]]
  /\ overlapped' = (overlapped \/ \E b \in Attempts : attempt[b] # NoAttempt)

(***************************************************************************)
(* The forms                                                               *)
(***************************************************************************)

EditField(f) ==
  /\ SignedOut /\ f \in FieldsOf(stack[Top].screen)
  /\ stack' = [stack EXCEPT ![Top].wrong = IF f \in @ THEN @ \ {f} ELSE @ \cup {f}]
  /\ UNCHANGED << attempt, account, families, issued, session, overlapped, lost >>

\* The button is dead while its call is under way; the keyboard's "done" is not.
ButtonLive(screen) == ~Under(screen, Top)

HandleSubmit(a, byKeyboard) ==
  LET form == stack[Top] IN
  /\ SignedOut
  /\ byKeyboard \/ ButtonLive(form.screen)
  /\ stack' = [stack EXCEPT ![Top].errors = form.wrong]
  /\ IF form.wrong = {} THEN Begin(a, form.screen, "sent") ELSE UNCHANGED << attempt,
                                                                             overlapped >>
  /\ UNCHANGED << account, families, issued, session, lost >>

\* Each provider's button is dead while its own sheet or call is up.
ContinueWith(a, provider) ==
  /\ SignedOut /\ stack[Top].screen = "login"
  /\ ~Under(provider, Top)
  /\ stack' = [stack EXCEPT ![Top].socialError = FALSE]
  /\ Begin(a, provider, "sheet")
  /\ UNCHANGED << account, families, issued, session, lost >>

ShowError(a) ==
  LET level == attempt[a].level IN
  IF level \notin DOMAIN stack THEN UNCHANGED stack
  ELSE stack' = CASE attempt[a].kind = "login" -> [stack EXCEPT ![level].errors = @ \cup {"password"}]
                  [] attempt[a].kind = "register" -> [stack EXCEPT ![level].errors = @ \cup {"email"}]
                  [] OTHER -> [stack EXCEPT ![level].socialError = TRUE]

\* Dismissing the sheet is a choice, not a failure.
SheetCloses(a, outcome) ==
  /\ attempt[a] # NoAttempt /\ attempt[a].stage = "sheet"
  /\ \/ /\ outcome = "token"
        /\ attempt' = [attempt EXCEPT ![a].stage = "sent"]
        /\ UNCHANGED stack
     \/ /\ outcome \in {"dismissed", "broken"}
        /\ attempt' = [attempt EXCEPT ![a] = NoAttempt]
        /\ IF outcome = "broken" THEN ShowError(a) ELSE UNCHANGED stack
  /\ UNCHANGED << account, families, issued, session, overlapped, lost >>

(***************************************************************************)
(* The backend                                                             *)
(***************************************************************************)

Issue(a) ==
  /\ issued < MaxFamilies
  /\ issued' = issued + 1 /\ families' = families \cup {issued'}
  /\ attempt' = [attempt EXCEPT ![a].stage = "granted", ![a].family = issued']

Refuse(a) ==
  /\ attempt' = [attempt EXCEPT ![a].stage = "refused"]
  /\ UNCHANGED << families, issued >>

\* Login wants an account, registering wants none, a provider takes either.
Served(a, credentialsMatch) ==
  /\ attempt[a] # NoAttempt /\ attempt[a].stage = "sent"
  /\ LET granted == CASE attempt[a].kind = "login" -> account /\ credentialsMatch
                       [] attempt[a].kind = "register" -> ~account
                       [] OTHER -> TRUE
     IN  /\ IF granted THEN Issue(a) ELSE Refuse(a)
         /\ account' = (account \/ granted)
  /\ UNCHANGED << stack, session, overlapped, lost >>

(***************************************************************************)
(* The answers                                                             *)
(***************************************************************************)

\* persistSession puts the new session where the old one was.  Having a token takes
\* the screens away; a refusal is shown where it was asked for.
Answered(a) ==
  /\ attempt[a] # NoAttempt /\ attempt[a].stage \in {"granted", "refused"}
  /\ attempt' = [attempt EXCEPT ![a] = NoAttempt]
  /\ IF attempt[a].stage = "granted" THEN session' = attempt[a].family /\ stack' = << >>
     ELSE ShowError(a) /\ UNCHANGED session
  /\ UNCHANGED << account, families, issued, overlapped, lost >>

\* The network fails, before the backend has served the call or after.
CallFails(a) ==
  /\ attempt[a] # NoAttempt /\ attempt[a].stage # "sheet"
  /\ attempt' = [attempt EXCEPT ![a] = NoAttempt]
  /\ ShowError(a)
  /\ lost' = (lost \/ attempt[a].stage = "granted")
  /\ UNCHANGED << account, families, issued, session, overlapped >>

(***************************************************************************)
(* Moving about                                                            *)
(***************************************************************************)

Navigate(name) ==
  /\ SignedOut /\ Top < MaxStack /\ stack[Top].screen # name
  /\ stack' = Append(stack, NewScreen(name))
  /\ UNCHANGED << attempt, account, families, issued, session, overlapped, lost >>

\* What the screen has under way finds no screen to tell.
GoBack ==
  /\ SignedOut /\ Top > 1
  /\ stack' = Front(stack)
  /\ attempt' = [a \in Attempts |->
       IF attempt[a] # NoAttempt /\ attempt[a].level = Top THEN [attempt[a] EXCEPT !.level = 0]
       ELSE attempt[a]]
  /\ UNCHANGED << account, families, issued, session, overlapped, lost >>

\* clearSession revokes the family of the token it finds, best effort.
RevokeNothing(arrives) == UNCHANGED families
Revoke(arrives) == families' = IF arrives THEN families \ {session} ELSE families

SignOut(arrives) ==
  /\ session # 0 /\ session' = 0
  /\ Revoke(arrives)
  /\ lost' = (lost \/ ~arrives)
  /\ stack' = << NewScreen("login") >>
  /\ attempt' = [a \in Attempts |-> IF attempt[a] = NoAttempt THEN NoAttempt
                                    ELSE [attempt[a] EXCEPT !.level = 0]]
  /\ UNCHANGED << account, issued, overlapped >>

SignInInit ==
  /\ stack = << NewScreen("login") >> /\ attempt = [a \in Attempts |-> NoAttempt]
  /\ account \in BOOLEAN
  /\ families = {} /\ issued = 0 /\ session = 0 /\ overlapped = FALSE /\ lost = FALSE

SignInNext ==
  \/ \E f \in LoginFields \cup RegisterFields : EditField(f)
  \/ \E a \in Attempts :
       \/ \E byKeyboard \in BOOLEAN : HandleSubmit(a, byKeyboard)
       \/ \E provider \in {"google", "apple"} : ContinueWith(a, provider)
       \/ \E outcome \in {"token", "dismissed", "broken"} : SheetCloses(a, outcome)
       \/ \E credentialsMatch \in BOOLEAN : Served(a, credentialsMatch)
       \/ Answered(a) \/ CallFails(a)
  \/ \E name \in {"login", "register"} : Navigate(name)
  \/ GoBack
  \/ \E arrives \in BOOLEAN : SignOut(arrives)

SignInSpec == SignInInit /\ [][SignInNext]_signInVars

SignInTypeOK ==
  /\ stack \in Seq(Forms) /\ Len(stack) <= MaxStack
  /\ attempt \in [Attempts -> AttemptRecords \cup {NoAttempt}]
  /\ {account, overlapped, lost} \subseteq BOOLEAN
  /\ families \subseteq 1 .. issued /\ issued \in 0 .. MaxFamilies /\ session \in 0 .. issued

(***************************************************************************)
(* Properties                                                              *)
(***************************************************************************)

\* The server keeps no session alive that nobody can sign out of: over forms left and
\* sheets dismissed, retries, sign-outs and sign-ins, every family that can be
\* refreshed is the device's own or on its way there, unless two sign-ins overlapped
\* or an answer was lost.
NoSessionLeftBehind ==
  \/ overlapped \/ lost
  \/ \A f \in families : f = session \/ \E a \in Attempts : attempt[a] # NoAttempt
                                                          /\ attempt[a].family = f
=============================================================================
