---------------------------- MODULE SessionPromise ----------------------------
(***************************************************************************)
(* What the refresh-token table promises, with no table, lock or request:  *)
(* every login opens a session of its own, a session has one current token *)
(* at a time, a rotation replaces it by a token nobody has seen before,    *)
(* and a session that has ended never comes back.  RefreshTokens is shown  *)
(* to implement this module.                                               *)
(***************************************************************************)

CONSTANTS
  Families,         (* Login sessions: the family_id of a login.             *)
  Tokens,           (* Refresh tokens.                                       *)
  None              (* "No token".                                           *)

VARIABLES
  opened,           (* The sessions some login has opened.                   *)
  minted,           (* Every token ever handed out.                          *)
  current           (* The token a session can be refreshed with, or None.   *)

promised == << opened, minted, current >>

Start ==
  /\ opened  = {}
  /\ minted  = {}
  /\ current = [f \in Families |-> None]

\* A login opens a session nobody has used before, with a fresh token.
Open(f, t) ==
  /\ f \notin opened
  /\ t \notin minted
  /\ opened'  = opened \cup {f}
  /\ minted'  = minted \cup {t}
  /\ current' = [current EXCEPT ![f] = t]

\* A refresh replaces the current token of a session that has one.
Advance(f, t) ==
  /\ current[f] # None
  /\ t \notin minted
  /\ minted'  = minted \cup {t}
  /\ current' = [current EXCEPT ![f] = t]
  /\ UNCHANGED opened

\* Logout, reuse detection, clean-up of an expired token, account deletion:
\* the sessions in F lose their token, for ever.
End(F) ==
  /\ current' = [f \in Families |-> IF f \in F THEN None ELSE current[f]]
  /\ UNCHANGED << opened, minted >>

Step ==
  \/ \E f \in Families, t \in Tokens : Open(f, t) \/ Advance(f, t)
  \/ \E F \in SUBSET Families : End(F)

Promise == Start /\ [][Step]_promised
=============================================================================
