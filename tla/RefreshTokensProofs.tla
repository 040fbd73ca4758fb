------------------------- MODULE RefreshTokensProofs --------------------------
(***************************************************************************)
(* What holds of RefreshTokens for every number of accounts, logins,       *)
(* tokens and concurrent requests.                                         *)
(***************************************************************************)
EXTENDS RefreshTokens, TLAPS

(***************************************************************************)
(* The inductive invariant                                                 *)
(***************************************************************************)

\* A row names a login and an account, and the account is open.
RowsOK ==
  \A t \in Tokens :
    /\ t \in Minted => family[t] \in Families /\ owner[t] \in Users
    /\ Present(t) => account[owner[t]] = "open"

\* A request past its first step has its input.
InputOK ==
  \A r \in Requests :
    /\ pc[r] \in {"rotate", "mint", "reuse", "punishing", "logout", "revoking"}
         => token[r] \in Minted
    /\ pc[r] \in {"issue", "cascade"} => user[r] \in Users

\* Nobody touches the row a rotation has locked: it is as live as it was.
LockedIsLive ==
  \A r \in Requests :
    pc[r] = "mint" => rowLock[token[r]] = r /\ status[token[r]] = "live"

\* An UPDATE that chose no row has nothing to miss.
EmptySnapshot ==
  \A r \in Requests :
    pc[r] \in {"revoking", "punishing"} /\ snapshot[r] = {}
      => LiveIn(family[token[r]]) = {}

\* The rows an UPDATE chose belong to the family it revokes.
SnapshotFamily ==
  \A r \in Requests :
    pc[r] \in {"revoking", "punishing"}
      => \A t \in snapshot[r] : t \in Minted /\ family[t] = family[token[r]]

IInv ==
  /\ TypeOK
  /\ RowsOK
  /\ InputOK
  /\ LockedIsLive
  /\ OneLiveToken
  /\ EmptySnapshot
  /\ SnapshotFamily

(***************************************************************************)
(* The shapes of a step, seen from the rows alone                          *)
(***************************************************************************)

\* No token becomes live: rows are revoked or deleted, or stay.
Loses ==
  /\ family' = family /\ owner' = owner
  /\ Minted' = Minted
  /\ \A t \in Tokens : Present(t)' => Present(t)
  /\ \A t \in Tokens : status'[t] = "live" => status[t] = "live"

\* A login inserts the first token of a new family.
Opens(t, u, f) ==
  /\ t \in Tokens \ Minted
  /\ u \in Users
  /\ f \in Families /\ ~ UsedFamily(f)
  /\ status' = [status EXCEPT ![t] = "live"]
  /\ family' = [family EXCEPT ![t] = f]
  /\ owner'  = [owner EXCEPT ![t] = u]
  /\ account'[u] = "open"

\* A rotation revokes the live token p and inserts its successor n.
Rotates(p, n) ==
  /\ p \in Tokens /\ status[p] = "live"
  /\ n \in Tokens \ Minted
  /\ status' = [status EXCEPT ![p] = "revoked", ![n] = "live"]
  /\ family' = [family EXCEPT ![n] = family[p]]
  /\ owner'  = [owner EXCEPT ![n] = owner[p]]
  /\ account' = account

\* generate_token returns a token nobody has.
LEMMA NewTokenIsNew ==
  TokenLeft => NewToken \in Tokens \ Minted
PROOF
  <1>1. SUFFICES ASSUME TokenLeft PROVE NewToken \in Tokens \ Minted
    OBVIOUS
  <1>2. \E t \in Tokens : t \notin Minted
    BY <1>1 DEF TokenLeft, Minted
  <1> QED
    BY <1>2 DEF NewToken

\* Uuid::new_v4 returns a family nobody has.
LEMMA NewFamilyIsNew ==
  FamilyLeft => NewFamily \in Families /\ ~ UsedFamily(NewFamily)
PROOF
  BY DEF FamilyLeft, NewFamily

\* Every step has one of the three shapes.
LEMMA StepShape ==
  ASSUME IInv, [Next]_vars
  PROVE  \/ Loses
         \/ \E t \in Tokens, u \in Users, f \in Families : Opens(t, u, f)
         \/ \E p, n \in Tokens : Rotates(p, n)
PROOF
  <1> USE DEF IInv, TypeOK
  <1>1. ASSUME NEW r \in Requests, NEW u \in Users, Register(r, u)
        PROVE  Opens(NewToken, u, NewFamily)
    BY <1>1, NewTokenIsNew, NewFamilyIsNew DEF Register, Insert, Opens
  <1>2. ASSUME NEW r \in Requests, Issue(r)
        PROVE  Opens(NewToken, user[r], NewFamily)
    <2>1. user[r] \in Users
      BY <1>2 DEF Issue, InputOK
    <2> QED
      BY <1>2, <2>1, NewTokenIsNew, NewFamilyIsNew DEF Issue, AccountExists, Insert, Opens
  <1>3. ASSUME NEW r \in Requests, RotateMint(r)
        PROVE  Rotates(token[r], NewToken)
    <2>1. token[r] \in Tokens /\ status[token[r]] = "live"
      BY <1>3 DEF RotateMint, InputOK, LockedIsLive, Minted
    <2> QED
      BY <1>3, <2>1, NewTokenIsNew DEF RotateMint, Insert, Rotates
  <1>4. ASSUME NEW r \in Requests, NEW t \in Tokens, RefreshPrune(r, t)
        PROVE  Loses
    <2>1. \A x \in Tokens : \/ status'[x] = status[x]
                            \/ Present(x) /\ status'[x] = "deleted"
      BY <1>4 DEF RefreshPrune, PruneRows, Transition
    <2> QED
      BY <1>4, <2>1 DEF RefreshPrune, Loses, Minted, Present
  <1>5. ASSUME NEW r \in Requests, NEW from, RevokeEnd(r, from)
        PROVE  Loses
    <2>1. \A x \in Tokens : \/ status'[x] = status[x]
                            \/ status[x] = "live" /\ status'[x] = "revoked"
      BY <1>5 DEF RevokeEnd, RevokedRows
    <2> QED
      BY <1>5, <2>1 DEF RevokeEnd, Loses, Minted, Present
  <1>6. ASSUME NEW r \in Requests, DeleteEnd(r)
        PROVE  Loses
    <2>1. \A x \in Tokens : \/ status'[x] = status[x]
                            \/ Present(x) /\ status'[x] = "deleted"
      BY <1>6 DEF DeleteEnd, RowsOf
    <2> QED
      BY <1>6, <2>1 DEF DeleteEnd, Loses, Minted, Present
  <1>7. ASSUME UNCHANGED << status, family, owner >>
        PROVE  Loses
    BY <1>7 DEF Loses, Minted, Present
  <1>8. CASE UNCHANGED vars
    BY <1>8, <1>7 DEF vars, table
  <1>9. ASSUME NEW r \in Requests,
               \/ \E u \in Users : LoginFind(r, u) \/ DeleteStart(r, u)
               \/ \E t \in Tokens : LogoutFind(r, t)
               \/ IssueRefused(r) \/ RotateLock(r) \/ RotateRefused(r)
               \/ LogoutStart(r) \/ ReuseStart(r)
               \/ BeyondBound(r) \/ Abort(r) \/ DeadlockVictim(r)
        PROVE  UNCHANGED << status, family, owner >>
    BY <1>9 DEF LoginFind, DeleteStart, LogoutFind, IssueRefused, RotateLock,
         RotateRefused, LogoutStart, ReuseStart, RevokeStart, BeyondBound,
         Abort, DeadlockVictim, table
  <1>10. ASSUME NEW t \in Tokens, Expire(t)
         PROVE  UNCHANGED << status, family, owner >>
    BY <1>10 DEF Expire
  <1>11. ASSUME NEW r \in Requests, Arrive(r)
         PROVE  \/ Loses
                \/ \E t \in Tokens, u \in Users, f \in Families : Opens(t, u, f)
    <2>1. CASE \E u \in Users : Register(r, u)
      <3>1. PICK u \in Users : Register(r, u)
        BY <2>1
      <3>2. Opens(NewToken, u, NewFamily)
        BY <3>1, <1>1
      <3> QED
        BY <3>2 DEF Opens
    <2>2. CASE \E t \in Tokens : RefreshPrune(r, t)
      BY <2>2, <1>4
    <2>3. CASE \/ \E u \in Users : LoginFind(r, u) \/ DeleteStart(r, u)
               \/ \E t \in Tokens : LogoutFind(r, t)
      BY <2>3, <1>9, <1>7
    <2> QED
      BY <1>11, <2>1, <2>2, <2>3 DEF Arrive
  <1>12. ASSUME NEW r \in Requests, Handle(r)
         PROVE  \/ Loses
                \/ \E t \in Tokens, u \in Users, f \in Families : Opens(t, u, f)
                \/ \E p, n \in Tokens : Rotates(p, n)
    <2>1. CASE Issue(r)
      <3>1. Opens(NewToken, user[r], NewFamily)
        BY <2>1, <1>2
      <3>2. NewToken \in Tokens /\ NewFamily \in Families /\ user[r] \in Users
        BY <3>1 DEF Opens
      <3> QED
        BY <3>1, <3>2
    <2>2. CASE RotateMint(r)
      <3>1. Rotates(token[r], NewToken)
        BY <2>2, <1>3
      <3>2. token[r] \in Tokens /\ NewToken \in Tokens
        BY <3>1 DEF Rotates
      <3> QED
        BY <3>1, <3>2
    <2>3. CASE LogoutEnd(r) \/ ReuseEnd(r)
      BY <2>3, <1>5 DEF LogoutEnd, ReuseEnd
    <2>4. CASE DeleteEnd(r)
      BY <2>4, <1>6
    <2>5. CASE \/ IssueRefused(r) \/ RotateLock(r) \/ RotateRefused(r)
               \/ LogoutStart(r) \/ ReuseStart(r) \/ BeyondBound(r)
      BY <2>5, <1>9, <1>7
    <2> QED
      BY <1>12, <2>1, <2>2, <2>3, <2>4, <2>5 DEF Handle
  <1> QED
    <2>1. CASE \E r \in Requests : Arrive(r) \/ Handle(r) \/ Abort(r) \/ DeadlockVictim(r)
      BY <2>1, <1>7, <1>9, <1>11, <1>12
    <2>2. CASE \E t \in Tokens : Expire(t)
      BY <2>2, <1>10, <1>7
    <2> QED
      BY <2>1, <2>2, <1>8 DEF Next

(***************************************************************************)
(* Every step preserves the invariant                                      *)
(***************************************************************************)

\* The end of a handler leaves the local variables and the locks well typed.
LEMMA FinishTypes ==
  ASSUME TypeOK, NEW r \in Requests, Finish(r)
  PROVE  /\ pc'       \in [Requests -> Stages]
         /\ token'    \in [Requests -> Tokens \cup {None}]
         /\ user'     \in [Requests -> Users \cup {None}]
         /\ snapshot' \in [Requests -> SUBSET Tokens]
         /\ rowLock'  \in [Tokens -> Requests \cup {None}]
         /\ userLock' \in [Users -> Requests \cup {None}]
PROOF
  BY DEF TypeOK, Finish, Stages

LEMMA TypeStep ==
  ASSUME IInv, [Next]_vars
  PROVE  TypeOK'
PROOF
  <1> USE DEF IInv, TypeOK
  <1>1. ASSUME NEW r \in Requests, NEW u \in Users, Register(r, u) PROVE TypeOK'
    BY <1>1, NewTokenIsNew, NewFamilyIsNew DEF Register, Insert, locks, input, Stages
  <1>2. ASSUME NEW r \in Requests, NEW u \in Users, LoginFind(r, u) PROVE TypeOK'
    BY <1>2 DEF LoginFind, Transition, table, locks, Stages
  <1>3. ASSUME NEW r \in Requests, Issue(r) PROVE TypeOK'
    <2>1. user[r] \in Users
      BY <1>3 DEF Issue, InputOK
    <2> QED
      BY <1>3, <2>1, FinishTypes, NewTokenIsNew, NewFamilyIsNew DEF Issue, Insert
  <1>4. ASSUME NEW r \in Requests, UNCHANGED table, Finish(r) PROVE TypeOK'
    BY <1>4, FinishTypes DEF table
  <1>5. ASSUME NEW r \in Requests, NEW t \in Tokens, RefreshPrune(r, t) PROVE TypeOK'
    BY <1>5 DEF RefreshPrune, Transition, locks, Stages
  <1>6. ASSUME NEW r \in Requests, RotateLock(r) PROVE TypeOK'
    BY <1>6 DEF RotateLock, table, input, Stages
  <1>7. ASSUME NEW r \in Requests, RotateMint(r) PROVE TypeOK'
    <2>1. token[r] \in Tokens
      BY <1>7 DEF RotateMint, InputOK, Minted
    <2> QED
      BY <1>7, <2>1, FinishTypes, NewTokenIsNew DEF RotateMint, Insert
  <1>8. ASSUME NEW r \in Requests, NEW t \in Tokens, LogoutFind(r, t) PROVE TypeOK'
    BY <1>8 DEF LogoutFind, Transition, table, locks, Stages
  <1>9. ASSUME NEW r \in Requests, LogoutStart(r) \/ ReuseStart(r) PROVE TypeOK'
    BY <1>9 DEF LogoutStart, ReuseStart, RevokeStart, ChosenRows, Transition, LiveIn, table,
         locks, input, Stages
  <1>10. ASSUME NEW r \in Requests, LogoutEnd(r) \/ ReuseEnd(r) PROVE TypeOK'
    BY <1>10, FinishTypes DEF LogoutEnd, ReuseEnd, RevokeEnd
  <1>11. ASSUME NEW r \in Requests, NEW u \in Users, DeleteStart(r, u) PROVE TypeOK'
    BY <1>11 DEF DeleteStart, Transition, table, Stages
  <1>12. ASSUME NEW r \in Requests, DeleteEnd(r) PROVE TypeOK'
    BY <1>12, FinishTypes DEF DeleteEnd
  <1>13. ASSUME NEW t \in Tokens, Expire(t) PROVE TypeOK'
    BY <1>13 DEF Expire, locks, input
  <1>14. CASE UNCHANGED vars
    BY <1>14 DEF vars, table, locks, input
  <1>15. ASSUME NEW r \in Requests,
                IssueRefused(r) \/ RotateRefused(r) \/ BeyondBound(r)
                  \/ Abort(r) \/ DeadlockVictim(r)
         PROVE  TypeOK'
    BY <1>15, <1>4 DEF IssueRefused, RotateRefused, BeyondBound, Abort, DeadlockVictim
  <1> QED
    BY <1>1, <1>2, <1>3, <1>5, <1>6, <1>7, <1>8, <1>9, <1>10, <1>11, <1>12, <1>13,
       <1>14, <1>15 DEF Next, Arrive, Handle

\* At most one live token: a login's first is alone, a successor replaces its
\* predecessor.
LEMMA OneLiveStep ==
  ASSUME IInv, [Next]_vars
  PROVE  OneLiveToken'
PROOF
  <1> USE DEF IInv, TypeOK, OneLiveToken
  <1>1. CASE Loses
    BY <1>1 DEF Loses
  <1>2. ASSUME NEW n \in Tokens, NEW u \in Users, NEW f \in Families, Opens(n, u, f)
        PROVE  OneLiveToken'
    <2>1. \A x \in Tokens : status[x] = "live" => x # n /\ family[x] # f
      BY <1>2 DEF Opens, UsedFamily, Minted
    <2>2. \A x \in Tokens : status'[x] = "live" => x = n \/ status[x] = "live"
      BY <1>2 DEF Opens
    <2>3. family'[n] = f /\ \A x \in Tokens : x # n => family'[x] = family[x]
      BY <1>2 DEF Opens
    <2> QED
      BY <2>1, <2>2, <2>3
  <1>3. ASSUME NEW p \in Tokens, NEW n \in Tokens, Rotates(p, n)
        PROVE  OneLiveToken'
    <2>1. n # p /\ status[n] # "live"
      BY <1>3 DEF Rotates, Minted
    <2>2. \A x \in Tokens :
            status'[x] = "live" => x = n \/ (x # p /\ status[x] = "live")
      BY <1>3, <2>1 DEF Rotates
    <2>3. family'[n] = family[p] /\ \A x \in Tokens : x # n => family'[x] = family[x]
      BY <1>3 DEF Rotates
    <2>4. status[p] = "live"
      BY <1>3 DEF Rotates
    <2> QED
      BY <2>1, <2>2, <2>3, <2>4
  <1> QED
    BY <1>1, <1>2, <1>3, StepShape

\* Once ended, a login stays ended.
LEMMA EndedStep ==
  ASSUME IInv, [Next]_vars, NEW f \in Families, Ended(f)
  PROVE  Ended(f)'
PROOF
  <1> USE DEF IInv, TypeOK, Ended, UsedFamily, LiveIn
  <1>1. CASE Loses
    BY <1>1 DEF Loses
  <1>2. ASSUME NEW n \in Tokens, NEW u \in Users, NEW g \in Families, Opens(n, u, g)
        PROVE  Ended(f)'
    <2>1. g # f
      BY <1>2 DEF Opens
    <2>2. \A x \in Tokens : status'[x] = "live" => x = n \/ status[x] = "live"
      BY <1>2 DEF Opens
    <2>3. family'[n] = g /\ \A x \in Tokens : x # n => family'[x] = family[x]
      BY <1>2 DEF Opens
    <2>4. \A x \in Minted : x # n /\ x \in Minted'
      BY <1>2 DEF Opens, Minted
    <2> QED
      BY <2>1, <2>2, <2>3, <2>4 DEF Minted
  <1>3. ASSUME NEW p \in Tokens, NEW n \in Tokens, Rotates(p, n)
        PROVE  Ended(f)'
    <2>1. family[p] # f
      BY <1>3 DEF Rotates
    <2>2. \A x \in Tokens : status'[x] = "live" => x = n \/ status[x] = "live"
      BY <1>3 DEF Rotates
    <2>3. family'[n] = family[p] /\ \A x \in Tokens : x # n => family'[x] = family[x]
      BY <1>3 DEF Rotates
    <2>4. \A x \in Minted : x # n /\ x \in Minted'
      BY <1>3 DEF Rotates, Minted
    <2> QED
      BY <2>1, <2>2, <2>3, <2>4 DEF Minted
  <1> QED
    BY <1>1, <1>2, <1>3, StepShape

\* The columns of a row that exists, or existed, never change.
LEMMA ColumnsKept ==
  ASSUME IInv, [Next]_vars
  PROVE  /\ Minted \subseteq Minted'
         /\ \A t \in Minted : family'[t] = family[t] /\ owner'[t] = owner[t]
PROOF
  <1> USE DEF IInv, TypeOK, Minted
  <1>1. CASE Loses
    BY <1>1 DEF Loses
  <1>2. ASSUME NEW n \in Tokens, NEW u \in Users, NEW f \in Families, Opens(n, u, f)
        PROVE  /\ Minted \subseteq Minted'
               /\ \A t \in Minted : family'[t] = family[t] /\ owner'[t] = owner[t]
    BY <1>2 DEF Opens
  <1>3. ASSUME NEW p \in Tokens, NEW n \in Tokens, Rotates(p, n)
        PROVE  /\ Minted \subseteq Minted'
               /\ \A t \in Minted : family'[t] = family[t] /\ owner'[t] = owner[t]
    BY <1>3 DEF Rotates
  <1> QED
    BY <1>1, <1>2, <1>3, StepShape

\* An open account stays open, or is deleted with all its rows.
LEMMA AccountStep ==
  ASSUME IInv, [Next]_vars, NEW u \in Users, account[u] = "open"
  PROVE  account'[u] = "open" \/ RowsOf(u)' = {}
PROOF
  <1> USE DEF IInv, TypeOK
  <1>1. ASSUME NEW r \in Requests, NEW v \in Users, Register(r, v)
        PROVE  account'[u] = "open"
    BY <1>1 DEF Register
  <1>2. ASSUME NEW r \in Requests, DeleteEnd(r)
        PROVE  account'[u] = "open" \/ RowsOf(u)' = {}
    <2>1. CASE u = user[r]
      BY <1>2, <2>1 DEF DeleteEnd, RowsOf, Present
    <2>2. CASE u # user[r]
      BY <1>2, <2>2 DEF DeleteEnd
    <2> QED
      BY <2>1, <2>2
  <1>3. CASE UNCHANGED account
    BY <1>3
  <1>4. CASE \/ UNCHANGED vars
             \/ \E t \in Tokens : Expire(t)
    BY <1>3, <1>4 DEF Expire, vars, table
  <1>5. ASSUME NEW r \in Requests, Arrive(r)
        PROVE  account'[u] = "open"
    BY <1>1, <1>3, <1>5 DEF Arrive, LoginFind, DeleteStart, RefreshPrune,
         LogoutFind, table
  <1>6. ASSUME NEW r \in Requests, Handle(r) \/ Abort(r) \/ DeadlockVictim(r)
        PROVE  account'[u] = "open" \/ RowsOf(u)' = {}
    BY <1>2, <1>3, <1>6 DEF Handle, Issue, IssueRefused, RotateLock, RotateRefused,
         RotateMint, LogoutStart, ReuseStart, RevokeStart, LogoutEnd, ReuseEnd,
         RevokeEnd, BeyondBound, Abort, DeadlockVictim, table
  <1> QED
    BY <1>4, <1>5, <1>6 DEF Next

LEMMA RowsStep ==
  ASSUME IInv, [Next]_vars
  PROVE  RowsOK'
PROOF
  <1> USE DEF IInv, TypeOK
  <1>1. ASSUME NEW t \in Tokens, Present(t), Present(t)', owner'[t] = owner[t]
        PROVE  account'[owner'[t]] = "open"
    <2>1. t \in Minted /\ owner[t] \in Users /\ account[owner[t]] = "open"
      BY <1>1 DEF RowsOK, Present, Minted
    <2>2. t \in RowsOf(owner[t])'
      BY <1>1, <2>1 DEF RowsOf
    <2> QED
      BY <1>1, <2>1, <2>2, AccountStep
  <1>2. CASE Loses
    BY <1>1, <1>2 DEF Loses, RowsOK
  <1>3. ASSUME NEW n \in Tokens, NEW u \in Users, NEW f \in Families, Opens(n, u, f)
        PROVE  RowsOK'
    <2>1. /\ family'[n] \in Families /\ owner'[n] = u /\ account'[u] = "open"
          /\ \A t \in Tokens \ {n} : /\ status'[t] = status[t]
                                    /\ owner'[t] = owner[t]
                                    /\ family'[t] = family[t]
      BY <1>3 DEF Opens
    <2> QED
      BY <1>1, <2>1 DEF RowsOK, Minted, Present
  <1>4. ASSUME NEW p \in Tokens, NEW n \in Tokens, Rotates(p, n)
        PROVE  RowsOK'
    <2>1. /\ family[p] \in Families /\ owner[p] \in Users
          /\ account[owner[p]] = "open" /\ account' = account
      BY <1>4 DEF Rotates, RowsOK, Minted, Present
    <2>2. /\ family'[n] = family[p] /\ owner'[n] = owner[p]
          /\ \A t \in Tokens \ {n} : owner'[t] = owner[t] /\ family'[t] = family[t]
          /\ \A t \in Tokens \ {n} : (t \in Minted)' => t \in Minted
          /\ \A t \in Tokens \ {n} : Present(t)' => Present(t)
      BY <1>4 DEF Rotates, Minted, Present
    <2> QED
      BY <1>1, <2>1, <2>2 DEF RowsOK
  <1> QED
    BY <1>2, <1>3, <1>4, StepShape

\* A step of request q leaves the local state of the others alone.
SameLocal(r) ==
  /\ pc'[r] = pc[r]
  /\ token'[r] = token[r]
  /\ user'[r] = user[r]
  /\ snapshot'[r] = snapshot[r]

\* What request r does in a step it takes: it stops, or it moves on to a stage
\* in which it holds what the next steps count on.
MovesOn(r) ==
  \/ pc'[r] = "idle"
  \/ pc'[r] = "issue" /\ user'[r] \in Users
  \/ pc'[r] = "cascade" /\ user'[r] \in Users
  \/ pc'[r] \in {"rotate", "logout"} /\ token'[r] \in Minted
  \/ /\ pc'[r] \in {"mint", "reuse"}
     /\ token'[r] = token[r] /\ token[r] \in Minted
     /\ rowLock'[token[r]] = r
     /\ status' = status
     /\ pc'[r] = "mint" => status[token[r]] = "live"
  \/ /\ pc'[r] \in {"revoking", "punishing"}
     /\ token'[r] = token[r] /\ token[r] \in Minted
     /\ status' = status /\ family' = family
     /\ snapshot'[r] = LiveIn(family[token[r]])

LEMMA LocalStep ==
  ASSUME IInv, [Next]_vars, NEW r \in Requests
  PROVE  SameLocal(r) \/ MovesOn(r)
PROOF
  <1> USE DEF IInv, TypeOK
  <1>1. ASSUME NEW q \in Requests, Finish(q)
        PROVE  SameLocal(r) \/ MovesOn(r)
    BY <1>1 DEF Finish, SameLocal, MovesOn
  <1>2. ASSUME NEW q \in Requests, NEW u \in Users,
               Register(q, u) \/ LoginFind(q, u) \/ DeleteStart(q, u)
        PROVE  SameLocal(r) \/ MovesOn(r)
    BY <1>2 DEF Register, LoginFind, DeleteStart, Transition, input, SameLocal, MovesOn
  <1>3. ASSUME NEW q \in Requests, NEW t \in Tokens, RefreshPrune(q, t) \/ LogoutFind(q, t)
        PROVE  SameLocal(r) \/ MovesOn(r)
    BY <1>3 DEF RefreshPrune, LogoutFind, Transition, Present, Minted, SameLocal, MovesOn
  <1>4. ASSUME NEW q \in Requests, RotateLock(q)
        PROVE  SameLocal(r) \/ MovesOn(r)
    <2>1. CASE q = r
      <3>1. token[r] \in Minted
        BY <1>4, <2>1 DEF RotateLock, InputOK
      <3>2. pc'[r] \in {"mint", "reuse"} /\ (pc'[r] = "mint" => status[token[r]] = "live")
        BY <1>4, <2>1, <3>1 DEF RotateLock, IsRevoked, Present
      <3>3. rowLock'[token[r]] = r
        BY <1>4, <2>1, <3>1 DEF RotateLock, Minted
      <3> QED
        BY <1>4, <2>1, <3>1, <3>2, <3>3 DEF RotateLock, table, input, MovesOn
    <2>2. CASE q # r
      BY <1>4, <2>2 DEF RotateLock, input, SameLocal
    <2> QED
      BY <2>1, <2>2
  <1>5. ASSUME NEW q \in Requests, LogoutStart(q) \/ ReuseStart(q)
        PROVE  SameLocal(r) \/ MovesOn(r)
    <2>1. CASE q = r
      <3>1. token[r] \in Minted
        BY <1>5, <2>1 DEF LogoutStart, ReuseStart, RevokeStart, Transition, InputOK
      <3> QED
        BY <1>5, <2>1, <3>1 DEF LogoutStart, ReuseStart, RevokeStart, ChosenRows, Transition,
           table, input, MovesOn
    <2>2. CASE q # r
      BY <1>5, <2>2 DEF LogoutStart, ReuseStart, RevokeStart, Transition, input, SameLocal
    <2> QED
      BY <2>1, <2>2
  <1>6. CASE UNCHANGED << pc, input, snapshot >>
    BY <1>6 DEF input, SameLocal
  <1>7. CASE UNCHANGED vars \/ \E t \in Tokens : Expire(t)
    BY <1>6, <1>7 DEF vars, Expire
  <1>8. ASSUME NEW q \in Requests, Arrive(q)
        PROVE  SameLocal(r) \/ MovesOn(r)
    BY <1>2, <1>3, <1>8 DEF Arrive
  <1>9. ASSUME NEW q \in Requests, Handle(q) \/ Abort(q) \/ DeadlockVictim(q)
        PROVE  SameLocal(r) \/ MovesOn(r)
    BY <1>1, <1>4, <1>5, <1>9 DEF Handle, Issue, IssueRefused, RotateRefused, RotateMint,
       LogoutEnd, ReuseEnd, RevokeEnd, DeleteEnd, BeyondBound, Abort, DeadlockVictim
  <1> QED
    BY <1>7, <1>8, <1>9 DEF Next

LEMMA InputStep ==
  ASSUME IInv, [Next]_vars
  PROVE  InputOK'
PROOF
  <1> USE DEF IInv, TypeOK
  <1>1. ASSUME NEW r \in Requests
        PROVE  /\ pc'[r] \in {"rotate", "mint", "reuse", "punishing", "logout", "revoking"}
                    => token'[r] \in Minted'
               /\ pc'[r] \in {"issue", "cascade"} => user'[r] \in Users
    <2>1. CASE SameLocal(r)
      BY <2>1, ColumnsKept DEF SameLocal, InputOK
    <2>2. CASE MovesOn(r)
      BY <2>2, ColumnsKept DEF MovesOn
    <2> QED
      BY <2>1, <2>2, LocalStep
  <1> QED
    BY <1>1 DEF InputOK

\* The row a rotation has locked stays as it is while others take their steps.
LEMMA LockedRowKept ==
  ASSUME IInv, [Next]_vars, NEW r \in Requests, pc[r] = "mint", SameLocal(r),
         NEW t \in Tokens, t = token[r]
  PROVE  rowLock'[t] = r /\ status'[t] = "live"
PROOF
  <1> USE DEF IInv, TypeOK
  <1>1. /\ t \in Tokens /\ t \in Minted /\ r # None
        /\ rowLock[t] = r /\ status[t] = "live" /\ Present(t)
    BY NoneIsNobody DEF InputOK, LockedIsLive, Minted, Present
  <1>2. ASSUME NEW q \in Requests, Finish(q)
        PROVE  q # r /\ rowLock'[t] = r
    BY <1>1, <1>2 DEF Finish, SameLocal
  <1>3. ASSUME UNCHANGED << status, rowLock >>
        PROVE  rowLock'[t] = r /\ status'[t] = "live"
    BY <1>1, <1>3
  <1>4. ASSUME NEW q \in Requests, NEW u \in Users, Register(q, u)
        PROVE  rowLock'[t] = r /\ status'[t] = "live"
    BY <1>1, <1>4, NewTokenIsNew DEF Register, locks
  <1>5. ASSUME NEW q \in Requests, Issue(q)
        PROVE  rowLock'[t] = r /\ status'[t] = "live"
    BY <1>1, <1>2, <1>5, NewTokenIsNew DEF Issue
  <1>6. ASSUME NEW q \in Requests, NEW x \in Tokens, RefreshPrune(q, x)
        PROVE  rowLock'[t] = r /\ status'[t] = "live"
    <2>1. q # r
      BY <1>6 DEF RefreshPrune, Transition, SameLocal
    <2>2. ~ Grabs(q, t)
      BY <1>1, <2>1 DEF Grabs
    <2> QED
      BY <1>1, <1>6, <2>2 DEF RefreshPrune, locks
  <1>7. ASSUME NEW q \in Requests, RotateLock(q)
        PROVE  rowLock'[t] = r /\ status'[t] = "live"
    <2>1. q # r
      BY <1>7 DEF RotateLock, SameLocal
    <2>2. token[q] # t
      BY <1>1, <1>7, <2>1 DEF RotateLock, ForUpdate, Grabs
    <2> QED
      BY <1>1, <1>7, <2>2 DEF RotateLock, table
  <1>8. ASSUME NEW q \in Requests, RotateMint(q)
        PROVE  rowLock'[t] = r /\ status'[t] = "live"
    <2>1. q # r /\ rowLock'[t] = r
      BY <1>2, <1>8 DEF RotateMint
    <2>2. token[q] # t
      BY <1>1, <1>8, <2>1 DEF RotateMint, LockedIsLive
    <2> QED
      BY <1>1, <1>8, <2>1, <2>2, NewTokenIsNew DEF RotateMint
  <1>9. ASSUME NEW q \in Requests, NEW from, RevokeEnd(q, from)
        PROVE  rowLock'[t] = r /\ status'[t] = "live"
    <2>1. q # r /\ rowLock'[t] = r
      BY <1>2, <1>9 DEF RevokeEnd
    <2>2. ~ Grabs(q, t)
      BY <1>1, <2>1 DEF Grabs
    <2> QED
      BY <1>1, <1>9, <2>1, <2>2 DEF RevokeEnd, RevokedRows
  <1>10. ASSUME NEW q \in Requests, DeleteEnd(q)
         PROVE  rowLock'[t] = r /\ status'[t] = "live"
    <2>1. q # r /\ rowLock'[t] = r
      BY <1>2, <1>10 DEF DeleteEnd
    <2>2. ~ Grabs(q, t)
      BY <1>1, <2>1 DEF Grabs
    <2> QED
      BY <1>1, <1>10, <2>1, <2>2 DEF DeleteEnd
  <1>11. ASSUME NEW q \in Requests, UNCHANGED table, Finish(q)
         PROVE  rowLock'[t] = r /\ status'[t] = "live"
    BY <1>1, <1>2, <1>11 DEF table
  <1>12. CASE UNCHANGED vars \/ \E x \in Tokens : Expire(x)
    BY <1>3, <1>12 DEF vars, table, locks, Expire
  <1>13. ASSUME NEW q \in Requests, Arrive(q)
         PROVE  rowLock'[t] = r /\ status'[t] = "live"
    BY <1>3, <1>4, <1>6, <1>13 DEF Arrive, LoginFind, DeleteStart, LogoutFind, table, locks
  <1>14. ASSUME NEW q \in Requests, LogoutStart(q) \/ ReuseStart(q)
         PROVE  rowLock'[t] = r /\ status'[t] = "live"
    BY <1>3, <1>14 DEF LogoutStart, ReuseStart, RevokeStart, table, locks
  <1>15. ASSUME NEW q \in Requests, Handle(q) \/ Abort(q) \/ DeadlockVictim(q)
         PROVE  rowLock'[t] = r /\ status'[t] = "live"
    BY <1>5, <1>7, <1>8, <1>9, <1>10, <1>11, <1>14, <1>15 DEF Handle, IssueRefused,
       RotateRefused, LogoutEnd, ReuseEnd, BeyondBound, Abort, DeadlockVictim
  <1> QED
    BY <1>12, <1>13, <1>15 DEF Next

LEMMA LockedStep ==
  ASSUME IInv, [Next]_vars
  PROVE  LockedIsLive'
PROOF
  <1>1. ASSUME NEW r \in Requests, pc'[r] = "mint"
        PROVE  rowLock'[token'[r]] = r /\ status'[token'[r]] = "live"
    <2>1. CASE SameLocal(r)
      <3>1. pc[r] = "mint" /\ token'[r] = token[r] /\ token[r] \in Tokens
        BY <1>1, <2>1 DEF SameLocal, IInv, InputOK, Minted
      <3> QED
        BY <2>1, <3>1, LockedRowKept
    <2>2. CASE MovesOn(r)
      BY <1>1, <2>2 DEF MovesOn
    <2> QED
      BY <2>1, <2>2, LocalStep
  <1> QED
    BY <1>1 DEF LockedIsLive

\* A family without a live row when the UPDATE started has none when it ends.
LEMMA EmptySnapshotStep ==
  ASSUME IInv, [Next]_vars
  PROVE  EmptySnapshot'
PROOF
  <1> USE DEF IInv
  <1>1. ASSUME NEW r \in Requests,
               pc'[r] \in {"revoking", "punishing"}, snapshot'[r] = {}
        PROVE  LiveIn(family[token[r]])' = {}
    <2>1. CASE SameLocal(r)
      <3>1. token[r] \in Minted /\ LiveIn(family[token[r]]) = {}
        BY <1>1, <2>1 DEF SameLocal, InputOK, EmptySnapshot
      <3>2. family[token[r]] \in Families /\ Ended(family[token[r]])
        BY <3>1 DEF RowsOK, Ended, UsedFamily, Minted
      <3>3. token'[r] = token[r] /\ family'[token[r]] = family[token[r]]
        BY <2>1, <3>1, ColumnsKept DEF SameLocal
      <3>4. PICK f \in Families : f = family[token[r]] /\ Ended(f)
        BY <3>2
      <3>5. Ended(f)'
        BY <3>4, EndedStep
      <3> QED
        BY <3>3, <3>4, <3>5 DEF Ended, LiveIn
    <2>2. CASE MovesOn(r)
      BY <1>1, <2>2 DEF MovesOn, LiveIn
    <2> QED
      BY <2>1, <2>2, LocalStep
  <1> QED
    BY <1>1 DEF EmptySnapshot

LEMMA SnapshotFamilyStep ==
  ASSUME IInv, [Next]_vars
  PROVE  SnapshotFamily'
PROOF
  <1> USE DEF IInv
  <1>1. ASSUME NEW r \in Requests, pc'[r] \in {"revoking", "punishing"},
               NEW t \in snapshot'[r]
        PROVE  t \in Minted' /\ family'[t] = family'[token'[r]]
    <2>1. CASE SameLocal(r)
      BY <1>1, <2>1, ColumnsKept DEF SameLocal, SnapshotFamily, InputOK
    <2>2. CASE MovesOn(r)
      BY <1>1, <2>2, ColumnsKept DEF MovesOn, LiveIn, Minted
    <2> QED
      BY <2>1, <2>2, LocalStep
  <1> QED
    BY <1>1 DEF SnapshotFamily

(***************************************************************************)
(* Theorems                                                                *)
(***************************************************************************)

LEMMA InitInv == Init => IInv
PROOF
  BY DEF Init, IInv, TypeOK, Stages, RowsOK, InputOK, LockedIsLive, OneLiveToken,
     EmptySnapshot, SnapshotFamily, Minted, Present

\* The inductive invariant: what every row, lock and handler in flight counts
\* on, at every step of every interleaving.
THEOREM Invariance == Spec => []IInv
PROOF
  <1>1. IInv /\ [Next]_vars => IInv'
    BY TypeStep, RowsStep, InputStep, LockedStep, OneLiveStep, EmptySnapshotStep,
       SnapshotFamilyStep DEF IInv
  <1> QED
    BY <1>1, InitInv, PTL DEF Spec

\* Every variable keeps to the values of its column, lock or local variable.
THEOREM TypeCorrect == Spec => []TypeOK
PROOF
  <1>1. IInv => TypeOK
    BY DEF IInv
  <1> QED
    BY <1>1, Invariance, PTL

\* A login never has two tokens it can be refreshed with (rotate_on_conn).
THEOREM SingleUse == Spec => []OneLiveToken
PROOF
  <1>1. IInv => OneLiveToken
    BY DEF IInv
  <1> QED
    BY <1>1, Invariance, PTL

\* A deleted account has no refresh token, now or later (delete_by_id).
THEOREM DeletionIsComplete == Spec => []DeletedHasNoTokens
PROOF
  <1>1. IInv => DeletedHasNoTokens
    BY DEF IInv, DeletedHasNoTokens, RowsOK, RowsOf
  <1> QED
    BY <1>1, Invariance, PTL

\* A login whose last live token is gone is over for good (revoke_family,
\* the reuse branch of rotate_on_conn, prune_expired, delete_by_id).
THEOREM EndIsFinal == Spec => EndedStaysEnded
PROOF
  <1>1. IInv /\ [Next]_vars => [\A f \in Families : Ended(f) => Ended(f)']_vars
    BY EndedStep
  <1> QED
    BY <1>1, Invariance, PTL DEF Spec, EndedStaysEnded

\* The UPDATE of a logout can only miss a row that was rotated or removed
\* while it waited for it: if it had nothing to wait for, or found one of its
\* rows still live, no token of the family is live when it ends.
LEMMA LogoutStep ==
  ASSUME IInv, [Next]_vars, NEW r \in Requests, NEW f \in Families,
         LogoutEnd(r), family[token[r]] = f,
         snapshot[r] = {} \/ RevokedRows(r) # {}
  PROVE  Ended(f)'
PROOF
  <1> USE DEF IInv, TypeOK
  <1>1. pc[r] = "revoking" /\ token[r] \in Minted
    BY DEF LogoutEnd, RevokeEnd, InputOK
  <1>2. UsedFamily(f)
    BY <1>1 DEF UsedFamily
  <1>3. CASE snapshot[r] = {}
    <2>1. Ended(f)
      BY <1>1, <1>2, <1>3 DEF EmptySnapshot, Ended
    <2> QED
      BY <2>1, EndedStep
  <1>4. CASE RevokedRows(r) # {}
    <2>1. PICK t \in snapshot[r] : status[t] = "live" /\ t \in Tokens /\ family[t] = f
      BY <1>1, <1>4 DEF RevokedRows, SnapshotFamily
    <2>2. \A x \in Tokens : status[x] = "live" /\ family[x] = f => x = t
      BY <2>1 DEF OneLiveToken
    <2>3. /\ family' = family
          /\ \A x \in Tokens : status'[x] = "live" => status[x] = "live" /\ x # t
      BY <2>1 DEF LogoutEnd, RevokeEnd, RevokedRows
    <2>4. LiveIn(f)' = {}
      BY <2>2, <2>3 DEF LiveIn
    <2>5. UsedFamily(f)'
      BY <1>2, ColumnsKept DEF UsedFamily
    <2> QED
      BY <2>4, <2>5 DEF Ended
  <1> QED
    BY <1>3, <1>4

THEOREM LogoutBound == Spec => LogoutMissesOnlyRotated
PROOF
  <1>1. IInv /\ [Next]_vars =>
          [\A r \in Requests, f \in Families :
             /\ LogoutEnd(r) /\ family[token[r]] = f
             /\ snapshot[r] = {} \/ RevokedRows(r) # {}
             => Ended(f)']_vars
    BY LogoutStep
  <1> QED
    BY <1>1, Invariance, PTL DEF Spec, LogoutMissesOnlyRotated

(***************************************************************************)
(* RefreshTokens implements SessionPromise                                 *)
(***************************************************************************)

\* The token a login can be refreshed with: current under the refinement.
Current(f) == IF LiveIn(f) = {} THEN None ELSE CHOOSE t \in LiveIn(f) : TRUE

LEMMA CurrentIs ==
  ASSUME OneLiveToken, NEW f \in Families, NEW t \in LiveIn(f)
  PROVE  Current(f) = t
PROOF
  <1>1. \A x \in LiveIn(f) : x = t
    BY DEF OneLiveToken, LiveIn
  <1> QED
    BY <1>1 DEF Current

LEMMA CurrentIsNot ==
  ASSUME NEW f \in Families, LiveIn(f) = {}
  PROVE  Current(f) = None
PROOF
  BY DEF Current

LEMMA CurrentIsNext ==
  ASSUME OneLiveToken', NEW f \in Families, NEW t \in LiveIn(f)'
  PROVE  Current(f)' = t
PROOF
  <1>1. \A x \in LiveIn(f)' : x = t
    BY DEF OneLiveToken, LiveIn
  <1> QED
    BY <1>1 DEF Current

LEMMA CurrentIsNotNext ==
  ASSUME NEW f \in Families, LiveIn(f)' = {}
  PROVE  Current(f)' = None
PROOF
  BY DEF Current

\* A step that makes no token live ends the logins left without one.
LEMMA LosesEnds ==
  ASSUME IInv, IInv', Loses
  PROVE  Sessions!End({f \in Families : LiveIn(f)' = {}})
PROOF
  <1> USE DEF IInv
  <1>1. ASSUME NEW f \in Families, LiveIn(f)' # {}
        PROVE  Current(f)' = Current(f)
    <2>1. PICK t : t \in LiveIn(f)'
      BY <1>1
    <2>2. t \in LiveIn(f)
      BY <2>1 DEF LiveIn, Loses
    <2> QED
      BY <2>1, <2>2, CurrentIs, CurrentIsNext
  <1>2. ASSUME NEW f \in Families, LiveIn(f)' = {}
        PROVE  Current(f)' = None
    BY <1>2, CurrentIsNotNext
  <1>3. \A f \in Families : UsedFamily(f)' = UsedFamily(f)
    BY DEF Loses, UsedFamily
  <1>4. [f \in Families |-> Current(f)'] =
          [f \in Families |-> IF f \in {g \in Families : LiveIn(g)' = {}}
                               THEN None ELSE [g \in Families |-> Current(g)][f]]
    BY <1>1, <1>2
  <1> QED
    BY <1>3, <1>4 DEF Sessions!End, Current, Loses

\* A login opens a session.
LEMMA OpensOpens ==
  ASSUME IInv, IInv', NEW n \in Tokens, NEW u \in Users, NEW f \in Families,
         Opens(n, u, f)
  PROVE  Sessions!Open(f, n)
PROOF
  <1> USE DEF IInv, TypeOK
  <1>1. /\ status'[n] = "live" /\ family'[n] = f /\ n \notin Minted
        /\ \A x \in Tokens \ {n} : status'[x] = status[x] /\ family'[x] = family[x]
    BY DEF Opens
  <1>2. Current(f)' = n
    <2>1. n \in LiveIn(f)'
      BY <1>1 DEF LiveIn
    <2> QED
      BY <2>1, CurrentIsNext
  <1>3. ASSUME NEW g \in Families \ {f}
        PROVE  Current(g)' = Current(g)
    <2>1. LiveIn(g)' = LiveIn(g)
      BY <1>1 DEF LiveIn, Minted
    <2> QED
      BY <2>1 DEF Current
  <1>4. Minted' = Minted \cup {n}
    BY <1>1 DEF Minted
  <1>5. {g \in Families : UsedFamily(g)'} = {g \in Families : UsedFamily(g)} \cup {f}
    BY <1>1, <1>4 DEF UsedFamily, Minted
  <1>6. [g \in Families |-> Current(g)'] =
          [[g \in Families |-> Current(g)] EXCEPT ![f] = n]
    BY <1>2, <1>3
  <1> QED
    BY <1>1, <1>4, <1>5, <1>6 DEF Sessions!Open, Current, Opens

\* A rotation replaces the current token of its login.
LEMMA RotatesAdvances ==
  ASSUME IInv, IInv', NEW p \in Tokens, NEW n \in Tokens, Rotates(p, n)
  PROVE  Sessions!Advance(family[p], n)
PROOF
  <1> USE DEF IInv, TypeOK
  <1>1. /\ status[p] = "live" /\ p # n /\ n \notin Minted
        /\ status'[p] = "revoked" /\ status'[n] = "live" /\ family'[n] = family[p]
        /\ \A x \in Tokens \ {n, p} : status'[x] = status[x]
        /\ \A x \in Tokens \ {n} : family'[x] = family[x]
    BY DEF Rotates, Minted
  <1>2. family[p] \in Families /\ UsedFamily(family[p])
    BY <1>1 DEF RowsOK, Minted, UsedFamily
  <1>3. PICK f \in Families : f = family[p]
    BY <1>2
  <1>4. Current(f) = p /\ Current(f)' = n
    <2>1. p \in LiveIn(f) /\ n \in LiveIn(f)'
      BY <1>1, <1>3 DEF LiveIn
    <2> QED
      BY <2>1, CurrentIs, CurrentIsNext
  <1>5. ASSUME NEW g \in Families \ {f}
        PROVE  Current(g)' = Current(g)
    <2>1. LiveIn(g)' = LiveIn(g)
      BY <1>1, <1>3 DEF LiveIn, Minted
    <2> QED
      BY <2>1 DEF Current
  <1>6. Minted' = Minted \cup {n}
    BY <1>1 DEF Minted
  <1>7. {g \in Families : UsedFamily(g)'} = {g \in Families : UsedFamily(g)}
    BY <1>1, <1>2, <1>6 DEF UsedFamily, Minted
  <1>8. [g \in Families |-> Current(g)'] =
          [[g \in Families |-> Current(g)] EXCEPT ![f] = n]
    BY <1>4, <1>5
  <1>9. [g \in Families |-> Current(g)][f] # None
    BY <1>4, NoneIsNobody
  <1> QED
    BY <1>1, <1>3, <1>6, <1>7, <1>8, <1>9 DEF Sessions!Advance, Current

\* Every interleaving of handlers behaves as if sessions were opened, advanced
\* and ended one at a time: the table, its locks and its snapshots implement
\* SessionPromise.
THEOREM Refinement == Spec => KeepsPromise
PROOF
  <1>1. Init => Sessions!Start
    BY DEF Init, Sessions!Start, Minted, UsedFamily, LiveIn
  <1>2. ASSUME IInv, IInv', [Next]_vars
        PROVE  [Sessions!Step]_(Sessions!promised)
    <2>1. CASE Loses
      BY <1>2, <2>1, LosesEnds DEF Sessions!Step
    <2>2. ASSUME NEW n \in Tokens, NEW u \in Users, NEW f \in Families, Opens(n, u, f)
          PROVE  Sessions!Step
      BY <1>2, <2>2, OpensOpens DEF Sessions!Step
    <2>3. ASSUME NEW p \in Tokens, NEW n \in Tokens, Rotates(p, n)
          PROVE  Sessions!Step
      <3>1. family[p] \in Families
        BY <1>2, <2>3 DEF IInv, RowsOK, Rotates, Minted
      <3> QED
        BY <1>2, <2>3, <3>1, RotatesAdvances DEF Sessions!Step
    <2> QED
      BY <1>2, <2>1, <2>2, <2>3, StepShape
  <1> QED
    BY <1>1, <1>2, Invariance, PTL DEF Spec, KeepsPromise, Sessions!Promise

=============================================================================
