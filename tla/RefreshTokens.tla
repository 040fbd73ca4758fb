---------------------------- MODULE RefreshTokens -----------------------------
(***************************************************************************)
(* The refresh-token table of the backend (repositories/refresh_tokens.rs) *)
(* and the handlers that work on it (api/auth.rs), interleaved at the      *)
(* grain PostgreSQL gives them: a unit of work without a transaction is    *)
(* one statement, a transaction holds its row locks to its end, and every  *)
(* statement reads what is committed when it starts (READ COMMITTED).  An  *)
(* UPDATE chooses its rows from that snapshot, waits for those another     *)
(* transaction has locked, and tests its WHERE again on what it finds      *)
(* then; a row inserted meanwhile is never looked at.                      *)
(***************************************************************************)
EXTENDS Naturals, FiniteSets, Relation

CONSTANTS
  Users,            (* Accounts (users.id, never used twice).                *)
  Families,         (* Login sessions (Uuid::new_v4 at each login).          *)
  Tokens,           (* Refresh tokens, known by their hash.                  *)
  Requests,         (* Handlers that can be running at the same time.        *)
  None              (* SQL NULL, an unlocked row, "no value".                *)

ASSUME NoneIsNobody ==
  None \notin Users \cup Families \cup Tokens \cup Requests

VARIABLES
  account,          (* users: "none" before, "open" while, "gone" after.     *)
  status,           (* refresh_tokens.revoked_at and whether the row exists. *)
  owner,            (* refresh_tokens.user_id.                               *)
  family,           (* refresh_tokens.family_id.                             *)
  expired,          (* The tokens whose expires_at has passed.               *)
  rowLock,          (* The request that locked the row of a token.           *)
  userLock,         (* The request that is deleting the row of a user.       *)
  pc,               (* Where each request stands.                            *)
  token,            (* The token the request presented.                      *)
  user,             (* The account the request works on.                     *)
  snapshot          (* The rows an UPDATE chose and has yet to write.        *)

table == << account, status, owner, family, expired >>
locks == << rowLock, userLock >>
input == << token, user >>
vars  == << table, locks, pc, input, snapshot >>

(***************************************************************************)
(* Reading the table                                                       *)
(***************************************************************************)

Present(t)   == status[t] \in {"live", "revoked"}
Minted       == {t \in Tokens : status[t] # "unborn"}
LiveIn(f)    == {t \in Tokens : status[t] = "live" /\ family[t] = f}
RowsOf(u)    == {t \in Tokens : Present(t) /\ owner[t] = u}
UsedFamily(f) == \E t \in Minted : family[t] = f

\* The row may be locked or written by r: nobody else holds it.
Grabs(r, t) == rowLock[t] \in {None, r}

\* generate_token and Uuid::new_v4: a token and a family nobody has had.
NewToken == CHOOSE t \in Tokens : t \notin Minted

OneFamily     == CHOOSE f \in Families : TRUE
NewFamily     == CHOOSE f \in Families : ~ UsedFamily(f)

TokenLeft  == Minted # Tokens
FamilyLeft == \E f \in Families : ~ UsedFamily(f)

\* INSERT INTO refresh_tokens: the columns of a new row that never change.
Insert(t, u, f) ==
  /\ owner'  = [owner  EXCEPT ![t] = u]
  /\ family' = [family EXCEPT ![t] = f]

Transition(r, from, to) ==
  /\ pc[r] = from
  /\ pc' = [pc EXCEPT ![r] = to]

\* The handler answers: its transaction, if any, is over and its locks go.
Finish(r) ==
  /\ pc'       = [pc       EXCEPT ![r] = "idle"]
  /\ token'    = [token    EXCEPT ![r] = None]
  /\ user'     = [user     EXCEPT ![r] = None]
  /\ snapshot' = [snapshot EXCEPT ![r] = {}]
  /\ rowLock'  = [t \in Tokens |-> IF rowLock[t] = r THEN None ELSE rowLock[t]]
  /\ userLock' = [u \in Users |-> IF userLock[u] = r THEN None ELSE userLock[u]]

(***************************************************************************)
(* Logging in: POST /auth/register, /login, /google, /apple                *)
(***************************************************************************)

\* register, and a first Google or Apple sign-in: the account and its first
\* token in one transaction.  The UNIQUE email leaves one winner.
Register(r, u) ==
  /\ pc[r] = "idle"
  /\ account[u] = "none"
  /\ TokenLeft /\ FamilyLeft
  /\ account' = [account EXCEPT ![u] = "open"]
  /\ status'  = [status EXCEPT ![NewToken] = "live"]
  /\ Insert(NewToken, u, NewFamily)
  /\ UNCHANGED << expired, locks, pc, input, snapshot >>

\* login, and a returning Google or Apple sign-in: the account is read in one
\* unit of work...
LoginFind(r, u) ==
  /\ Transition(r, "idle", "issue")
  /\ account[u] = "open"
  /\ user' = [user EXCEPT ![r] = u]
  /\ UNCHANGED << table, locks, token, snapshot >>

ReferencesNothing(u) == TRUE
AccountExists(u)     == account[u] = "open"

\* ... and the token is inserted in another: the foreign key waits for a
\* deletion in progress and refuses a token of a deleted account.
Issue(r) ==
  /\ pc[r] = "issue"
  /\ userLock[user[r]] = None
  /\ AccountExists(user[r])
  /\ TokenLeft /\ FamilyLeft
  /\ status' = [status EXCEPT ![NewToken] = "live"]
  /\ Insert(NewToken, user[r], NewFamily)
  /\ Finish(r)
  /\ UNCHANGED << account, expired >>

IssueRefused(r) ==
  /\ pc[r] = "issue"
  /\ userLock[user[r]] = None
  /\ ~ AccountExists(user[r])
  /\ Finish(r)
  /\ UNCHANGED table

(***************************************************************************)
(* POST /auth/refresh                                                      *)
(***************************************************************************)

\* prune_expired: one DELETE, which waits for the rows it wants, or fails.
\* With the default 30-day expiry a row revoked 90 days ago is expired.
PruneRows == {t \in expired : Present(t)}

RefreshPrune(r, t) ==
  /\ Transition(r, "idle", "rotate")
  /\ t \in Minted
  /\ token' = [token EXCEPT ![r] = t]
  /\ \/ /\ \A x \in PruneRows : Grabs(r, x)
        /\ status' = [x \in Tokens |->
                        IF x \in PruneRows THEN "deleted" ELSE status[x]]
     \/ UNCHANGED status
  /\ UNCHANGED << account, owner, family, expired, locks, user, snapshot >>

\* rotate_on_conn: SELECT ... FOR UPDATE of the presented row, and what the
\* transaction goes on to when the row is there: the reuse branch for a
\* revoked token, a rotation for a live one that has not expired.
PlainSelect(r, t) == TRUE
ForUpdate(r, t)   == Grabs(r, t)

RevokedUnnoticed(t) == FALSE
IsRevoked(t)        == status[t] = "revoked"

RotateLock(r) ==
  /\ pc[r] = "rotate"
  /\ Present(token[r])
  /\ ForUpdate(r, token[r])
  /\ IsRevoked(token[r]) \/ token[r] \notin expired
  /\ pc' = [pc EXCEPT ![r] = IF IsRevoked(token[r]) THEN "reuse" ELSE "mint"]
  /\ rowLock' = [rowLock EXCEPT ![token[r]] = r]
  /\ UNCHANGED << table, userLock, input, snapshot >>

\* A token without a row is waited for instead of refused.
AwaitsUnknown(r) ==
  /\ pc[r] = "rotate" /\ Present(token[r])
  /\ ForUpdate(r, token[r]) /\ ~ IsRevoked(token[r]) /\ token[r] \in expired
  /\ Finish(r)
  /\ UNCHANGED table

\* RotateOutcome::Unknown and RotateOutcome::Expired: a 401, nothing written.
RotateRefused(r) ==
  /\ pc[r] = "rotate"
  /\ \/ ~ Present(token[r])
     \/ ForUpdate(r, token[r]) /\ ~ IsRevoked(token[r]) /\ token[r] \in expired
  /\ Finish(r)
  /\ UNCHANGED table

\* The presented row is revoked, its successor inserted and the transaction
\* committed.  The insert waits for a deletion of the account; that the
\* account is still there then is not assumed, it follows (RowsOK
\* in RefreshTokensProofs).
RotateMint(r) ==
  /\ pc[r] = "mint"
  /\ userLock[owner[token[r]]] = None
  /\ TokenLeft
  /\ status' = [status EXCEPT ![token[r]] = "revoked", ![NewToken] = "live"]
  /\ Insert(NewToken, owner[token[r]], family[token[r]])
  /\ Finish(r)
  /\ UNCHANGED << account, expired >>

(***************************************************************************)
(* Revoking a family: POST /auth/logout, and the reuse branch of rotate    *)
(***************************************************************************)

\* logout: find_by_hash in a unit of work of its own; an unknown token is
\* already logged out.
LogoutFind(r, t) ==
  /\ Transition(r, "idle", "logout")
  /\ Present(t)
  /\ token' = [token EXCEPT ![r] = t]
  /\ UNCHANGED << table, locks, user, snapshot >>

\* UPDATE refresh_tokens SET revoked_at = now
\* WHERE family_id = .. AND revoked_at IS NULL: the rows it will write...
PresentedRow(r) == {t \in {token[r]} : status[t] = "live"}
ChosenRows(r)   == LiveIn(family[token[r]])

RevokeStart(r, from, to) ==
  /\ Transition(r, from, to)
  /\ snapshot' = [snapshot EXCEPT ![r] = ChosenRows(r)]
  /\ UNCHANGED << table, locks, input >>

\* ... and what it writes when it holds them all: those still live.
RevokedRows(r) == {t \in snapshot[r] : status[t] = "live"}

RevokeEnd(r, from) ==
  /\ pc[r] = from
  /\ \A t \in snapshot[r] : Grabs(r, t)
  /\ status' = [t \in Tokens |->
                  IF t \in RevokedRows(r) THEN "revoked" ELSE status[t]]
  /\ Finish(r)
  /\ UNCHANGED << account, owner, family, expired >>

LogoutStart(r) == RevokeStart(r, "logout", "revoking")
LogoutEnd(r)   == RevokeEnd(r, "revoking")
ReuseStart(r)  == RevokeStart(r, "reuse", "punishing")
ReuseEnd(r)    == RevokeEnd(r, "punishing")

(***************************************************************************)
(* DELETE /auth/me                                                         *)
(***************************************************************************)

\* delete_by_id: DELETE FROM users takes the user's row...
DeleteStart(r, u) ==
  /\ Transition(r, "idle", "cascade")
  /\ account[u] = "open"
  /\ userLock[u] = None
  /\ userLock' = [userLock EXCEPT ![u] = r]
  /\ user' = [user EXCEPT ![r] = u]
  /\ UNCHANGED << table, rowLock, token, snapshot >>

\* ... and ON DELETE CASCADE then takes the user's tokens, waiting for those
\* that are locked.
DeleteEnd(r) ==
  /\ pc[r] = "cascade"
  /\ \A t \in RowsOf(user[r]) : Grabs(r, t)
  /\ account' = [account EXCEPT ![user[r]] = "gone"]
  /\ status'  = [t \in Tokens |->
                   IF t \in RowsOf(user[r]) THEN "deleted" ELSE status[t]]
  /\ Finish(r)
  /\ UNCHANGED << owner, family, expired >>

(***************************************************************************)
(* Time, failures and deadlocks                                            *)
(***************************************************************************)

\* A token passes its expires_at, after the tokens it was rotated from: they
\* are minted earlier and live equally long.
Expire(t) ==
  /\ Present(t)
  /\ t \notin expired
  /\ status[t] = "live" => \A x \in Tokens : IsRevoked(x) /\ family[x] = family[t]
                                                => x \in expired
  /\ expired' = expired \cup {t}
  /\ UNCHANGED << account, status, owner, family, locks, pc, input, snapshot >>

\* A statement fails, the server stops, or TimeoutLayer drops a handler that
\* stands between two units of work: an open transaction is rolled back.
Abort(r) ==
  /\ pc[r] # "idle"
  /\ Finish(r)
  /\ UNCHANGED table

\* The bound on logins and rotations: without a family or a token left in the
\* constants, a request that needs one is refused.
BeyondBound(r) ==
  /\ \/ pc[r] \in {"issue", "mint"} /\ ~ TokenLeft
     \/ pc[r] = "issue" /\ ~ FamilyLeft
  /\ Finish(r)
  /\ UNCHANGED table

\* r waits for a lock s holds.
WaitsFor(r, s) ==
  \/ pc[r] \in {"issue", "mint"}
       /\ userLock[IF pc[r] = "issue" THEN user[r] ELSE owner[token[r]]] = s
  \/ pc[r] = "rotate" /\ rowLock[token[r]] = s
  \/ pc[r] \in {"revoking", "punishing"} /\ \E t \in snapshot[r] : rowLock[t] = s
  \/ pc[r] = "cascade" /\ \E t \in RowsOf(user[r]) : rowLock[t] = s

InDeadlock(r) ==
  LET waits == [p \in Requests \X Requests |->
                  p[1] # p[2] /\ WaitsFor(p[1], p[2])]
  IN  TransitiveClosure(waits, Requests)[r, r]

\* After deadlock_timeout PostgreSQL fails one of the requests in a cycle.
DeadlockVictim(r) == InDeadlock(r) /\ Abort(r)

(***************************************************************************)
(* The specification                                                       *)
(***************************************************************************)

Init ==
  /\ account  = [u \in Users |-> "none"]
  /\ status   = [t \in Tokens |-> "unborn"]
  /\ owner    = [t \in Tokens |-> None]
  /\ family   = [t \in Tokens |-> None]
  /\ expired  = {}
  /\ rowLock  = [t \in Tokens |-> None]
  /\ userLock = [u \in Users |-> None]
  /\ pc       = [r \in Requests |-> "idle"]
  /\ token    = [r \in Requests |-> None]
  /\ user     = [r \in Requests |-> None]
  /\ snapshot = [r \in Requests |-> {}]

\* A client sends a request.
Arrive(r) ==
  \/ \E u \in Users : Register(r, u) \/ LoginFind(r, u) \/ DeleteStart(r, u)
  \/ \E t \in Tokens : RefreshPrune(r, t) \/ LogoutFind(r, t)

\* The handler of a request takes its next step.
Handle(r) ==
  \/ Issue(r) \/ IssueRefused(r)
  \/ RotateLock(r) \/ RotateRefused(r) \/ RotateMint(r)
  \/ LogoutStart(r) \/ LogoutEnd(r)
  \/ ReuseStart(r) \/ ReuseEnd(r)
  \/ DeleteEnd(r)
  \/ BeyondBound(r)

Next ==
  \/ \E r \in Requests : Arrive(r) \/ Handle(r) \/ Abort(r) \/ DeadlockVictim(r)
  \/ \E t \in Tokens : Expire(t)

Spec == Init /\ [][Next]_vars

\* PostgreSQL queues the waiters of a lock, so whoever can get it again and
\* again does get it, and it breaks every deadlock.
Fairness ==
  \A r \in Requests : SF_vars(Handle(r)) /\ WF_vars(DeadlockVictim(r))

FairSpec == Spec /\ Fairness

(***************************************************************************)
(* Properties                                                              *)
(***************************************************************************)

Stages == {"idle", "issue", "rotate", "mint", "reuse", "punishing",
           "logout", "revoking", "cascade"}

\* Every variable has the values its column, lock or local variable can have.
TypeOK ==
  /\ account  \in [Users -> {"none", "open", "gone"}]
  /\ status   \in [Tokens -> {"unborn", "live", "revoked", "deleted"}]
  /\ owner    \in [Tokens -> Users \cup {None}]
  /\ family   \in [Tokens -> Families \cup {None}]
  /\ expired  \in SUBSET Tokens
  /\ rowLock  \in [Tokens -> Requests \cup {None}]
  /\ userLock \in [Users -> Requests \cup {None}]
  /\ pc       \in [Requests -> Stages]
  /\ token    \in [Requests -> Tokens \cup {None}]
  /\ user     \in [Requests -> Users \cup {None}]
  /\ snapshot \in [Requests -> SUBSET Tokens]

\* Whatever refreshes, logouts and clean-ups overlap, a login never has two
\* tokens that can be refreshed: a rotation is single-use.
OneLiveToken ==
  \A t, x \in Tokens :
    status[t] = "live" /\ status[x] = "live" /\ family[t] = family[x] => t = x

\* Once a login has no live token (logged out, reused, cleaned up, deleted)
\* no refresh that was already on its way brings it back.
Ended(f) == UsedFamily(f) /\ LiveIn(f) = {}

EndedStaysEnded == [][\A f \in Families : Ended(f) => Ended(f)']_vars

\* A deleted account has no refresh token and never gets one again, whatever
\* login or refresh was under way when it was deleted.
DeletedHasNoTokens ==
  \A u \in Users : account[u] = "gone" => RowsOf(u) = {}

\* A logout leaves a live token behind in one case only: every row its UPDATE
\* had chosen was rotated or removed while the UPDATE waited for it.
LogoutMissesOnlyRotated ==
  [][\A r \in Requests, f \in Families :
       /\ LogoutEnd(r) /\ family[token[r]] = f
       /\ snapshot[r] = {} \/ RevokedRows(r) # {}
       => Ended(f)']_vars

\* Every request is answered, even when a refresh and a deletion of the same
\* account wait for each other's rows.
EveryRequestAnswered == \A r \in Requests : pc[r] # "idle" ~> pc[r] = "idle"

\* The abstract specification this module implements.
Sessions ==
  INSTANCE SessionPromise WITH
    opened  <- {f \in Families : UsedFamily(f)},
    minted  <- Minted,
    current <- [f \in Families |->
                  IF LiveIn(f) = {} THEN None ELSE CHOOSE t \in LiveIn(f) : TRUE]

KeepsPromise == Sessions!Promise

\* "Revokes every live token of a family (logout): all sessions minted from
\* that login die together" (repositories/refresh_tokens.rs).
LogoutEndsFamily ==
  [][\A r \in Requests, f \in Families :
       LogoutEnd(r) /\ family[token[r]] = f => Ended(f)']_vars
=============================================================================
