---------------------------- MODULE ClientSession -----------------------------
(***************************************************************************)
(* The mobile client's session (mobile/src/api/client.ts and               *)
(* mobile/src/store/auth.ts) against the server of SessionPromise, which   *)
(* RefreshTokens implements.                                               *)
(*                                                                         *)
(* JavaScript runs one turn at a time: an action is what happens between   *)
(* two awaits, with every continuation the settling of a promise wakes.    *)
(* Between turns the learner can sign out and in again, answers arrive in  *)
(* any order or not at all, and the app can be killed.  Each login is of   *)
(* an account of its own, so that mixing two of them up shows.  An access  *)
(* token is named by the refresh token it was issued with.                 *)
(***************************************************************************)
EXTENDS Naturals, FiniteSets

CONSTANTS
  Families,         (* Logins.                                               *)
  Tokens,           (* Token pairs (access, refresh).                        *)
  Calls,            (* Authenticated requests that can be pending at once.   *)
  None              (* Nothing stored, nothing asked, no answer yet.         *)

ASSUME NoneIsNothing == None \notin Families \cup Tokens \cup Calls
ASSUME FailuresAreNoTokens == {"rejected", "unreachable"} \cap (Tokens \cup {None}) = {}

VARIABLES
  \* The server
  opened, minted, current,
  familyOf,         (* The login a token was minted for.                     *)
  lapsed,           (* Access tokens past their expiry.                      *)
  gone,             (* Logins whose account has been deleted.                *)
  orphans,          (* Refresh tokens presented by an abandoned refresh that *)
                    (* may still reach the server.                           *)
  \* The device: encrypted storage and the auth store
  access, refresh, profile,
  \* client.ts
  reported,         (* expiredReported.                                      *)
  stage,            (* Where each call stands.                               *)
  kind,             (* "profile": reads or saves; "delete": deleteAccount.    *)
  issuer,           (* The login that made the call.                         *)
  cred,             (* The access token the call was last sent with.         *)
  joined,           (* The call whose refresh this call waits for.           *)
  asked,            (* The token presented by the refresh a call started.    *)
  answer,           (* How that refresh ended, once it has.                  *)
  lost              (* History: logins a refresh answer went missing for.    *)

server  == << opened, minted, current, familyOf, gone >>
device  == << access, refresh, profile >>
calls   == << stage, kind, issuer, cred, joined >>
flight  == << asked, answer >>
vars    == << server, lapsed, orphans, device, reported, calls, flight, lost >>

Server == INSTANCE SessionPromise

NewToken   == CHOOSE t \in Tokens : t \notin minted
TokenAsLogin == NewToken
NewFamily  == CHOOSE f \in Families : f \notin opened
TokenLeft  == minted # Tokens

\* Whose session the device holds.
Session == IF refresh = None THEN None ELSE familyOf[refresh]

\* AuthUser trusts the token; the handlers then miss the account if it is gone,
\* except delete_account, which is idempotent.
Accepts(c) ==
  /\ cred[c] # None /\ cred[c] \notin lapsed
  /\ familyOf[cred[c]] \notin gone \/ kind[c] = "delete"

(***************************************************************************)
(* auth.ts: the session on the device                                      *)
(***************************************************************************)

KeepProfile  == access' = None /\ refresh' = None /\ UNCHANGED profile
ClearSession == access' = None /\ refresh' = None /\ profile' = None

\* signIn, signUp, signInWithGoogle, signInWithApple: persistSession.
SignIn ==
  /\ refresh = None
  /\ TokenLeft /\ opened # Families
  /\ Server!Open(NewFamily, NewToken)
  /\ familyOf' = [familyOf EXCEPT ![NewToken] = NewFamily]
  /\ access' = NewToken /\ refresh' = NewToken /\ profile' = NewFamily
  /\ UNCHANGED << lapsed, gone, orphans, reported, calls, flight, lost >>

\* signOut: clearSession(true) tells the server without waiting for it; the
\* logout arrives as LoginEnds, or never.
SignOut ==
  /\ refresh # None
  /\ ClearSession
  /\ UNCHANGED << server, lapsed, orphans, reported, calls, flight, lost >>

\* The app is killed: the storage stays, the turns in progress are gone, and
\* what had been sent may still arrive.  The next launch restores the session.
Kill ==
  /\ \E c \in Calls : stage[c] # "idle"
  /\ stage'    = [c \in Calls |-> "idle"]
  /\ kind'     = [c \in Calls |-> "profile"]
  /\ issuer'   = [c \in Calls |-> None]
  /\ cred'     = [c \in Calls |-> None]
  /\ joined'   = [c \in Calls |-> None]
  /\ asked'    = [c \in Calls |-> None]
  /\ answer'   = [c \in Calls |-> None]
  /\ reported' = FALSE
  /\ orphans'  = orphans \cup {asked[c] : c \in {d \in Calls : asked[d] # None
                                                            /\ answer[d] = None}}
  /\ lost'     = lost \cup {familyOf[asked[c]] : c \in {d \in Calls : asked[d] # None}}
  /\ UNCHANGED << server, lapsed, device >>

(***************************************************************************)
(* runRequest: a call and its first answer                                 *)
(***************************************************************************)

Forget(c) ==
  /\ stage'  = [stage  EXCEPT ![c] = "idle"]
  /\ kind'   = [kind   EXCEPT ![c] = "profile"]
  /\ issuer' = [issuer EXCEPT ![c] = None]
  /\ cred'   = [cred   EXCEPT ![c] = None]
  /\ joined' = [joined EXCEPT ![c] = None]

\* doFetch with the stored access token: me, setName, setLanguage, setVoice,
\* setTimezone, or deleteAccount.
Call(c, k) ==
  /\ stage[c] = "idle"
  /\ refresh # None
  /\ stage'  = [stage  EXCEPT ![c] = "sent"]
  /\ kind'   = [kind   EXCEPT ![c] = k]
  /\ issuer' = [issuer EXCEPT ![c] = Session]
  /\ cred'   = [cred   EXCEPT ![c] = access]
  /\ UNCHANGED << server, lapsed, orphans, device, reported, joined, flight, lost >>

\* The server runs the call for the account of its token, or answers 401.
Serve(c) ==
  /\ stage[c] \in {"sent", "resent"}
  /\ \/ /\ Accepts(c)
        /\ stage' = [stage EXCEPT ![c] = "ok"]
        /\ IF kind[c] = "delete"
             THEN /\ gone' = gone \cup {familyOf[cred[c]]}
                  /\ Server!End({familyOf[cred[c]]})
             ELSE UNCHANGED << opened, minted, current, gone >>
     \/ /\ ~ Accepts(c)
        /\ stage' = [stage EXCEPT ![c] = IF @ = "sent" THEN "denied" ELSE "refused"]
        /\ UNCHANGED << opened, minted, current, gone >>
  /\ UNCHANGED << familyOf, lapsed, orphans, device, reported, kind, issuer, cred,
                  joined, flight, lost >>

\* The answer to a call is lost, or the 60 seconds of doFetch are over.
Lose(c) ==
  /\ stage[c] \in {"sent", "resent", "ok", "denied", "refused"}
  /\ Forget(c)
  /\ UNCHANGED << server, lapsed, orphans, device, reported, flight, lost >>

\* persistUser and set({user}) with the answer; clearSession after a deletion.
Deliver(c) ==
  /\ stage[c] = "ok"
  /\ IF kind[c] = "delete"
       THEN ClearSession
       ELSE profile' = familyOf[cred[c]] /\ UNCHANGED << access, refresh >>
  /\ Forget(c)
  /\ UNCHANGED << server, lapsed, orphans, reported, flight, lost >>

(***************************************************************************)
(* refreshAccessToken: one refresh at a time                               *)
(***************************************************************************)

Refreshing(c) == asked[c] # None

NoFlightCheck == {}
InFlight      == {c \in Calls : Refreshing(c)}

\* The 401 finds a refresh in flight and waits for it...
Join(c) ==
  /\ stage[c] = "denied"
  /\ \E d \in InFlight :
       /\ stage'  = [stage  EXCEPT ![c] = "waiting"]
       /\ joined' = [joined EXCEPT ![c] = d]
  /\ UNCHANGED << server, lapsed, orphans, device, reported, kind, issuer, cred,
                  flight, lost >>

\* ... or starts one with the token that is stored by now...
StartRefresh(c) ==
  /\ stage[c] = "denied"
  /\ InFlight = {}
  /\ refresh # None
  /\ asked'    = [asked  EXCEPT ![c] = refresh]
  /\ stage'    = [stage  EXCEPT ![c] = "waiting"]
  /\ joined'   = [joined EXCEPT ![c] = c]
  /\ reported' = FALSE
  /\ UNCHANGED << server, lapsed, orphans, device, kind, issuer, cred, answer, lost >>

\* ... or, with none stored, is dead at once: clearSession has nothing to clear.
DeadAtOnce(c) ==
  /\ stage[c] = "denied"
  /\ InFlight = {}
  /\ refresh = None
  /\ reported' = TRUE
  /\ ClearSession
  /\ Forget(c)
  /\ UNCHANGED << server, lapsed, orphans, flight, lost >>

\* The server side of POST /auth/refresh: the current token is rotated into n;
\* any other token of a session ends it.
Rotate(t, n) ==
  /\ current[familyOf[t]] = t
  /\ n \notin minted
  /\ Server!Advance(familyOf[t], n)
  /\ familyOf' = [familyOf EXCEPT ![n] = familyOf[t]]

Reject(t) ==
  /\ current[familyOf[t]] # t
  /\ Server!End({familyOf[t]})
  /\ UNCHANGED familyOf

ServeRefresh(c) ==
  /\ Refreshing(c) /\ answer[c] = None
  /\ \/ TokenLeft /\ Rotate(asked[c], NewToken)
          /\ answer' = [answer EXCEPT ![c] = NewToken]
     \/ Reject(asked[c]) /\ answer' = [answer EXCEPT ![c] = "rejected"]
  /\ UNCHANGED << lapsed, gone, orphans, device, reported, calls, asked, lost >>

\* A rate limit, a 5xx, no answer in 60 seconds: "unreachable".
\* The server may have rotated the token, or may yet do so.
FailRefresh(c) ==
  /\ Refreshing(c) /\ answer[c] # "unreachable"
  /\ answer' = [answer EXCEPT ![c] = "unreachable"]
  /\ \/ /\ answer[c] = None
        /\ UNCHANGED << orphans, lost >>
     \/ /\ orphans' = IF answer[c] = None THEN orphans \cup {asked[c]} ELSE orphans
        /\ lost' = lost \cup {familyOf[asked[c]]}
  /\ UNCHANGED << server, lapsed, device, reported, calls, asked >>

(***************************************************************************)
(* The turn in which a refresh settles                                     *)
(***************************************************************************)

Always(t)          == TRUE
StillCurrent(t)    == refresh = t

OwnWaiter(c)       == {c}
Waiters(c)         == {d \in Calls : stage[d] = "waiting" /\ joined[d] = c}

AnyFailure(c)      == answer[c] \in {"rejected", "unreachable"}
Dead(c)            == answer[c] = "rejected"

Refreshed(c)       == answer[c] \in Tokens /\ StillCurrent(asked[c])
Unreachable(c)     == ~ Dead(c) /\ ~ Refreshed(c)

Land(c) ==
  /\ asked'  = [asked  EXCEPT ![c] = None]
  /\ answer' = [answer EXCEPT ![c] = None]

\* The calls that waited for c's refresh get an error and are over.
EndWaiters(c) ==
  /\ stage'  = [d \in Calls |-> IF d \in Waiters(c) THEN "idle" ELSE stage[d]]
  /\ kind'   = [d \in Calls |-> IF d \in Waiters(c) THEN "profile" ELSE kind[d]]
  /\ issuer' = [d \in Calls |-> IF d \in Waiters(c) THEN None ELSE issuer[d]]
  /\ cred'   = [d \in Calls |-> IF d \in Waiters(c) THEN None ELSE cred[d]]
  /\ joined' = [d \in Calls |-> IF d \in Waiters(c) THEN None ELSE joined[d]]

\* reportSessionExpired: its handler clears the session once per refresh.  The
\* 401 thrown all the same makes restore clear it again, and QueryCache.onError
\* sign out (its logout is a LoginEnds); the other callers only show the error.
Report(failed) ==
  /\ reported' = TRUE
  /\ \/ ClearSession /\ (reported => \E d \in failed : kind[d] = "profile")
     \/ reported /\ UNCHANGED device

\* "refreshed": the pair is stored and every waiting call sent again with it.
SettleRefreshed(c) ==
  /\ Refreshing(c) /\ answer[c] # None /\ Refreshed(c)
  /\ access' = answer[c] /\ refresh' = answer[c]
  /\ stage'  = [d \in Calls |-> IF d \in Waiters(c) THEN "resent" ELSE stage[d]]
  /\ cred'   = [d \in Calls |-> IF d \in Waiters(c) THEN answer[c] ELSE cred[d]]
  /\ joined' = [d \in Calls |-> IF d \in Waiters(c) THEN None ELSE joined[d]]
  /\ Land(c)
  /\ UNCHANGED << server, lapsed, orphans, profile, reported, kind, issuer, lost >>

\* "dead": the session is reported expired.
SettleDead(c) ==
  /\ Refreshing(c) /\ answer[c] # None /\ Dead(c)
  /\ Report(Waiters(c))
  /\ EndWaiters(c)
  /\ Land(c)
  /\ UNCHANGED << server, lapsed, orphans, lost >>

\* "unreachable", or a refresh of a session that is not the stored one.
SettleUnreachable(c) ==
  /\ Refreshing(c) /\ answer[c] # None /\ Unreachable(c)
  /\ EndWaiters(c)
  /\ Land(c)
  /\ lost' = IF answer[c] \in Tokens THEN lost \cup {familyOf[asked[c]]} ELSE lost
  /\ UNCHANGED << server, lapsed, orphans, device, reported >>

\* A fresh access token, and still 401: "the account itself is gone".
StillRefused(c) ==
  /\ stage[c] = "refused"
  /\ Report({c})
  /\ Forget(c)
  /\ UNCHANGED << server, lapsed, orphans, flight, lost >>

(***************************************************************************)
(* What arrives late, and time                                             *)
(***************************************************************************)

\* A refresh nobody waits for any more reaches the server; or never does.
OrphanArrives(t) ==
  /\ t \in orphans
  /\ orphans' = orphans \ {t}
  /\ \/ TokenLeft /\ Rotate(t, NewToken)
     \/ Reject(t)
     \/ UNCHANGED << opened, minted, current, familyOf >>
  /\ UNCHANGED << gone, lapsed, device, reported, calls, flight, lost >>

\* An access token the device may still send expires; not while the answer
\* that brings it, or the call sent again with it, is pending (60 seconds each,
\* of the 15 minutes it lives).
AccessLapses(t) ==
  /\ t \notin lapsed
  /\ t = access \/ \E c \in Calls : cred[c] = t
  /\ \A c \in Calls : answer[c] # t /\ (stage[c] = "resent" => cred[c] # t)
  /\ lapsed' = lapsed \cup {t}
  /\ UNCHANGED << server, orphans, device, reported, calls, flight, lost >>

\* The refresh token of a login is past its 30 days, or the logout that
\* signOut sent arrives at the server.
LoginEnds(f) ==
  /\ f \in opened
  /\ current[f] # None
  /\ Server!End({f})
  /\ UNCHANGED << familyOf, gone, lapsed, orphans, device, reported, calls, flight, lost >>

(***************************************************************************)
(* The specification                                                       *)
(***************************************************************************)

Init ==
  /\ Server!Start
  /\ familyOf = [t \in Tokens |-> None]
  /\ lapsed = {} /\ gone = {} /\ orphans = {} /\ lost = {}
  /\ access = None /\ refresh = None /\ profile = None
  /\ reported = FALSE
  /\ stage  = [c \in Calls |-> "idle"]
  /\ kind   = [c \in Calls |-> "profile"]
  /\ issuer = [c \in Calls |-> None]
  /\ cred   = [c \in Calls |-> None]
  /\ joined = [c \in Calls |-> None]
  /\ asked  = [c \in Calls |-> None]
  /\ answer = [c \in Calls |-> None]

\* What goes on with a call once it is made.
Progress(c) ==
  \/ Serve(c) \/ Lose(c) \/ Deliver(c)
  \/ Join(c) \/ StartRefresh(c) \/ DeadAtOnce(c) \/ StillRefused(c)

RefreshProgress(c) ==
  \/ ServeRefresh(c) \/ FailRefresh(c)
  \/ SettleRefreshed(c) \/ SettleDead(c) \/ SettleUnreachable(c)

Next ==
  \/ SignIn \/ SignOut \/ Kill
  \/ \E c \in Calls :
       (\E k \in {"profile", "delete"} : Call(c, k)) \/ Progress(c) \/ RefreshProgress(c)
  \/ \E t \in Tokens : OrphanArrives(t) \/ AccessLapses(t)
  \/ \E f \in Families : LoginEnds(f)

Spec == Init /\ [][Next]_vars

\* The event loop runs every turn that is due, and doFetch gives up after 60
\* seconds: a call and a refresh always get some answer.
FairSpec ==
  Spec /\ \A c \in Calls : WF_vars(Progress(c)) /\ WF_vars(RefreshProgress(c))

(***************************************************************************)
(* Properties                                                              *)
(***************************************************************************)

TypeOK ==
  /\ opened \subseteq Families /\ minted \subseteq Tokens
  /\ current \in [Families -> Tokens \cup {None}]
  /\ familyOf \in [Tokens -> Families \cup {None}]
  /\ lapsed \subseteq Tokens /\ gone \subseteq Families
  /\ orphans \subseteq Tokens /\ lost \subseteq Families
  /\ access \in Tokens \cup {None} /\ refresh \in Tokens \cup {None}
  /\ profile \in Families \cup {None}
  /\ reported \in BOOLEAN
  /\ stage \in [Calls -> {"idle", "sent", "ok", "denied", "waiting", "resent", "refused"}]
  /\ kind \in [Calls -> {"profile", "delete"}]
  /\ issuer \in [Calls -> Families \cup {None}]
  /\ cred \in [Calls -> Tokens \cup {None}]
  /\ joined \in [Calls -> Calls \cup {None}]
  /\ asked \in [Calls -> Tokens \cup {None}]
  /\ answer \in [Calls -> Tokens \cup {None, "rejected", "unreachable"}]

\* A call or a refresh has outlived the session that started it.
Strays ==
  \/ \E c \in Calls : stage[c] # "idle" /\ issuer[c] # Session
  \/ \E c \in InFlight : familyOf[asked[c]] # Session

\* Only a sign-in puts a session on the device: no late answer brings back one
\* that was signed out, or replaces the one signed in since (the zombie guard).
OnlySignInStartsSession ==
  [][refresh' # None /\ (refresh = None \/ familyOf'[refresh'] # Session)
       => opened' # opened]_vars

\* The client never presents a token it has rotated already, so it never has
\* its own login revoked for reuse; unless an answer of the server went
\* missing, which single-use rotation cannot survive.
NeverReusesToken ==
  \A c \in Calls :
    Refreshing(c) /\ answer[c] = None /\ familyOf[asked[c]] \notin lost
      => current[familyOf[asked[c]]] \in {asked[c], None}

\* A session is only reported expired when the server has ended it, rotated
\* its token without the client learning the new one, or deleted the account;
\* a call that outlived an earlier session is the one exception.
OnlyDeadSessionsExpire ==
  [][\A c \in Calls :
       (SettleDead(c) \/ StillRefused(c)) /\ refresh # None /\ refresh' = None
         => Strays \/ current[Session] # refresh]_vars

\* The profile on the device is the session's own; only the answer to a call
\* that outlived its session can break that.
ProfileMatches == profile \in {None, Session}

ProfileFollowsSession == [][ProfileMatches => ProfileMatches' \/ Strays]_vars

\* client.ts: a refresh rotates the token of the session that made the call, where "a
\* stale request could rotate the *new* account's refresh token": a late 401 of the
\* old account must not spend the token of the one signed in since.
StaleCallNeverRotates ==
  [][\A c \in Calls : StartRefresh(c) => issuer[c] = Session]_vars

\* Every call comes to an end, and no refresh holds up the ones after it.
EveryCallEnds == \A c \in Calls : stage[c] # "idle" ~> stage[c] = "idle"
=============================================================================
