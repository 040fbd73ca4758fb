--------------------------- MODULE ClientSessionProofs --------------------------
(***************************************************************************)
(* What holds of ClientSession for every set of logins, tokens and calls.  *)
(***************************************************************************)
EXTENDS ClientSession, TLAPS

(***************************************************************************)
(* The inductive invariant                                                 *)
(***************************************************************************)

\* The server's tokens each belong to a login that was opened.
MintOK == \A t \in minted : familyOf[t] \in opened
CurrentOK ==
  \A f \in Families : current[f] # None => current[f] \in minted /\ familyOf[current[f]] = f

HeldOK == access = refresh /\ (refresh # None => refresh \in minted)

\* One refresh at a time, answered with a token of the login it was asked for.
SingleFlight == \A c, d \in Calls : asked[c] # None /\ asked[d] # None => c = d
FlightOK ==
  \A c \in Calls :
    /\ asked[c] # None => asked[c] \in minted
    /\ answer[c] # None => asked[c] # None
    /\ answer[c] \in Tokens => answer[c] \in minted /\ familyOf[answer[c]] = familyOf[asked[c]]

\* A call carries a token of the login that made it, or has outlived that session.
CallsOK ==
  \A c \in Calls :
    /\ cred[c] # None => cred[c] \in minted
    /\ stage[c] # "idle" => /\ cred[c] # None /\ issuer[c] \in opened
                            /\ familyOf[cred[c]] = issuer[c] \/ issuer[c] # Session

\* A token that may still be presented behind the device's back counts as lost.
OrphansOK == \A t \in orphans : t \in minted /\ familyOf[t] \in lost

\* The stored token is the current one, or the answer that replaces it has come.
HeldIsCurrent ==
  refresh # None /\ familyOf[refresh] \notin lost =>
    \/ current[familyOf[refresh]] \in {refresh, None}
    \/ \E c \in Calls : asked[c] = refresh /\ answer[c] \in Tokens

AskedIsHeld ==
  \A c \in Calls : asked[c] # None /\ refresh # None /\ familyOf[asked[c]] = familyOf[refresh]
                     => asked[c] = refresh

AnswerIsCurrent ==
  \A c \in Calls : answer[c] \in Tokens /\ familyOf[asked[c]] \notin lost
                     => current[familyOf[asked[c]]] \in {answer[c], None}

Owned == MintOK /\ CurrentOK /\ HeldOK /\ CallsOK /\ OrphansOK
Flown == SingleFlight /\ FlightOK /\ HeldIsCurrent /\ AskedIsHeld /\ AnswerIsCurrent
           /\ NeverReusesToken

IInv == TypeOK /\ Owned /\ Flown

(***************************************************************************)
(* Types                                                                   *)
(***************************************************************************)

LEMMA FreshToken ==
  ASSUME TypeOK, TokenLeft
  PROVE  NewToken \in Tokens \ minted
PROOF
  BY DEF TypeOK, TokenLeft, NewToken

LEMMA FreshFamily ==
  ASSUME TypeOK, opened # Families
  PROVE  NewFamily \in Families \ opened
PROOF
  BY DEF TypeOK, NewFamily

LEMMA RotateType ==
  ASSUME TypeOK, MintOK, TokenLeft, NEW t \in minted, Rotate(t, NewToken)
  PROVE  /\ opened' = opened /\ minted' \subseteq Tokens
         /\ current' \in [Families -> Tokens \cup {None}]
         /\ familyOf' \in [Tokens -> Families \cup {None}]
PROOF
  <1>1. PICK n \in Tokens : n = NewToken
    BY FreshToken
  <1>2. familyOf[t] \in Families
    BY DEF MintOK, TypeOK
  <1>3. /\ opened' = opened /\ minted' = minted \cup {n}
        /\ current' = [current EXCEPT ![familyOf[t]] = n]
        /\ familyOf' = [familyOf EXCEPT ![n] = familyOf[t]]
    BY <1>1 DEF Rotate, Server!Advance
  <1> QED
    BY <1>2, <1>3 DEF TypeOK

LEMMA EndType ==
  ASSUME TypeOK, NEW F, Server!End(F)
  PROVE  /\ opened' = opened /\ minted' = minted
         /\ current' \in [Families -> Tokens \cup {None}]
         /\ \A f \in Families : current'[f] \in {current[f], None}
PROOF
  BY DEF TypeOK, Server!End

\* A call that is over leaves nothing behind.
LEMMA ForgetType ==
  ASSUME TypeOK, NEW c \in Calls, Forget(c)
  PROVE  /\ stage' \in [Calls -> {"idle", "sent", "ok", "denied", "waiting", "resent", "refused"}]
         /\ kind' \in [Calls -> {"profile", "delete"}]
         /\ issuer' \in [Calls -> Families \cup {None}]
         /\ cred' \in [Calls -> Tokens \cup {None}]
         /\ joined' \in [Calls -> Calls \cup {None}]
         /\ \A d \in Calls : \/ stage'[d] = stage[d] /\ cred'[d] = cred[d] /\ issuer'[d] = issuer[d]
                             \/ stage'[d] = "idle" /\ cred'[d] = None
PROOF
  BY DEF TypeOK, Forget

LEMMA EndWaitersType ==
  ASSUME TypeOK, NEW c \in Calls, EndWaiters(c)
  PROVE  /\ stage' \in [Calls -> {"idle", "sent", "ok", "denied", "waiting", "resent", "refused"}]
         /\ kind' \in [Calls -> {"profile", "delete"}]
         /\ issuer' \in [Calls -> Families \cup {None}]
         /\ cred' \in [Calls -> Tokens \cup {None}]
         /\ joined' \in [Calls -> Calls \cup {None}]
         /\ \A d \in Calls : \/ stage'[d] = stage[d] /\ cred'[d] = cred[d] /\ issuer'[d] = issuer[d]
                             \/ stage'[d] = "idle" /\ cred'[d] = None
PROOF
  <1>1. PICK W : W = Waiters(c)
    OBVIOUS
  <1> QED
    BY <1>1 DEF TypeOK, EndWaiters

LEMMA LandType ==
  ASSUME TypeOK, NEW c \in Calls, Land(c)
  PROVE  /\ asked' \in [Calls -> Tokens \cup {None}]
         /\ answer' \in [Calls -> Tokens \cup {None, "rejected", "unreachable"}]
         /\ asked'[c] = None /\ answer'[c] = None
         /\ \A d \in Calls \ {c} : asked'[d] = asked[d] /\ answer'[d] = answer[d]
PROOF
  BY DEF TypeOK, Land

(***************************************************************************)
(* Steps that start and end no session and touch no refresh                *)
(***************************************************************************)

DeviceType ==
  /\ access \in Tokens \cup {None} /\ refresh \in Tokens \cup {None}
  /\ profile \in Families \cup {None}

\* A call goes on as it is, or is over.
CallsGoOn ==
  \A c \in Calls :
    \/ /\ cred'[c] = cred[c] /\ issuer'[c] = issuer[c]
       /\ stage'[c] # "idle" => stage[c] # "idle"
    \/ stage'[c] = "idle" /\ cred'[c] = None

SameSession == access' = access /\ refresh' = refresh
NoSession   == access' = None /\ refresh' = None

CurrentMayEnd == \A f \in Families : current'[f] \in {current[f], None}

LEMMA QuietKeeps ==
  ASSUME IInv, TypeOK', UNCHANGED << opened, minted, familyOf, asked, answer, orphans, lost >>,
         CurrentMayEnd, SameSession \/ NoSession, CallsGoOn
  PROVE  Owned' /\ Flown'
PROOF
  <1>1. TypeOK /\ Owned /\ Flown
    BY DEF IInv
  <1>2. MintOK' /\ CurrentOK' /\ OrphansOK'
    BY <1>1 DEF Owned, MintOK, CurrentOK, OrphansOK, CurrentMayEnd
  <1>3. HeldOK'
    BY <1>1 DEF Owned, HeldOK, SameSession, NoSession
  <1>4. Session' = Session \/ Session' = None
    BY DEF Session, SameSession, NoSession
  <1>5. \A c \in Calls : issuer[c] \in opened => issuer[c] # None
    BY <1>1, NoneIsNothing DEF TypeOK
  <1>6. CallsOK'
    BY <1>1, <1>4, <1>5 DEF Owned, CallsOK, CallsGoOn
  <1>7. SingleFlight' /\ FlightOK'
    BY <1>1 DEF Flown, SingleFlight, FlightOK
  <1>8. \A c \in Calls : asked[c] # None => familyOf[asked[c]] \in Families
    BY <1>1 DEF Flown, FlightOK, Owned, MintOK, TypeOK
  <1>9. AnswerIsCurrent'
    <2> SUFFICES ASSUME NEW c \in Calls, answer[c] \in Tokens, familyOf[asked[c]] \notin lost
                 PROVE  current'[familyOf[asked[c]]] \in {answer[c], None}
      BY DEF AnswerIsCurrent
    <2>1. asked[c] # None
      BY <1>1, NoneIsNothing DEF Flown, FlightOK
    <2> QED
      BY <1>1, <1>8, <2>1 DEF Flown, AnswerIsCurrent, CurrentMayEnd
  <1>10. NeverReusesToken'
    BY <1>1, <1>8 DEF Flown, NeverReusesToken, Refreshing, CurrentMayEnd
  <1>11. refresh # None => familyOf[refresh] \in Families
    BY <1>1 DEF Owned, HeldOK, MintOK, TypeOK
  <1>12. HeldIsCurrent' /\ AskedIsHeld'
    <2>1. CASE SameSession
      BY <1>1, <1>11, <2>1 DEF Flown, HeldIsCurrent, AskedIsHeld, SameSession, CurrentMayEnd
    <2>2. CASE NoSession
      BY <2>2 DEF HeldIsCurrent, AskedIsHeld, NoSession
    <2> QED
      BY <2>1, <2>2
  <1> QED
    BY <1>2, <1>3, <1>6, <1>7, <1>9, <1>10, <1>12 DEF Owned, Flown

QuietStep(c) ==
  Serve(c) \/ Lose(c) \/ Deliver(c) \/ Join(c) \/ DeadAtOnce(c) \/ StillRefused(c)

LEMMA QuietCalls ==
  ASSUME IInv, NEW c \in Calls, QuietStep(c)
  PROVE  IInv'
PROOF
  <1>1. TypeOK
    BY DEF IInv
  <1> USE DEF server, device, calls, flight
  <1>2. CASE Serve(c)
    <2>1. UNCHANGED << familyOf, lapsed, orphans, access, refresh, profile, reported, kind, issuer,
                       cred, joined, asked, answer, lost >>
      BY <1>2 DEF Serve
    <2>2. /\ opened' = opened /\ minted' = minted /\ CurrentMayEnd
          /\ current' \in [Families -> Tokens \cup {None}]
      BY <1>1, <1>2, EndType DEF Serve, CurrentMayEnd, TypeOK
    <2>3. PICK s \in {"ok", "denied", "refused"} :
            stage' = [stage EXCEPT ![c] = s] /\ stage[c] # "idle"
      BY <1>2 DEF Serve
    <2>4. gone' \subseteq Families
      <3>1. CASE gone' = gone
        BY <1>1, <3>1 DEF TypeOK
      <3>2. CASE gone' = gone \cup {familyOf[cred[c]]} /\ cred[c] # None
        <4>1. cred[c] \in minted
          BY <3>2 DEF IInv, Owned, CallsOK
        <4> QED
          BY <1>1, <3>2, <4>1 DEF IInv, Owned, MintOK, TypeOK
      <3> QED
        BY <1>2, <3>1, <3>2 DEF Serve, Accepts
    <2>5. TypeOK'
      BY <1>1, <2>1, <2>2, <2>3, <2>4 DEF TypeOK
    <2>6. CallsGoOn
      BY <1>1, <2>1, <2>3 DEF TypeOK, CallsGoOn
    <2> QED
      BY <2>1, <2>2, <2>5, <2>6, QuietKeeps DEF IInv, SameSession
  <1>3. CASE Lose(c)
    <2>1. Forget(c) /\ UNCHANGED << server, lapsed, orphans, device, reported, flight, lost >>
      BY <1>3 DEF Lose
    <2>2. TypeOK' /\ CallsGoOn
      BY <1>1, <2>1, ForgetType DEF TypeOK, CallsGoOn
    <2>3. CurrentMayEnd /\ SameSession
      BY <2>1 DEF CurrentMayEnd, SameSession
    <2> QED
      BY <2>1, <2>2, <2>3, QuietKeeps DEF IInv
  <1>4. CASE Deliver(c)
    <2>1. Forget(c) /\ UNCHANGED << server, lapsed, orphans, reported, flight, lost >>
      BY <1>4 DEF Deliver
    <2>2. SameSession \/ NoSession
      BY <1>4 DEF Deliver, ClearSession, SameSession, NoSession
    <2>3. DeviceType'
      <3>1. cred[c] # None /\ cred[c] \in minted
        BY <1>4 DEF IInv, Owned, CallsOK, Deliver
      <3>2. familyOf[cred[c]] \in Families
        BY <1>1, <3>1 DEF IInv, Owned, MintOK, TypeOK
      <3> QED
        BY <1>1, <1>4, <3>2 DEF Deliver, ClearSession, DeviceType, TypeOK
    <2>4. TypeOK' /\ CallsGoOn
      BY <1>1, <2>1, <2>3, ForgetType DEF TypeOK, CallsGoOn, DeviceType
    <2>5. CurrentMayEnd
      BY <2>1 DEF CurrentMayEnd
    <2> QED
      BY <2>1, <2>2, <2>4, <2>5, QuietKeeps DEF IInv
  <1>5. CASE Join(c)
    <2>1. PICK d \in Calls :
            /\ stage[c] = "denied" /\ stage' = [stage EXCEPT ![c] = "waiting"]
            /\ joined' = [joined EXCEPT ![c] = d]
            /\ UNCHANGED << server, lapsed, orphans, device, reported, kind, issuer, cred, flight,
                            lost >>
      BY <1>5 DEF Join, InFlight
    <2>2. TypeOK' /\ CallsGoOn
      BY <1>1, <2>1 DEF TypeOK, CallsGoOn
    <2>3. CurrentMayEnd /\ SameSession
      BY <2>1 DEF CurrentMayEnd, SameSession
    <2> QED
      BY <2>1, <2>2, <2>3, QuietKeeps DEF IInv
  <1>6. CASE DeadAtOnce(c)
    <2>1. /\ Forget(c) /\ ClearSession /\ reported' = TRUE
          /\ UNCHANGED << server, lapsed, orphans, flight, lost >>
      BY <1>6 DEF DeadAtOnce
    <2>2. TypeOK' /\ CallsGoOn
      BY <1>1, <2>1, ForgetType DEF TypeOK, CallsGoOn, ClearSession
    <2>3. CurrentMayEnd /\ NoSession
      BY <2>1 DEF CurrentMayEnd, NoSession, ClearSession
    <2> QED
      BY <2>1, <2>2, <2>3, QuietKeeps DEF IInv
  <1>7. CASE StillRefused(c)
    <2>1. /\ Forget(c) /\ Report({c})
          /\ UNCHANGED << server, lapsed, orphans, flight, lost >>
      BY <1>7 DEF StillRefused
    <2>2. (SameSession \/ NoSession) /\ DeviceType' /\ reported' \in BOOLEAN
      BY <1>1, <2>1 DEF Report, ClearSession, SameSession, NoSession, DeviceType, TypeOK
    <2>3. TypeOK' /\ CallsGoOn
      BY <1>1, <2>1, <2>2, ForgetType DEF TypeOK, CallsGoOn, DeviceType
    <2>4. CurrentMayEnd
      BY <2>1 DEF CurrentMayEnd
    <2> QED
      BY <2>1, <2>2, <2>3, <2>4, QuietKeeps DEF IInv
  <1> QED
    BY <1>2, <1>3, <1>4, <1>5, <1>6, <1>7 DEF QuietStep

\* Signing out, time passing, a login ending on the server, nothing at all.
LEMMA QuietElse ==
  ASSUME IInv,
         \/ SignOut
         \/ \E t \in Tokens : AccessLapses(t)
         \/ \E f \in Families : LoginEnds(f)
         \/ UNCHANGED vars
  PROVE  IInv'
PROOF
  <1>1. TypeOK
    BY DEF IInv
  <1> USE DEF server, device, calls, flight
  <1>2. CASE SignOut
    <2>1. ClearSession /\ UNCHANGED << server, lapsed, orphans, reported, calls, flight, lost >>
      BY <1>2 DEF SignOut
    <2>2. TypeOK' /\ CallsGoOn /\ CurrentMayEnd /\ NoSession
      BY <1>1, <2>1 DEF TypeOK, CallsGoOn, CurrentMayEnd, NoSession, ClearSession
    <2> QED
      BY <2>1, <2>2, QuietKeeps DEF IInv
  <1>3. ASSUME NEW t \in Tokens, AccessLapses(t) PROVE IInv'
    <2>1. /\ lapsed' = lapsed \cup {t}
          /\ UNCHANGED << server, orphans, device, reported, calls, flight, lost >>
      BY <1>3 DEF AccessLapses
    <2>2. TypeOK' /\ CallsGoOn /\ CurrentMayEnd /\ SameSession
      BY <1>1, <2>1 DEF TypeOK, CallsGoOn, CurrentMayEnd, SameSession
    <2> QED
      BY <2>1, <2>2, QuietKeeps DEF IInv
  <1>4. ASSUME NEW f \in Families, LoginEnds(f) PROVE IInv'
    <2>1. /\ Server!End({f})
          /\ UNCHANGED << familyOf, gone, lapsed, orphans, device, reported, calls, flight, lost >>
      BY <1>4 DEF LoginEnds
    <2>2. /\ opened' = opened /\ minted' = minted /\ CurrentMayEnd
          /\ current' \in [Families -> Tokens \cup {None}]
      BY <1>1, <2>1, EndType DEF CurrentMayEnd
    <2>3. TypeOK' /\ CallsGoOn /\ SameSession
      BY <1>1, <2>1, <2>2 DEF TypeOK, CallsGoOn, SameSession
    <2> QED
      BY <2>1, <2>2, <2>3, QuietKeeps DEF IInv
  <1>5. CASE UNCHANGED vars
    <2>1. UNCHANGED << server, lapsed, orphans, device, reported, calls, flight, lost >>
      BY <1>5 DEF vars
    <2>2. TypeOK' /\ CallsGoOn /\ CurrentMayEnd /\ SameSession
      BY <1>1, <2>1 DEF TypeOK, CallsGoOn, CurrentMayEnd, SameSession
    <2> QED
      BY <2>1, <2>2, QuietKeeps DEF IInv
  <1> QED
    BY <1>2, <1>3, <1>4, <1>5

(***************************************************************************)
(* Sessions that start, and calls                                          *)
(***************************************************************************)

LEMMA SignInKeeps ==
  ASSUME IInv, SignIn
  PROVE  IInv'
PROOF
  <1>1. TypeOK /\ Owned /\ Flown
    BY DEF IInv
  <1> USE DEF server, device, calls, flight
  <1>2. PICK n \in Tokens \ minted : n = NewToken
    BY <1>1, FreshToken DEF SignIn
  <1>3. PICK f \in Families \ opened : f = NewFamily
    BY <1>1, FreshFamily DEF SignIn
  <1>4. /\ refresh = None
        /\ opened' = opened \cup {f} /\ minted' = minted \cup {n}
        /\ current' = [current EXCEPT ![f] = n]
        /\ familyOf' = [familyOf EXCEPT ![n] = f]
        /\ access' = n /\ refresh' = n /\ profile' = f
        /\ UNCHANGED << lapsed, gone, orphans, reported, calls, flight, lost >>
    BY <1>2, <1>3 DEF SignIn, Server!Open
  <1>5. TypeOK'
    BY <1>1, <1>4 DEF TypeOK
  <1>6. /\ minted \subseteq Tokens /\ n # None /\ n \notin minted
        /\ familyOf'[n] = f /\ \A t \in minted : familyOf'[t] = familyOf[t]
        /\ \A g \in Families : current'[g] = IF g = f THEN n ELSE current[g]
    BY <1>1, <1>4, NoneIsNothing DEF TypeOK
  <1>7. MintOK' /\ CurrentOK' /\ HeldOK' /\ OrphansOK'
    BY <1>1, <1>4, <1>6 DEF Owned, MintOK, CurrentOK, HeldOK, OrphansOK
  <1>8. Session' = f
    BY <1>4, <1>6 DEF Session
  <1>9. CallsOK'
    BY <1>1, <1>4, <1>6, <1>8 DEF Owned, CallsOK
  <1>10. \A c \in Calls : asked[c] # None => familyOf'[asked[c]] = familyOf[asked[c]]
                                            /\ familyOf[asked[c]] \in opened
    BY <1>1, <1>6 DEF Flown, FlightOK, Owned, MintOK
  <1>11. \A c \in Calls : answer[c] \in Tokens => asked[c] # None
    BY <1>1, NoneIsNothing DEF Flown, FlightOK
  <1>12. SingleFlight' /\ FlightOK'
    BY <1>1, <1>4, <1>6, <1>10, <1>11 DEF Flown, SingleFlight, FlightOK
  <1>13. HeldIsCurrent' /\ AskedIsHeld'
    BY <1>4, <1>6, <1>10 DEF HeldIsCurrent, AskedIsHeld
  <1>14. opened \subseteq Families /\ f \notin opened
    BY <1>1 DEF TypeOK
  <1>15. \A c \in Calls : asked[c] # None => current'[familyOf'[asked[c]]] = current[familyOf[asked[c]]]
    BY <1>6, <1>10, <1>14
  <1>16. AnswerIsCurrent' /\ NeverReusesToken'
    BY <1>1, <1>4, <1>10, <1>11, <1>15 DEF Flown, AnswerIsCurrent, NeverReusesToken, Refreshing
  <1> QED
    BY <1>5, <1>7, <1>9, <1>12, <1>13, <1>16 DEF IInv, Owned, Flown

LEMMA KillKeeps ==
  ASSUME IInv, Kill
  PROVE  IInv'
PROOF
  <1>1. TypeOK /\ Owned /\ Flown
    BY DEF IInv
  <1> USE DEF server, device, calls, flight
  <1>2. /\ \A c \in Calls : stage'[c] = "idle" /\ cred'[c] = None
                            /\ asked'[c] = None /\ answer'[c] = None
        /\ UNCHANGED << opened, minted, current, familyOf, gone, lapsed, access, refresh, profile >>
    BY DEF Kill
  <1>3. PICK open : open = {c \in Calls : asked[c] # None /\ answer[c] = None}
    OBVIOUS
  <1>4. PICK out : out = {c \in Calls : asked[c] # None}
    OBVIOUS
  <1>5. /\ orphans' = orphans \cup {asked[c] : c \in open}
        /\ lost' = lost \cup {familyOf[asked[c]] : c \in out}
    BY <1>3, <1>4 DEF Kill
  <1>6. \A c \in out : asked[c] \in minted /\ familyOf[asked[c]] \in Families
    BY <1>1, <1>4 DEF Flown, FlightOK, Owned, MintOK, TypeOK
  <1>7. orphans' \subseteq Tokens /\ lost' \subseteq Families
    BY <1>1, <1>3, <1>4, <1>5, <1>6 DEF TypeOK
  <1>8. TypeOK'
    BY <1>1, <1>2, <1>7 DEF TypeOK, Kill
  <1>9. MintOK' /\ CurrentOK' /\ HeldOK' /\ CallsOK'
    BY <1>1, <1>2 DEF Owned, MintOK, CurrentOK, HeldOK, CallsOK
  <1>10. OrphansOK'
    BY <1>1, <1>2, <1>3, <1>4, <1>5, <1>6 DEF Owned, OrphansOK
  <1>11. SingleFlight' /\ FlightOK' /\ AskedIsHeld' /\ NeverReusesToken'
    BY <1>2, NoneIsNothing DEF SingleFlight, FlightOK, AskedIsHeld, NeverReusesToken, Refreshing
  <1>12. AnswerIsCurrent'
    BY <1>2, NoneIsNothing DEF AnswerIsCurrent
  <1>13. HeldIsCurrent'
    <2> SUFFICES ASSUME refresh # None, familyOf[refresh] \notin lost'
                 PROVE  current[familyOf[refresh]] \in {refresh, None}
      BY <1>2 DEF HeldIsCurrent
    <2>1. \A c \in Calls : asked[c] # refresh
      BY <1>4, <1>5
    <2> QED
      BY <1>1, <1>5, <2>1 DEF Flown, HeldIsCurrent
  <1> QED
    BY <1>8, <1>9, <1>10, <1>11, <1>12, <1>13 DEF IInv, Owned, Flown

LEMMA CallKeeps ==
  ASSUME IInv, NEW c \in Calls, NEW k \in {"profile", "delete"}, Call(c, k)
  PROVE  IInv'
PROOF
  <1>1. TypeOK /\ Owned /\ Flown
    BY DEF IInv
  <1> USE DEF server, device, calls, flight
  <1>2. refresh # None /\ access = refresh /\ refresh \in minted /\ Session = familyOf[refresh]
    BY <1>1 DEF Call, Owned, HeldOK, Session
  <1>3. Session \in opened /\ Session \in Families
    BY <1>1, <1>2 DEF Owned, MintOK, TypeOK
  <1>4. PICK f \in Families : f = Session
    BY <1>3
  <1>5. /\ stage' = [stage EXCEPT ![c] = "sent"] /\ kind' = [kind EXCEPT ![c] = k]
        /\ issuer' = [issuer EXCEPT ![c] = f] /\ cred' = [cred EXCEPT ![c] = access]
        /\ UNCHANGED << server, lapsed, orphans, device, reported, joined, flight, lost >>
    BY <1>4 DEF Call
  <1>6. TypeOK'
    BY <1>1, <1>5 DEF TypeOK
  <1>7. Session' = Session
    BY <1>5 DEF Session
  <1>8. CallsOK'
    <2> SUFFICES ASSUME NEW d \in Calls
                 PROVE  /\ cred'[d] # None => cred'[d] \in minted
                        /\ stage'[d] # "idle" =>
                             /\ cred'[d] # None /\ issuer'[d] \in opened
                             /\ familyOf[cred'[d]] = issuer'[d] \/ issuer'[d] # Session
      BY <1>5, <1>7 DEF CallsOK
    <2>1. CASE d = c
      BY <1>1, <1>2, <1>3, <1>4, <1>5, <2>1 DEF TypeOK
    <2>2. CASE d # c
      BY <1>1, <1>5, <2>2 DEF TypeOK, Owned, CallsOK
    <2> QED
      BY <2>1, <2>2
  <1>9. MintOK' /\ CurrentOK' /\ HeldOK' /\ OrphansOK'
    BY <1>1, <1>5 DEF Owned, MintOK, CurrentOK, HeldOK, OrphansOK
  <1>10. Flown'
    BY <1>1, <1>5 DEF Flown, SingleFlight, FlightOK, HeldIsCurrent, AskedIsHeld, AnswerIsCurrent,
                      NeverReusesToken, Refreshing
  <1> QED
    BY <1>6, <1>8, <1>9, <1>10 DEF IInv, Owned

(***************************************************************************)
(* Refreshes                                                               *)
(***************************************************************************)

LEMMA StartRefreshKeeps ==
  ASSUME IInv, NEW c \in Calls, StartRefresh(c)
  PROVE  IInv'
PROOF
  <1>1. TypeOK /\ Owned /\ Flown
    BY DEF IInv
  <1> USE DEF server, device, calls, flight
  <1>2. /\ stage[c] = "denied" /\ refresh # None
        /\ asked' = [asked EXCEPT ![c] = refresh] /\ stage' = [stage EXCEPT ![c] = "waiting"]
        /\ joined' = [joined EXCEPT ![c] = c] /\ reported' = FALSE
        /\ UNCHANGED << server, lapsed, orphans, device, kind, issuer, cred, answer, lost >>
    BY DEF StartRefresh
  <1>3. \A d \in Calls : asked[d] = None /\ answer[d] = None
    BY <1>1 DEF StartRefresh, InFlight, Refreshing, Flown, FlightOK
  <1>4. TypeOK'
    BY <1>1, <1>2 DEF TypeOK
  <1>5. \A d \in Calls : /\ asked'[d] = IF d = c THEN refresh ELSE None
                         /\ answer'[d] = None
                         /\ stage'[d] # "idle" => stage[d] # "idle"
    BY <1>1, <1>2, <1>3 DEF TypeOK
  <1>6. Session' = Session
    BY <1>2 DEF Session
  <1>7. Owned'
    BY <1>1, <1>2, <1>5, <1>6 DEF Owned, MintOK, CurrentOK, HeldOK, CallsOK, OrphansOK
  <1>8. refresh \in minted
    BY <1>1, <1>2 DEF Owned, HeldOK
  <1>9. SingleFlight' /\ FlightOK' /\ AskedIsHeld' /\ AnswerIsCurrent'
    BY <1>2, <1>5, <1>8, NoneIsNothing DEF SingleFlight, FlightOK, AskedIsHeld, AnswerIsCurrent
  <1>10. familyOf[refresh] \notin lost => current[familyOf[refresh]] \in {refresh, None}
    BY <1>1, <1>2, <1>3, NoneIsNothing DEF Flown, HeldIsCurrent
  <1>11. HeldIsCurrent' /\ NeverReusesToken'
    BY <1>2, <1>5, <1>10 DEF HeldIsCurrent, NeverReusesToken, Refreshing
  <1> QED
    BY <1>4, <1>7, <1>9, <1>11 DEF IInv, Flown

LEMMA FailRefreshKeeps ==
  ASSUME IInv, NEW c \in Calls, FailRefresh(c)
  PROVE  IInv'
PROOF
  <1>1. TypeOK /\ Owned /\ Flown
    BY DEF IInv
  <1> USE DEF server, device, calls, flight
  <1>2. /\ asked[c] # None /\ answer' = [answer EXCEPT ![c] = "unreachable"]
        /\ UNCHANGED << server, lapsed, device, reported, calls, asked >>
        /\ \/ answer[c] = None /\ UNCHANGED << orphans, lost >>
           \/ /\ orphans' \in {orphans, orphans \cup {asked[c]}}
              /\ lost' = lost \cup {familyOf[asked[c]]}
    BY DEF FailRefresh, Refreshing
  <1>3. asked[c] \in minted /\ asked[c] \in Tokens /\ familyOf[asked[c]] \in Families
    BY <1>1, <1>2 DEF Flown, FlightOK, Owned, MintOK, TypeOK
  <1>4. TypeOK'
    BY <1>1, <1>2, <1>3 DEF TypeOK
  <1>5. \A d \in Calls : answer'[d] = IF d = c THEN "unreachable" ELSE answer[d]
    BY <1>1, <1>2 DEF TypeOK
  <1>6. "unreachable" \notin Tokens /\ "unreachable" # None /\ None \notin Tokens
    BY FailuresAreNoTokens, NoneIsNothing
  <1>7. Session' = Session
    BY <1>2 DEF Session
  <1>8. Owned'
    BY <1>1, <1>2, <1>3, <1>7 DEF Owned, MintOK, CurrentOK, HeldOK, CallsOK, OrphansOK
  <1>9. SingleFlight' /\ FlightOK' /\ AskedIsHeld'
    BY <1>1, <1>2, <1>5, <1>6 DEF Flown, SingleFlight, FlightOK, AskedIsHeld
  <1>10. AnswerIsCurrent' /\ NeverReusesToken'
    BY <1>1, <1>2, <1>5, <1>6 DEF Flown, AnswerIsCurrent, NeverReusesToken, Refreshing
  <1>11. HeldIsCurrent'
    BY <1>1, <1>2, <1>5, <1>6 DEF Flown, HeldIsCurrent
  <1> QED
    BY <1>4, <1>8, <1>9, <1>10, <1>11 DEF IInv, Flown

(***************************************************************************)
(* Rotations and refusals on the server                                    *)
(***************************************************************************)

\* A rotation mints a new token of the same login.
LEMMA RotateFacts ==
  ASSUME TypeOK, MintOK, CurrentOK, TokenLeft, NEW t \in minted, Rotate(t, NewToken)
  PROVE  /\ NewToken \in Tokens \ minted /\ minted' = minted \cup {NewToken}
         /\ opened' = opened /\ familyOf[t] \in Families
         /\ familyOf'[NewToken] = familyOf[t]
         /\ \A u \in minted : familyOf'[u] = familyOf[u]
         /\ \A f \in Families : current'[f] = IF f = familyOf[t] THEN NewToken ELSE current[f]
         /\ MintOK' /\ CurrentOK'
PROOF
  <1>1. PICK n \in Tokens \ minted : n = NewToken
    BY FreshToken
  <1>2. familyOf[t] \in Families /\ familyOf[t] \in opened /\ minted \subseteq Tokens
    BY DEF MintOK, TypeOK
  <1>3. /\ opened' = opened /\ minted' = minted \cup {n}
        /\ current' = [current EXCEPT ![familyOf[t]] = n]
        /\ familyOf' = [familyOf EXCEPT ![n] = familyOf[t]]
    BY <1>1 DEF Rotate, Server!Advance
  <1>4. /\ familyOf'[n] = familyOf[t] /\ \A u \in minted : familyOf'[u] = familyOf[u]
        /\ \A f \in Families : current'[f] = IF f = familyOf[t] THEN n ELSE current[f]
    BY <1>2, <1>3 DEF TypeOK
  <1>5. MintOK' /\ CurrentOK'
    BY <1>2, <1>3, <1>4 DEF MintOK, CurrentOK
  <1> QED
    BY <1>1, <1>2, <1>3, <1>4, <1>5

\* What the server does with a token leaves the device and its calls as they are.
LEMMA OwnedStays ==
  ASSUME Owned, TypeOK, opened' = opened, minted \subseteq minted',
         \A u \in minted : familyOf'[u] = familyOf[u],
         MintOK', CurrentOK', OrphansOK',
         UNCHANGED << access, refresh, stage, issuer, cred >>
  PROVE  Owned'
PROOF
  <1>1. HeldOK'
    BY DEF Owned, HeldOK
  <1>2. Session' = Session
    BY DEF Owned, HeldOK, Session
  <1>3. CallsOK'
    BY <1>2 DEF Owned, CallsOK
  <1> QED
    BY <1>1, <1>3 DEF Owned

LEMMA ServeRefreshKeeps ==
  ASSUME IInv, NEW c \in Calls, ServeRefresh(c)
  PROVE  IInv'
PROOF
  <1>1. TypeOK /\ Owned /\ Flown
    BY DEF IInv
  <1> USE DEF server, device, calls, flight
  <1>2. /\ asked[c] # None /\ answer[c] = None
        /\ UNCHANGED << lapsed, gone, orphans, device, reported, calls, asked, lost >>
    BY DEF ServeRefresh, Refreshing
  <1>3. asked[c] \in minted
    BY <1>1, <1>2 DEF Flown, FlightOK
  <1>4. \A d \in Calls \ {c} : asked[d] = None /\ answer[d] = None
    BY <1>1, <1>2 DEF Flown, SingleFlight, FlightOK
  <1>5. None \notin Tokens /\ "rejected" \notin Tokens /\ "rejected" # None
    BY NoneIsNothing, FailuresAreNoTokens
  <1>6. refresh # None => refresh \in minted /\ familyOf[refresh] \in Families
    BY <1>1 DEF Owned, HeldOK, MintOK, TypeOK
  <1>7. CASE TokenLeft /\ Rotate(asked[c], NewToken) /\ answer' = [answer EXCEPT ![c] = NewToken]
    <2>1. PICK n : n = NewToken
      OBVIOUS
    <2>2. /\ n \in Tokens \ minted /\ minted' = minted \cup {n}
          /\ opened' = opened /\ familyOf[asked[c]] \in Families
          /\ familyOf'[n] = familyOf[asked[c]]
          /\ \A u \in minted : familyOf'[u] = familyOf[u]
          /\ \A f \in Families : current'[f] = IF f = familyOf[asked[c]] THEN n ELSE current[f]
          /\ MintOK' /\ CurrentOK'
      BY <1>1, <1>3, <1>7, <2>1, RotateFacts DEF Owned
    <2>3. answer' = [answer EXCEPT ![c] = n]
      BY <1>7, <2>1
    <2>4. TypeOK'
      BY <1>1, <1>2, <1>3, <1>7, <2>2, <2>3, RotateType DEF TypeOK, Owned
    <2>5. \A d \in Calls : answer'[d] = IF d = c THEN n ELSE None
      BY <1>1, <1>4, <2>3 DEF TypeOK
    <2>6. OrphansOK'
      BY <1>1, <1>2, <2>2 DEF Owned, OrphansOK
    <2>7. Owned'
      BY <1>1, <1>2, <2>2, <2>6, OwnedStays
    <2>8. SingleFlight' /\ FlightOK' /\ NeverReusesToken'
      BY <1>1, <1>2, <1>3, <1>4, <1>5, <2>2, <2>5
      DEF Flown, SingleFlight, FlightOK, NeverReusesToken, Refreshing
    <2>9. AskedIsHeld'
      BY <1>1, <1>2, <1>3, <1>4, <1>6, <2>2 DEF Flown, AskedIsHeld
    <2>10. AnswerIsCurrent'
      BY <1>2, <1>3, <1>4, <1>5, <2>2, <2>5 DEF AnswerIsCurrent
    <2>11. HeldIsCurrent'
      <3> SUFFICES ASSUME refresh # None, familyOf[refresh] \notin lost
                   PROVE  \/ current'[familyOf[refresh]] \in {refresh, None}
                          \/ \E d \in Calls : asked[d] = refresh /\ answer'[d] \in Tokens
        BY <1>2, <1>6, <2>2 DEF HeldIsCurrent
      <3>1. CASE familyOf[asked[c]] = familyOf[refresh]
        <4>1. asked[c] = refresh
          BY <1>1, <1>2, <3>1 DEF Flown, AskedIsHeld
        <4> QED
          BY <2>2, <2>5, <4>1
      <3>2. CASE familyOf[asked[c]] # familyOf[refresh]
        <4>1. current'[familyOf[refresh]] = current[familyOf[refresh]]
          BY <1>6, <2>2, <3>2
        <4>2. \A d \in Calls : answer[d] \notin Tokens
          BY <1>2, <1>4, <1>5
        <4> QED
          BY <1>1, <4>1, <4>2 DEF Flown, HeldIsCurrent
      <3> QED
        BY <3>1, <3>2
    <2> QED
      BY <2>4, <2>7, <2>8, <2>9, <2>10, <2>11 DEF IInv, Flown
  <1>8. CASE Reject(asked[c]) /\ answer' = [answer EXCEPT ![c] = "rejected"]
    <2>1. /\ opened' = opened /\ minted' = minted /\ familyOf' = familyOf
          /\ current' \in [Families -> Tokens \cup {None}]
          /\ \A f \in Families : current'[f] \in {current[f], None}
      BY <1>1, <1>8, EndType DEF Reject
    <2>2. TypeOK'
      BY <1>1, <1>2, <1>8, <2>1 DEF TypeOK
    <2>3. \A d \in Calls : answer'[d] = IF d = c THEN "rejected" ELSE None
      BY <1>1, <1>4, <1>8 DEF TypeOK
    <2>4. MintOK' /\ CurrentOK' /\ OrphansOK'
      BY <1>1, <1>2, <2>1 DEF Owned, MintOK, CurrentOK, OrphansOK
    <2>5. Owned'
      BY <1>1, <1>2, <2>1, <2>4, OwnedStays
    <2>6. SingleFlight' /\ FlightOK' /\ NeverReusesToken' /\ AskedIsHeld' /\ AnswerIsCurrent'
      BY <1>1, <1>2, <1>3, <1>4, <1>5, <2>1, <2>3
      DEF Flown, SingleFlight, FlightOK, NeverReusesToken, Refreshing, AskedIsHeld, AnswerIsCurrent
    <2>7. HeldIsCurrent'
      BY <1>1, <1>2, <1>4, <1>5, <1>6, <2>1 DEF Flown, HeldIsCurrent
    <2> QED
      BY <2>2, <2>5, <2>6, <2>7 DEF IInv, Flown
  <1> QED
    BY <1>7, <1>8 DEF ServeRefresh

LEMMA OrphanKeeps ==
  ASSUME IInv, NEW t \in Tokens, OrphanArrives(t)
  PROVE  IInv'
PROOF
  <1>1. TypeOK /\ Owned /\ Flown
    BY DEF IInv
  <1> USE DEF server, device, calls, flight
  <1>2. /\ t \in orphans /\ orphans' = orphans \ {t}
        /\ UNCHANGED << gone, lapsed, device, reported, calls, flight, lost >>
    BY DEF OrphanArrives
  <1>3. t \in minted /\ familyOf[t] \in lost
    BY <1>1, <1>2 DEF Owned, OrphansOK
  <1>4. refresh # None => refresh \in minted /\ familyOf[refresh] \in Families
    BY <1>1 DEF Owned, HeldOK, MintOK, TypeOK
  <1>5. \A c \in Calls : /\ answer[c] \in Tokens => asked[c] # None
                         /\ asked[c] # None => asked[c] \in minted /\ familyOf[asked[c]] \in Families
    BY <1>1, NoneIsNothing DEF Flown, FlightOK, Owned, MintOK, TypeOK
  <1>6. \/ TokenLeft /\ Rotate(t, NewToken)
        \/ Reject(t)
        \/ UNCHANGED << opened, minted, current, familyOf >>
    BY DEF OrphanArrives
  <1>7. /\ opened' = opened /\ minted \subseteq minted' /\ minted' \subseteq Tokens
        /\ current' \in [Families -> Tokens \cup {None}]
        /\ familyOf' \in [Tokens -> Families \cup {None}]
        /\ \A u \in minted : familyOf'[u] = familyOf[u]
        /\ \A f \in Families \ lost : current'[f] \in {current[f], None}
        /\ MintOK' /\ CurrentOK'
    <2>1. CASE TokenLeft /\ Rotate(t, NewToken)
      BY <1>1, <1>3, <2>1, RotateFacts, RotateType DEF Owned
    <2>2. CASE Reject(t)
      BY <1>1, <2>2, EndType DEF Reject, Owned, MintOK, CurrentOK, TypeOK
    <2>3. CASE UNCHANGED << opened, minted, current, familyOf >>
      BY <1>1, <2>3 DEF Owned, MintOK, CurrentOK, TypeOK
    <2> QED
      BY <1>6, <2>1, <2>2, <2>3
  <1>8. TypeOK'
    BY <1>1, <1>2, <1>7 DEF TypeOK
  <1>9. OrphansOK'
    BY <1>1, <1>2, <1>7 DEF Owned, OrphansOK
  <1>10. Owned'
    BY <1>1, <1>2, <1>7, <1>9, OwnedStays
  <1>11. SingleFlight' /\ FlightOK' /\ AskedIsHeld'
    BY <1>1, <1>2, <1>4, <1>5, <1>7 DEF Flown, SingleFlight, FlightOK, AskedIsHeld
  <1>12. AnswerIsCurrent' /\ NeverReusesToken'
    BY <1>1, <1>2, <1>5, <1>7 DEF Flown, AnswerIsCurrent, NeverReusesToken, Refreshing
  <1>13. HeldIsCurrent'
    BY <1>1, <1>2, <1>4, <1>7 DEF Flown, HeldIsCurrent
  <1> QED
    BY <1>8, <1>10, <1>11, <1>12, <1>13 DEF IInv, Flown

(***************************************************************************)
(* Refreshes that settle                                                   *)
(***************************************************************************)

LEMMA SettleRefreshedKeeps ==
  ASSUME IInv, NEW c \in Calls, SettleRefreshed(c)
  PROVE  IInv'
PROOF
  <1>1. TypeOK /\ Owned /\ Flown
    BY DEF IInv
  <1> USE DEF server, device, calls, flight
  <1>2. PICK W : W = Waiters(c)
    OBVIOUS
  <1>3. PICK n \in Tokens : n = answer[c]
    BY DEF SettleRefreshed, Refreshed
  <1>4. /\ asked[c] # None /\ refresh = asked[c]
        /\ access' = n /\ refresh' = n
        /\ stage'  = [d \in Calls |-> IF d \in W THEN "resent" ELSE stage[d]]
        /\ cred'   = [d \in Calls |-> IF d \in W THEN n ELSE cred[d]]
        /\ joined' = [d \in Calls |-> IF d \in W THEN None ELSE joined[d]]
        /\ Land(c)
        /\ UNCHANGED << server, lapsed, orphans, profile, reported, kind, issuer, lost >>
    BY <1>2, <1>3 DEF SettleRefreshed, Refreshing, Refreshed, StillCurrent
  <1>5. n \in minted /\ familyOf[n] = familyOf[refresh] /\ n # None /\ refresh \in minted
    BY <1>1, <1>3, <1>4, NoneIsNothing DEF Flown, FlightOK
  <1>6. TypeOK'
    BY <1>1, <1>4, LandType DEF TypeOK
  <1>7. Session' = Session /\ Session = familyOf[refresh]
    BY <1>4, <1>5 DEF Session
  <1>8. \A d \in W : stage[d] # "idle"
    BY <1>2 DEF Waiters
  <1>9. CallsOK'
    <2> SUFFICES ASSUME NEW d \in Calls
                 PROVE  /\ cred'[d] # None => cred'[d] \in minted
                        /\ stage'[d] # "idle" =>
                             /\ cred'[d] # None /\ issuer[d] \in opened
                             /\ familyOf[cred'[d]] = issuer[d] \/ issuer[d] # Session
      BY <1>4, <1>7 DEF CallsOK
    <2>1. CASE d \in W
      BY <1>1, <1>4, <1>5, <1>7, <1>8, <2>1 DEF Owned, CallsOK
    <2>2. CASE d \notin W
      BY <1>1, <1>4, <2>2 DEF Owned, CallsOK
    <2> QED
      BY <2>1, <2>2
  <1>10. MintOK' /\ CurrentOK' /\ HeldOK' /\ OrphansOK'
    BY <1>1, <1>4, <1>5 DEF Owned, MintOK, CurrentOK, HeldOK, OrphansOK
  <1>11. \A d \in Calls : asked'[d] = None /\ answer'[d] = None
    BY <1>1, <1>4, LandType DEF Flown, SingleFlight, FlightOK
  <1>12. /\ SingleFlight' /\ FlightOK' /\ AskedIsHeld' /\ AnswerIsCurrent'
         /\ NeverReusesToken'
    BY <1>11, NoneIsNothing
    DEF SingleFlight, FlightOK, AskedIsHeld, AnswerIsCurrent, NeverReusesToken, Refreshing
  <1>13. HeldIsCurrent'
    BY <1>1, <1>3, <1>4, <1>5 DEF Flown, AnswerIsCurrent, HeldIsCurrent
  <1> QED
    BY <1>6, <1>9, <1>10, <1>12, <1>13 DEF IInv, Owned, Flown

LEMMA SettleOtherKeeps ==
  ASSUME IInv, NEW c \in Calls, SettleDead(c) \/ SettleUnreachable(c)
  PROVE  IInv'
PROOF
  <1>1. TypeOK /\ Owned /\ Flown
    BY DEF IInv
  <1> USE DEF server, device, calls, flight
  <1>2. /\ asked[c] # None /\ EndWaiters(c) /\ Land(c)
        /\ UNCHANGED << server, lapsed, orphans >>
    BY DEF SettleDead, SettleUnreachable, Refreshing
  <1>3. asked[c] \in minted /\ familyOf[asked[c]] \in Families
    BY <1>1, <1>2 DEF Flown, FlightOK, Owned, MintOK, TypeOK
  <1>4. (SameSession \/ NoSession) /\ DeviceType' /\ reported' \in BOOLEAN
    BY <1>1 DEF SettleDead, SettleUnreachable, Report, ClearSession, SameSession, NoSession,
                DeviceType, TypeOK
  <1>5. \/ lost' = lost /\ answer[c] \notin Tokens
        \/ lost' = lost \cup {familyOf[asked[c]]}
    BY FailuresAreNoTokens DEF SettleDead, SettleUnreachable, Dead
  <1>6. lost \subseteq lost' /\ lost' \subseteq Families
    BY <1>1, <1>3, <1>5 DEF TypeOK
  <1>7. TypeOK'
    BY <1>1, <1>2, <1>4, <1>6, EndWaitersType, LandType DEF TypeOK, DeviceType
  <1>8. MintOK' /\ CurrentOK' /\ OrphansOK'
    BY <1>1, <1>2, <1>6 DEF Owned, MintOK, CurrentOK, OrphansOK
  <1>9. HeldOK'
    BY <1>1, <1>2, <1>4 DEF Owned, HeldOK, SameSession, NoSession
  <1>10. Session' = Session \/ Session' = None
    BY <1>2, <1>4 DEF Session, SameSession, NoSession
  <1>11. \A d \in Calls : issuer[d] \in opened => issuer[d] # None
    BY <1>1, NoneIsNothing DEF TypeOK
  <1>12. CallsOK'
    BY <1>1, <1>2, <1>10, <1>11, EndWaitersType DEF Owned, CallsOK
  <1>13. \A d \in Calls : asked'[d] = None /\ answer'[d] = None
    BY <1>1, <1>2, LandType DEF Flown, SingleFlight, FlightOK
  <1>14. /\ SingleFlight' /\ FlightOK' /\ AskedIsHeld' /\ AnswerIsCurrent'
         /\ NeverReusesToken'
    BY <1>13, NoneIsNothing
    DEF SingleFlight, FlightOK, AskedIsHeld, AnswerIsCurrent, NeverReusesToken, Refreshing
  <1>15. HeldIsCurrent'
    <2>1. CASE NoSession
      BY <2>1 DEF HeldIsCurrent, NoSession
    <2>2. CASE SameSession
      <3> SUFFICES ASSUME refresh # None, familyOf[refresh] \notin lost'
                   PROVE  current[familyOf[refresh]] \in {refresh, None}
        BY <1>2, <2>2 DEF HeldIsCurrent, SameSession
      <3>1. asked[c] = refresh => answer[c] \notin Tokens
        BY <1>5
      <3>2. \A d \in Calls : asked[d] = refresh => d = c
        BY <1>1, <1>2 DEF Flown, SingleFlight
      <3> QED
        BY <1>1, <1>6, <3>1, <3>2 DEF Flown, HeldIsCurrent
    <2> QED
      BY <1>4, <2>1, <2>2
  <1> QED
    BY <1>7, <1>8, <1>9, <1>12, <1>14, <1>15 DEF IInv, Owned, Flown

(***************************************************************************)
(* The invariant                                                           *)
(***************************************************************************)

LEMMA InitInv ==
  Init => IInv
PROOF
  <1> SUFFICES ASSUME Init PROVE IInv
    OBVIOUS
  <1>1. TypeOK
    BY DEF Init, Server!Start, TypeOK
  <1>2. Owned
    BY DEF Init, Server!Start, Owned, MintOK, CurrentOK, HeldOK, CallsOK, OrphansOK
  <1>3. Flown
    BY NoneIsNothing DEF Init, Server!Start, Flown, SingleFlight, FlightOK, HeldIsCurrent,
                         AskedIsHeld, AnswerIsCurrent, NeverReusesToken, Refreshing
  <1> QED
    BY <1>1, <1>2, <1>3 DEF IInv

LEMMA NextInv ==
  IInv /\ [Next]_vars => IInv'
PROOF
  <1> SUFFICES ASSUME IInv, [Next]_vars PROVE IInv'
    OBVIOUS
  <1>1. CASE SignIn
    BY <1>1, SignInKeeps
  <1>2. CASE SignOut \/ UNCHANGED vars
    BY <1>2, QuietElse
  <1>3. CASE Kill
    BY <1>3, KillKeeps
  <1>4. ASSUME NEW c \in Calls, NEW k \in {"profile", "delete"}, Call(c, k) PROVE IInv'
    BY <1>4, CallKeeps
  <1>5. ASSUME NEW c \in Calls, Progress(c) PROVE IInv'
    BY <1>5, QuietCalls, StartRefreshKeeps DEF Progress, QuietStep
  <1>6. ASSUME NEW c \in Calls, RefreshProgress(c) PROVE IInv'
    BY <1>6, ServeRefreshKeeps, FailRefreshKeeps, SettleRefreshedKeeps, SettleOtherKeeps
    DEF RefreshProgress
  <1>7. ASSUME NEW t \in Tokens, OrphanArrives(t) \/ AccessLapses(t) PROVE IInv'
    BY <1>7, OrphanKeeps, QuietElse
  <1>8. ASSUME NEW f \in Families, LoginEnds(f) PROVE IInv'
    BY <1>8, QuietElse
  <1> QED
    BY <1>1, <1>2, <1>3, <1>4, <1>5, <1>6, <1>7, <1>8 DEF Next

LEMMA Invariance ==
  Spec => []IInv
PROOF
  BY InitInv, NextInv, PTL DEF Spec

\* Every variable keeps its type, for every set of logins, tokens and calls.
THEOREM TypeCorrect ==
  Spec => []TypeOK
PROOF
  BY Invariance, PTL DEF IInv

\* The client never presents a token it has rotated already, unless an answer was lost.
THEOREM NeverReuses ==
  Spec => []NeverReusesToken
PROOF
  BY Invariance, PTL DEF IInv, Flown

(***************************************************************************)
(* What a step does to the device                                          *)
(***************************************************************************)

Starts   == /\ opened' # opened /\ refresh' # None /\ profile' = familyOf'[refresh']
Clears   == refresh' = None /\ profile' = None
Goes     == /\ refresh' = None <=> refresh = None
            /\ refresh # None => familyOf'[refresh'] = familyOf[refresh]
KeepsIt  == Goes /\ profile' = profile
Tells(c) == Goes /\ stage[c] # "idle" /\ cred[c] # None /\ profile' = familyOf[cred[c]]

LEMMA DeviceShape ==
  ASSUME IInv, [Next]_vars
  PROVE  Starts \/ Clears \/ KeepsIt \/ \E c \in Calls : Tells(c)
PROOF
  <1>1. TypeOK /\ Owned /\ Flown
    BY DEF IInv
  <1> USE DEF server, device, calls, flight
  <1>2. refresh # None => refresh \in minted
    BY <1>1 DEF Owned, HeldOK
  <1>3. CASE UNCHANGED << refresh, profile, familyOf >>
    BY <1>3 DEF KeepsIt, Goes
  <1>4. CASE SignIn
    <2>1. PICK n \in Tokens \ minted : n = NewToken
      BY <1>1, <1>4, FreshToken DEF SignIn
    <2>2. PICK f \in Families \ opened : f = NewFamily
      BY <1>1, <1>4, FreshFamily DEF SignIn
    <2>3. /\ opened' = opened \cup {f} /\ familyOf' = [familyOf EXCEPT ![n] = f]
          /\ refresh' = n /\ profile' = f
      BY <1>4, <2>1, <2>2 DEF SignIn, Server!Open
    <2> QED
      BY <1>1, <2>1, <2>2, <2>3, NoneIsNothing DEF Starts, TypeOK
  <1>5. CASE SignOut
    BY <1>5 DEF SignOut, ClearSession, Clears
  <1>6. ASSUME NEW c \in Calls, Deliver(c) \/ DeadAtOnce(c) \/ StillRefused(c) \/ SettleDead(c)
        PROVE  Clears \/ KeepsIt \/ Tells(c)
    <2>1. CASE Deliver(c)
      <3>1. stage[c] # "idle" /\ cred[c] # None
        BY <1>1, <2>1 DEF Deliver, Owned, CallsOK
      <3> QED
        BY <2>1, <3>1 DEF Deliver, ClearSession, Clears, Tells, Goes
    <2>2. CASE DeadAtOnce(c)
      BY <2>2 DEF DeadAtOnce, ClearSession, Clears
    <2>3. CASE StillRefused(c) \/ SettleDead(c)
      BY <2>3 DEF StillRefused, SettleDead, Report, ClearSession, Clears, KeepsIt, Goes
    <2> QED
      BY <1>6, <2>1, <2>2, <2>3
  <1>7. ASSUME NEW c \in Calls, SettleRefreshed(c) PROVE KeepsIt
    <2>1. /\ asked[c] # None /\ answer[c] \in Tokens /\ refresh = asked[c]
          /\ refresh' = answer[c] /\ profile' = profile /\ familyOf' = familyOf
      BY <1>7 DEF SettleRefreshed, Refreshing, Refreshed, StillCurrent
    <2> QED
      BY <1>1, <2>1, NoneIsNothing DEF Flown, FlightOK, KeepsIt, Goes
  <1>8. ASSUME NEW c \in Calls, ServeRefresh(c) PROVE KeepsIt
    <2>1. asked[c] \in minted /\ UNCHANGED << refresh, profile >>
      BY <1>1, <1>8 DEF ServeRefresh, Refreshing, Flown, FlightOK
    <2>2. \A u \in minted : familyOf'[u] = familyOf[u]
      BY <1>1, <1>8, <2>1, RotateFacts DEF ServeRefresh, Reject, Owned
    <2> QED
      BY <1>2, <2>1, <2>2 DEF KeepsIt, Goes
  <1>9. ASSUME NEW t \in Tokens, OrphanArrives(t) PROVE KeepsIt
    <2>1. t \in minted /\ UNCHANGED << refresh, profile >>
      BY <1>1, <1>9 DEF OrphanArrives, Owned, OrphansOK
    <2>2. \A u \in minted : familyOf'[u] = familyOf[u]
      BY <1>1, <1>9, <2>1, RotateFacts DEF OrphanArrives, Reject, Owned
    <2> QED
      BY <1>2, <2>1, <2>2 DEF KeepsIt, Goes
  <1>10. CASE Kill \/ UNCHANGED vars
    BY <1>3, <1>10 DEF Kill, vars
  <1>11. ASSUME NEW c \in Calls, NEW k \in {"profile", "delete"}, Call(c, k) PROVE KeepsIt
    BY <1>11 DEF Call, KeepsIt, Goes
  <1>12. ASSUME NEW c \in Calls,
                \/ Serve(c) \/ Lose(c) \/ Join(c) \/ StartRefresh(c)
                \/ FailRefresh(c) \/ SettleUnreachable(c)
         PROVE  KeepsIt
    BY <1>12 DEF Serve, Lose, Join, StartRefresh, FailRefresh, SettleUnreachable, KeepsIt, Goes
  <1>13. ASSUME NEW t \in Tokens, AccessLapses(t) PROVE KeepsIt
    BY <1>13 DEF AccessLapses, KeepsIt, Goes
  <1>14. ASSUME NEW f \in Families, LoginEnds(f) PROVE KeepsIt
    BY <1>14 DEF LoginEnds, KeepsIt, Goes
  <1> QED
    BY <1>4, <1>5, <1>6, <1>7, <1>8, <1>9, <1>10, <1>11, <1>12, <1>13, <1>14
    DEF Next, Progress, RefreshProgress

\* The zombie guard: no late answer brings a signed-out session back, or replaces the
\* one signed in since.
THEOREM ZombieGuard ==
  Spec => OnlySignInStartsSession
PROOF
  <1>1. IInv /\ [Next]_vars =>
          [refresh' # None /\ (refresh = None \/ familyOf'[refresh'] # Session)
             => opened' # opened]_vars
    <2> SUFFICES ASSUME IInv, [Next]_vars
                 PROVE  refresh' # None /\ (refresh = None \/ familyOf'[refresh'] # Session)
                          => opened' # opened
      OBVIOUS
    <2> QED
      BY DeviceShape DEF Starts, Clears, KeepsIt, Tells, Goes, Session
  <1> QED
    BY <1>1, Invariance, PTL DEF Spec, OnlySignInStartsSession

\* The profile on the device stays the session's own, but for an answer to a call that
\* outlived its session.
THEOREM ProfileIsSessions ==
  Spec => ProfileFollowsSession
PROOF
  <1>1. IInv /\ [Next]_vars => [ProfileMatches => ProfileMatches' \/ Strays]_vars
    <2> SUFFICES ASSUME IInv, [Next]_vars, ProfileMatches, ~ Strays
                 PROVE  ProfileMatches'
      OBVIOUS
    <2>1. CASE Starts
      BY <2>1 DEF Starts, ProfileMatches, Session
    <2>2. CASE Clears
      BY <2>2 DEF Clears, ProfileMatches
    <2>3. CASE KeepsIt
      BY <2>3 DEF KeepsIt, Goes, ProfileMatches, Session
    <2>4. ASSUME NEW c \in Calls, Tells(c) PROVE ProfileMatches'
      <3>1. issuer[c] = Session /\ familyOf[cred[c]] = issuer[c]
        BY <2>4 DEF Tells, Strays, IInv, Owned, CallsOK
      <3> QED
        BY <2>4, <3>1 DEF Tells, Goes, ProfileMatches, Session
    <2> QED
      BY <2>1, <2>2, <2>3, <2>4, DeviceShape
  <1> QED
    BY <1>1, Invariance, PTL DEF Spec, ProfileFollowsSession

(***************************************************************************)
(* Which sessions expire                                                   *)
(***************************************************************************)

\* A deleted account has no session left, a refused token is not the current one, a
\* token that has just been brought or sent again has not lapsed, and so a call that is
\* refused even then is one of a deleted account.
DeletedOK  == \A f \in gone : f \in opened /\ current[f] = None
RejectedOK == \A c \in Calls : answer[c] = "rejected" => current[familyOf[asked[c]]] # asked[c]
LapsedOK   == lapsed \subseteq minted
BroughtOK  ==
  \A c \in Calls : /\ answer[c] \in Tokens => answer[c] \notin lapsed
                   /\ stage[c] = "resent" => cred[c] \notin lapsed
RefusedOK  == \A c \in Calls : stage[c] = "refused" => familyOf[cred[c]] \in gone

ExpiryOK == DeletedOK /\ RejectedOK /\ LapsedOK /\ BroughtOK /\ RefusedOK

\* What the server never does: forget a login or a token, or give a session that has
\* ended, or that has another token, a token handed out before.
ServerGoesOn ==
  /\ opened \subseteq opened' /\ minted \subseteq minted'
  /\ \A t \in minted : familyOf'[t] = familyOf[t]
  /\ \A f \in opened : current'[f] # current[f] =>
       current[f] # None /\ (current'[f] = None \/ current'[f] \notin minted)

LEMMA ServerMoves ==
  ASSUME IInv, [Next]_vars
  PROVE  ServerGoesOn
PROOF
  <1>1. TypeOK /\ Owned /\ Flown
    BY DEF IInv
  <1> USE DEF server, device, calls, flight
  <1>2. ASSUME UNCHANGED << opened, minted, familyOf >>, CurrentMayEnd
        PROVE  ServerGoesOn
    BY <1>1, <1>2 DEF ServerGoesOn, CurrentMayEnd, TypeOK
  <1>3. ASSUME NEW t \in minted, TokenLeft, Rotate(t, NewToken)
        PROVE  ServerGoesOn
    <2>1. current[familyOf[t]] # None
      BY <1>1, <1>3, NoneIsNothing DEF Rotate, TypeOK
    <2> QED
      BY <1>1, <1>3, <2>1, RotateFacts DEF Owned, ServerGoesOn, TypeOK
  <1>4. ASSUME NEW F, Server!End(F), UNCHANGED familyOf
        PROVE  ServerGoesOn
    BY <1>1, <1>2, <1>4, EndType DEF CurrentMayEnd
  <1>5. CASE SignIn
    <2>1. PICK n \in Tokens \ minted : n = NewToken
      BY <1>1, <1>5, FreshToken DEF SignIn
    <2>2. PICK f \in Families \ opened : f = NewFamily
      BY <1>1, <1>5, FreshFamily DEF SignIn
    <2>3. /\ opened' = opened \cup {f} /\ minted' = minted \cup {n}
          /\ current' = [current EXCEPT ![f] = n]
          /\ familyOf' = [familyOf EXCEPT ![n] = f]
      BY <1>5, <2>1, <2>2 DEF SignIn, Server!Open
    <2> QED
      BY <1>1, <2>3 DEF ServerGoesOn, TypeOK
  <1>6. ASSUME NEW c \in Calls, Serve(c)
        PROVE  ServerGoesOn
    <2>1. \/ Server!End({familyOf[cred[c]]}) /\ UNCHANGED familyOf
          \/ UNCHANGED << opened, minted, current, familyOf >>
      BY <1>6 DEF Serve
    <2> QED
      BY <1>2, <1>4, <2>1 DEF CurrentMayEnd
  <1>7. ASSUME NEW c \in Calls, ServeRefresh(c)
        PROVE  ServerGoesOn
    <2>1. asked[c] \in minted
      BY <1>1, <1>7 DEF ServeRefresh, Refreshing, Flown, FlightOK
    <2> QED
      BY <1>3, <1>4, <1>7, <2>1 DEF ServeRefresh, Reject
  <1>8. ASSUME NEW t \in Tokens, OrphanArrives(t)
        PROVE  ServerGoesOn
    <2>1. t \in minted
      BY <1>1, <1>8 DEF OrphanArrives, Owned, OrphansOK
    <2> QED
      BY <1>2, <1>3, <1>4, <1>8, <2>1 DEF OrphanArrives, Reject, CurrentMayEnd
  <1>9. ASSUME NEW f \in Families, LoginEnds(f)
        PROVE  ServerGoesOn
    BY <1>4, <1>9 DEF LoginEnds
  <1>10. CASE UNCHANGED << opened, minted, current, familyOf >>
    BY <1>2, <1>10 DEF CurrentMayEnd
  <1>11. CASE SignOut \/ Kill \/ UNCHANGED vars
    BY <1>10, <1>11 DEF SignOut, Kill, vars
  <1>12. ASSUME NEW c \in Calls,
                \/ \E k \in {"profile", "delete"} : Call(c, k)
                \/ Lose(c) \/ Deliver(c) \/ Join(c) \/ StartRefresh(c) \/ DeadAtOnce(c)
                \/ StillRefused(c) \/ FailRefresh(c) \/ SettleRefreshed(c) \/ SettleDead(c)
                \/ SettleUnreachable(c)
         PROVE  UNCHANGED << opened, minted, current, familyOf >>
    BY <1>12 DEF Call, Lose, Deliver, Join, StartRefresh, DeadAtOnce, StillRefused, FailRefresh,
                 SettleRefreshed, SettleDead, SettleUnreachable
  <1>13. ASSUME NEW t \in Tokens, AccessLapses(t)
         PROVE  UNCHANGED << opened, minted, current, familyOf >>
    BY <1>13 DEF AccessLapses
  <1> QED
    BY <1>5, <1>6, <1>7, <1>8, <1>9, <1>10, <1>11, <1>12, <1>13
    DEF Next, Progress, RefreshProgress

\* What the server has ended or refused stays so.
LEMMA StaysDead ==
  ASSUME IInv, ExpiryOK, ServerGoesOn
  PROVE  /\ \A f \in gone : f \in opened' /\ current'[f] = None
         /\ \A c \in Calls : answer[c] = "rejected" =>
              current'[familyOf'[asked[c]]] # asked[c]
         /\ lapsed \subseteq minted'
         /\ \A c \in Calls : cred[c] # None => familyOf'[cred[c]] = familyOf[cred[c]]
PROOF
  <1>1. TypeOK /\ Owned /\ Flown
    BY DEF IInv
  <1>2. \A f \in gone : f \in opened' /\ current'[f] = None
    BY DEF ExpiryOK, DeletedOK, ServerGoesOn
  <1>3. ASSUME NEW c \in Calls, answer[c] = "rejected"
        PROVE  current'[familyOf'[asked[c]]] # asked[c]
    <2>1. asked[c] \in minted /\ familyOf'[asked[c]] = familyOf[asked[c]]
          /\ familyOf[asked[c]] \in opened
      BY <1>1, <1>3, FailuresAreNoTokens DEF Flown, FlightOK, Owned, MintOK, ServerGoesOn
    <2>2. asked[c] # None
      BY <1>1, <2>1, NoneIsNothing DEF TypeOK
    <2> QED
      BY <1>3, <2>1, <2>2 DEF ExpiryOK, RejectedOK, ServerGoesOn
  <1>4. lapsed \subseteq minted'
    BY DEF ExpiryOK, LapsedOK, ServerGoesOn
  <1>5. \A c \in Calls : cred[c] # None => familyOf'[cred[c]] = familyOf[cred[c]]
    BY <1>1 DEF Owned, CallsOK, ServerGoesOn
  <1> QED
    BY <1>2, <1>3, <1>4, <1>5

\* Calls and refreshes that go on as they are, or come to nothing.
LEMMA ExpiryFades ==
  ASSUME IInv, ExpiryOK, ServerGoesOn, UNCHANGED << gone, lapsed >>,
         \A c \in Calls :
           /\ stage'[c] \in {"resent", "refused"} => stage'[c] = stage[c] /\ cred'[c] = cred[c]
           /\ answer'[c] \in Tokens \cup {"rejected"} =>
                answer'[c] = answer[c] /\ asked'[c] = asked[c]
  PROVE  ExpiryOK'
PROOF
  <1>1. \A c \in Calls : stage[c] # "idle" => cred[c] # None
    BY DEF IInv, Owned, CallsOK
  <1>2. DeletedOK' /\ LapsedOK'
    BY StaysDead DEF DeletedOK, LapsedOK
  <1>3. RejectedOK'
    BY StaysDead DEF RejectedOK
  <1>4. BroughtOK'
    BY DEF ExpiryOK, BroughtOK
  <1>5. RefusedOK'
    BY <1>1, StaysDead DEF ExpiryOK, RefusedOK
  <1> QED
    BY <1>2, <1>3, <1>4, <1>5 DEF ExpiryOK

LEMMA ExpiryServe ==
  ASSUME IInv, ExpiryOK, NEW c \in Calls, Serve(c)
  PROVE  ExpiryOK'
PROOF
  <1>1. TypeOK /\ Owned /\ [Next]_vars
    BY DEF IInv, Next, Progress
  <1>2. ServerGoesOn
    BY <1>1, ServerMoves
  <1> USE DEF server, device, calls, flight
  <1>3. /\ stage[c] \in {"sent", "resent"}
        /\ UNCHANGED << familyOf, lapsed, cred, asked, answer >>
    BY DEF Serve
  <1>4. /\ cred[c] # None /\ cred[c] \in minted /\ familyOf[cred[c]] \in opened
        /\ familyOf[cred[c]] \in Families
    BY <1>1, <1>3 DEF Owned, CallsOK, MintOK, TypeOK
  <1>5. PICK s \in {"ok", "denied", "refused"} :
          /\ stage' = [stage EXCEPT ![c] = s]
          /\ s = "refused" => stage[c] = "resent" /\ ~ Accepts(c)
    BY <1>3 DEF Serve
  <1>6. \A d \in Calls : stage'[d] = IF d = c THEN s ELSE stage[d]
    BY <1>1, <1>5 DEF TypeOK
  <1>7. s = "refused" => familyOf[cred[c]] \in gone
    BY <1>4, <1>5 DEF Accepts, ExpiryOK, BroughtOK
  <1>8. /\ gone \subseteq gone'
        /\ \A f \in gone' : f \in gone \/ (f = familyOf[cred[c]] /\ current'[f] = None)
    BY <1>4 DEF Serve, Server!End
  <1>9. DeletedOK' /\ LapsedOK'
    BY <1>2, <1>3, <1>4, <1>8, StaysDead DEF DeletedOK, LapsedOK, ServerGoesOn
  <1>10. RejectedOK'
    BY <1>2, <1>3, StaysDead DEF RejectedOK
  <1>11. BroughtOK'
    BY <1>3, <1>6 DEF ExpiryOK, BroughtOK
  <1>12. RefusedOK'
    BY <1>3, <1>6, <1>7, <1>8 DEF ExpiryOK, RefusedOK
  <1> QED
    BY <1>9, <1>10, <1>11, <1>12 DEF ExpiryOK

LEMMA ExpiryServeRefresh ==
  ASSUME IInv, ExpiryOK, NEW c \in Calls, ServeRefresh(c)
  PROVE  ExpiryOK'
PROOF
  <1>1. TypeOK /\ Owned /\ Flown /\ [Next]_vars
    BY DEF IInv, Next, RefreshProgress
  <1>2. ServerGoesOn
    BY <1>1, ServerMoves
  <1> USE DEF server, device, calls, flight
  <1>3. /\ asked[c] # None /\ asked[c] \in minted
        /\ UNCHANGED << lapsed, gone, stage, cred, asked >>
    BY <1>1 DEF ServeRefresh, Refreshing, Flown, FlightOK
  <1>4. "rejected" \notin Tokens /\ None \notin Tokens
    BY FailuresAreNoTokens, NoneIsNothing
  <1>5. PICK a \in Tokens \cup {"rejected"} :
          /\ answer' = [answer EXCEPT ![c] = a]
          /\ a \in Tokens => a \notin minted
          /\ a = "rejected" => current'[familyOf'[asked[c]]] # asked[c]
    <2>1. CASE TokenLeft /\ answer' = [answer EXCEPT ![c] = NewToken]
      BY <1>1, <1>4, <2>1, FreshToken
    <2>2. CASE Reject(asked[c]) /\ answer' = [answer EXCEPT ![c] = "rejected"]
      <3>1. asked[c] \in Tokens /\ familyOf[asked[c]] \in Families
        BY <1>1, <1>3 DEF Owned, MintOK, TypeOK
      <3>2. current'[familyOf'[asked[c]]] = None
        BY <2>2, <3>1 DEF Reject, Server!End
      <3> QED
        BY <1>3, <1>4, <2>2, <3>2
    <2> QED
      BY <2>1, <2>2 DEF ServeRefresh
  <1>6. \A d \in Calls : answer'[d] = IF d = c THEN a ELSE answer[d]
    BY <1>1, <1>5 DEF TypeOK
  <1>7. DeletedOK' /\ LapsedOK' /\ RefusedOK'
    BY <1>1, <1>2, <1>3, StaysDead DEF DeletedOK, LapsedOK, ExpiryOK, RefusedOK, Owned, CallsOK
  <1>8. RejectedOK'
    BY <1>2, <1>3, <1>5, <1>6, StaysDead DEF RejectedOK
  <1>9. BroughtOK'
    BY <1>3, <1>5, <1>6 DEF ExpiryOK, BroughtOK, LapsedOK
  <1> QED
    BY <1>7, <1>8, <1>9 DEF ExpiryOK

LEMMA ExpirySettles ==
  ASSUME IInv, ExpiryOK, NEW c \in Calls, SettleRefreshed(c)
  PROVE  ExpiryOK'
PROOF
  <1>1. TypeOK /\ Owned /\ Flown /\ [Next]_vars
    BY DEF IInv, Next, RefreshProgress
  <1>2. ServerGoesOn
    BY <1>1, ServerMoves
  <1> USE DEF server, device, calls, flight
  <1>3. PICK W : W = Waiters(c)
    OBVIOUS
  <1>4. /\ answer[c] \in Tokens /\ Land(c)
        /\ stage' = [d \in Calls |-> IF d \in W THEN "resent" ELSE stage[d]]
        /\ cred'  = [d \in Calls |-> IF d \in W THEN answer[c] ELSE cred[d]]
        /\ UNCHANGED << opened, minted, current, familyOf, gone, lapsed >>
    BY <1>3 DEF SettleRefreshed, Refreshed
  <1>5. \A d \in Calls : answer'[d] \in Tokens \cup {"rejected"} =>
                           answer'[d] = answer[d] /\ asked'[d] = asked[d]
    BY <1>1, <1>4, LandType, NoneIsNothing, FailuresAreNoTokens
  <1>6. DeletedOK' /\ LapsedOK'
    BY <1>4 DEF ExpiryOK, DeletedOK, LapsedOK
  <1>7. RejectedOK'
    BY <1>4, <1>5 DEF ExpiryOK, RejectedOK
  <1>8. BroughtOK'
    BY <1>4, <1>5 DEF ExpiryOK, BroughtOK
  <1>9. RefusedOK'
    BY <1>4 DEF ExpiryOK, RefusedOK
  <1> QED
    BY <1>6, <1>7, <1>8, <1>9 DEF ExpiryOK

LEMMA ExpiryLapses ==
  ASSUME IInv, ExpiryOK, NEW t \in Tokens, AccessLapses(t)
  PROVE  ExpiryOK'
PROOF
  <1>1. TypeOK /\ Owned
    BY DEF IInv
  <1> USE DEF server, device, calls, flight
  <1>2. /\ lapsed' = lapsed \cup {t}
        /\ \A c \in Calls : answer[c] # t /\ (stage[c] = "resent" => cred[c] # t)
        /\ UNCHANGED << opened, minted, current, familyOf, gone, stage, cred, asked, answer >>
    BY DEF AccessLapses
  <1>3. t \in minted
    BY <1>1, NoneIsNothing DEF AccessLapses, Owned, HeldOK, CallsOK
  <1>4. LapsedOK' /\ BroughtOK'
    BY <1>2, <1>3 DEF ExpiryOK, LapsedOK, BroughtOK
  <1> QED
    BY <1>2, <1>4 DEF ExpiryOK, DeletedOK, RejectedOK, RefusedOK

LEMMA ExpiryKeeps ==
  ASSUME IInv, ExpiryOK, [Next]_vars
  PROVE  ExpiryOK'
PROOF
  <1>1. TypeOK /\ Owned /\ Flown
    BY DEF IInv
  <1>2. ServerGoesOn
    BY ServerMoves
  <1> USE DEF server, device, calls, flight
  <1>3. None \notin Tokens \cup {"rejected"} /\ "unreachable" \notin Tokens \cup {"rejected"}
    BY NoneIsNothing, FailuresAreNoTokens
  <1>4. CASE SignIn \/ SignOut \/ UNCHANGED vars
    BY <1>2, <1>4, ExpiryFades DEF SignIn, SignOut, vars
  <1>5. CASE Kill
    BY <1>2, <1>3, <1>5, ExpiryFades DEF Kill
  <1>6. ASSUME NEW c \in Calls, NEW k \in {"profile", "delete"}, Call(c, k)
        PROVE  ExpiryOK'
    <2>1. \A d \in Calls : stage'[d] \in {"resent", "refused"} =>
                             stage'[d] = stage[d] /\ cred'[d] = cred[d]
      BY <1>1, <1>6 DEF Call, TypeOK
    <2> QED
      BY <1>2, <1>6, <2>1, ExpiryFades DEF Call
  <1>7. ASSUME NEW c \in Calls,
               Lose(c) \/ Deliver(c) \/ DeadAtOnce(c) \/ StillRefused(c)
        PROVE  ExpiryOK'
    <2>1. Forget(c) /\ UNCHANGED << gone, lapsed, asked, answer >>
      BY <1>7 DEF Lose, Deliver, DeadAtOnce, StillRefused
    <2>2. \A d \in Calls : stage'[d] \in {"resent", "refused"} =>
                             stage'[d] = stage[d] /\ cred'[d] = cred[d]
      BY <1>1, <2>1, ForgetType
    <2> QED
      BY <1>2, <2>1, <2>2, ExpiryFades
  <1>8. ASSUME NEW c \in Calls, Join(c)
        PROVE  ExpiryOK'
    <2>1. /\ stage' = [stage EXCEPT ![c] = "waiting"]
          /\ UNCHANGED << gone, lapsed, cred, asked, answer >>
      BY <1>8 DEF Join
    <2>2. \A d \in Calls : stage'[d] \in {"resent", "refused"} => stage'[d] = stage[d]
      BY <1>1, <2>1 DEF TypeOK
    <2> QED
      BY <1>2, <2>1, <2>2, ExpiryFades
  <1>9. ASSUME NEW c \in Calls, StartRefresh(c)
        PROVE  ExpiryOK'
    <2>1. /\ stage' = [stage EXCEPT ![c] = "waiting"] /\ asked' = [asked EXCEPT ![c] = refresh]
          /\ UNCHANGED << gone, lapsed, cred, answer >>
      BY <1>9 DEF StartRefresh
    <2>2. \A d \in Calls : stage'[d] \in {"resent", "refused"} => stage'[d] = stage[d]
      BY <1>1, <2>1 DEF TypeOK
    <2>3. answer[c] = None
      BY <1>1, <1>9 DEF StartRefresh, InFlight, Refreshing, Flown, FlightOK
    <2>4. \A d \in Calls \ {c} : asked'[d] = asked[d]
      BY <1>1, <2>1 DEF TypeOK
    <2> QED
      BY <1>2, <1>3, <2>1, <2>2, <2>3, <2>4, ExpiryFades
  <1>10. ASSUME NEW c \in Calls, FailRefresh(c)
         PROVE  ExpiryOK'
    <2>1. /\ answer' = [answer EXCEPT ![c] = "unreachable"]
          /\ UNCHANGED << gone, lapsed, stage, cred, asked >>
      BY <1>10 DEF FailRefresh
    <2>2. \A d \in Calls : answer'[d] \in Tokens \cup {"rejected"} => answer'[d] = answer[d]
      BY <1>1, <1>3, <2>1 DEF TypeOK
    <2> QED
      BY <1>2, <2>1, <2>2, ExpiryFades
  <1>11. ASSUME NEW c \in Calls, SettleDead(c) \/ SettleUnreachable(c)
         PROVE  ExpiryOK'
    <2>1. EndWaiters(c) /\ Land(c) /\ UNCHANGED << gone, lapsed >>
      BY <1>11 DEF SettleDead, SettleUnreachable
    <2>2. \A d \in Calls : stage'[d] \in {"resent", "refused"} =>
                             stage'[d] = stage[d] /\ cred'[d] = cred[d]
      BY <1>1, <2>1, EndWaitersType
    <2>3. \A d \in Calls : answer'[d] \in Tokens \cup {"rejected"} =>
                             answer'[d] = answer[d] /\ asked'[d] = asked[d]
      BY <1>1, <1>3, <2>1, LandType
    <2> QED
      BY <1>2, <2>1, <2>2, <2>3, ExpiryFades
  <1>12. ASSUME NEW t \in Tokens, OrphanArrives(t)
         PROVE  ExpiryOK'
    BY <1>2, <1>12, ExpiryFades DEF OrphanArrives
  <1>13. ASSUME NEW f \in Families, LoginEnds(f)
         PROVE  ExpiryOK'
    BY <1>2, <1>13, ExpiryFades DEF LoginEnds
  <1> QED
    BY <1>4, <1>5, <1>6, <1>7, <1>8, <1>9, <1>10, <1>11, <1>12, <1>13, ExpiryServe,
       ExpiryServeRefresh, ExpirySettles, ExpiryLapses
    DEF Next, Progress, RefreshProgress

LEMMA ExpiryInvariance ==
  Spec => []ExpiryOK
PROOF
  <1>1. Init => ExpiryOK
    BY NoneIsNothing, FailuresAreNoTokens
    DEF Init, ExpiryOK, DeletedOK, RejectedOK, LapsedOK, BroughtOK, RefusedOK
  <1>2. IInv /\ ExpiryOK /\ [Next]_vars => ExpiryOK'
    BY ExpiryKeeps
  <1> QED
    BY <1>1, <1>2, Invariance, PTL DEF Spec

\* A session is only reported expired when it is: the server has ended it, rotated its
\* token behind the device's back, or deleted the account; except by a call or a refresh
\* that has outlived an earlier session.
THEOREM ExpiryIsReal ==
  Spec => OnlyDeadSessionsExpire
PROOF
  <1>1. ASSUME IInv, ExpiryOK, NEW c \in Calls, SettleDead(c), refresh # None, ~ Strays
        PROVE  current[Session] # refresh
    <2>1. asked[c] # None /\ answer[c] = "rejected"
      BY <1>1 DEF SettleDead, Refreshing, Dead
    <2>2. familyOf[asked[c]] = Session /\ Session = familyOf[refresh]
      BY <1>1, <2>1 DEF Strays, InFlight, Refreshing, Session
    <2>3. asked[c] = refresh
      BY <1>1, <2>1, <2>2 DEF IInv, Flown, AskedIsHeld
    <2> QED
      BY <1>1, <2>1, <2>2, <2>3 DEF ExpiryOK, RejectedOK
  <1>2. ASSUME IInv, ExpiryOK, NEW c \in Calls, StillRefused(c), refresh # None, ~ Strays
        PROVE  current[Session] # refresh
    <2>1. stage[c] = "refused"
      BY <1>2 DEF StillRefused
    <2>2. familyOf[cred[c]] = Session
      BY <1>2, <2>1 DEF Strays, IInv, Owned, CallsOK
    <2>3. current[Session] = None
      BY <1>2, <2>1, <2>2 DEF ExpiryOK, RefusedOK, DeletedOK
    <2> QED
      BY <1>2, <2>3
  <1>3. IInv /\ ExpiryOK =>
          [\A c \in Calls :
             (SettleDead(c) \/ StillRefused(c)) /\ refresh # None /\ refresh' = None
               => Strays \/ current[Session] # refresh]_vars
    BY <1>1, <1>2
  <1> QED
    BY <1>3, Invariance, ExpiryInvariance, PTL DEF OnlyDeadSessionsExpire
================================================================================
