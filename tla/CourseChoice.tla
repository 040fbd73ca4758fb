------------------------------- MODULE CourseChoice -------------------------------
(***************************************************************************)
(* Which course the learner is on: LanguagePickerScreen, LanguageSwitch,   *)
(* the auth store's persistUser and setLanguage, ProfileScreen's           *)
(* closeLanguagePicker and the server's set_language.                      *)
(*                                                                         *)
(* The course is kept four times: on the account, in the user the store    *)
(* holds, in plain storage (read before sign-in) and, its base, as the     *)
(* locale of the interface, named here by its base language.  Calls are    *)
(* served and answered in any order, or fail before or after being served. *)
(***************************************************************************)
EXTENDS Naturals

CONSTANTS
  Languages,        (* The languages taught and spoken.                       *)
  LanguageCalls,    (* Calls that can be out at once.                         *)
  Unset             (* Nothing stored, no user, no course.                    *)

Pairs == [base : Languages, target : Languages]

ASSUME UnsetIsNothing == Unset \notin Languages \cup Pairs

VARIABLES
  serverCourse,     (* The course of the account, on the server.              *)
  userCourse,       (* The course of the user the auth store holds.           *)
  stored,           (* The pair in plain storage.                             *)
  locale,           (* The interface language.                                *)
  signedIn,
  picker,           (* [open, speak, target]: the picker's own state.         *)
  asks,             (* Calls out: what each asks for, and its answer.         *)
  planetsOf,        (* The course of the cached planet list.                  *)
  planetsStale,     (* The planet list is marked for a refetch.               *)
  chosen,           (* History: the course last asked for while signed in.    *)
  muddled,          (* History: calls overlapped, or the last choice failed,  *)
                    (* or the picker opened with a call out.                  *)
  unseen            (* History: the course changed on the server with the     *)
                    (* picker closed and no fetch of the planets since.       *)

courseVars == << serverCourse, userCourse, stored, locale, signedIn, picker, asks, planetsOf,
                 planetsStale, chosen, muddled, unseen >>

Courses == {p \in Pairs : p.base # p.target}
Course(b, t) == [base |-> b, target |-> t]

\* TARGETS_BY_SPEAK: every other language.  The first listed is one of them.
Targets(speak) == Languages \ {speak}

NoAsk == [at |-> "none", want |-> Unset, got |-> Unset]
Out == {c \in LanguageCalls : asks[c].at # "none"}
Closed == [open |-> FALSE, speak |-> Unset, target |-> Unset]

\* The base a fresh picker shows: the account's, else the stored one, else the locale's.
SpeakFromStorage == IF stored = Unset THEN locale ELSE stored.base
InitialSpeak == IF userCourse # Unset THEN userCourse.base ELSE SpeakFromStorage

\* The stored target when the base still teaches it.
InitialTargets(speak) ==
  IF stored # Unset /\ stored.target \in Targets(speak) THEN {stored.target}
  ELSE Targets(speak)

CourseInit ==
  /\ serverCourse \in Courses
  /\ userCourse = Unset /\ stored = Unset /\ signedIn = FALSE
  /\ locale \in Languages                    \* detectLocale
  /\ picker = Closed
  /\ asks = [c \in LanguageCalls |-> NoAsk]
  /\ planetsOf = Unset /\ planetsStale = FALSE
  /\ chosen = Unset /\ muddled = FALSE /\ unseen = FALSE

\* A loaded user is written down in one place: all copies, and the locale with them.
PersistUser(u) ==
  /\ stored' = u
  /\ locale' = u.base

\* The history that CopiesAgree excepts, and what was chosen with it.
Muddles(now) ==
  /\ muddled' = (muddled \/ now)
  /\ chosen' = IF muddled' THEN Unset ELSE chosen

\* setLanguage sends the pair.
AskLanguage(c, course) ==
  /\ asks[c].at = "none"
  /\ asks' = [asks EXCEPT ![c] = [at |-> "sent", want |-> course, got |-> Unset]]
  /\ muddled' = (Out # {})
  /\ chosen' = IF muddled' THEN Unset ELSE course

OpenPicker ==
  /\ ~picker.open
  /\ \E t \in IF userCourse # Unset THEN {userCourse.target} ELSE InitialTargets(InitialSpeak) :
       picker' = [open |-> TRUE, speak |-> InitialSpeak, target |-> t]
  /\ Muddles(Out # {})
  /\ UNCHANGED << serverCourse, userCourse, stored, locale, signedIn, asks, planetsOf,
                  planetsStale, unseen >>

\* selectTarget: stored at once, and asked of the account when there is one.  The
\* first pair is what the learner sees picked, the second what the call sends.
SelectTarget(speak, code, course) ==
  /\ picker.open
  /\ picker' = [picker EXCEPT !.speak = speak, !.target = code]
  /\ stored' = course
  /\ IF signedIn
     THEN \E c \in LanguageCalls : AskLanguage(c, course)
     ELSE UNCHANGED << asks, chosen, muddled >>
  /\ UNCHANGED << serverCourse, userCourse, signedIn, planetsOf, planetsStale, unseen >>

\* selectSpeak passes the new base on: the picker's own is still the old one.
StaleBase(next) == picker.speak
BaseFor(next) == next

SelectSpeak(next) ==
  /\ locale' = next
  /\ \E t \in InitialTargets(next) : SelectTarget(next, t, Course(BaseFor(next), t))

PickTarget(code) ==
  /\ code \in Targets(picker.speak)
  /\ SelectTarget(picker.speak, code, Course(picker.speak, code))
  /\ UNCHANGED locale

\* closeLanguagePicker invalidates the planets.  Before sign-in none are cached.
CloseInvalidates == signedIn /\ planetsOf # Unset

ClosePicker ==
  /\ picker.open
  /\ picker' = Closed
  /\ planetsStale' = (planetsStale \/ CloseInvalidates)
  /\ UNCHANGED << serverCourse, userCourse, stored, locale, signedIn, asks, planetsOf, chosen,
                  muddled, unseen >>

\* LanguageSwitch: the next locale that is not the language being learned.
Cycle ==
  /\ signedIn /\ userCourse # Unset /\ ~picker.open
  /\ \E next \in Languages \ {locale, userCourse.target} :
       \E c \in LanguageCalls : AskLanguage(c, Course(next, userCourse.target))
  /\ UNCHANGED << serverCourse, userCourse, stored, locale, signedIn, picker, planetsOf,
                  planetsStale, unseen >>

\* setName, setVoice and setTimezone answer with the user too.
AskOther(c) ==
  /\ signedIn /\ asks[c].at = "none"
  /\ asks' = [asks EXCEPT ![c].at = "sent"]
  /\ Muddles(Out # {})
  /\ UNCHANGED << serverCourse, userCourse, stored, locale, signedIn, picker, planetsOf,
                  planetsStale, unseen >>

\* set_language, which refuses a base equal to the target.
Serve(c) ==
  /\ asks[c].at = "sent"
  /\ asks[c].want \in Courses \cup {Unset}
  /\ serverCourse' = IF asks[c].want = Unset THEN serverCourse ELSE asks[c].want
  /\ asks' = [asks EXCEPT ![c].at = "served", ![c].got = serverCourse']
  /\ unseen' = (unseen \/ (serverCourse' # serverCourse /\ ~picker.open))
  /\ UNCHANGED << userCourse, stored, locale, signedIn, picker, planetsOf, planetsStale,
                  chosen, muddled >>

\* setTimezone alone leaves the user the store shows as it was.
Answer(c) ==
  /\ asks[c].at = "served"
  /\ PersistUser(asks[c].got)
  /\ \/ userCourse' = asks[c].got
     \/ asks[c].want = Unset /\ UNCHANGED userCourse
  /\ asks' = [asks EXCEPT ![c] = NoAsk]
  /\ UNCHANGED << serverCourse, signedIn, picker, planetsOf, planetsStale, chosen, muddled,
                  unseen >>

\* Swallowed by its caller.
LanguageCallFails(c) ==
  /\ asks[c].at # "none"
  /\ asks' = [asks EXCEPT ![c] = NoAsk]
  /\ Muddles(asks[c].want # Unset)
  /\ UNCHANGED << serverCourse, userCourse, stored, locale, signedIn, picker, planetsOf,
                  planetsStale, unseen >>

\* A new account starts on the stored course, a returning one keeps its own.
SignInToCourse ==
  /\ ~signedIn /\ ~picker.open
  /\ signedIn' = TRUE
  /\ serverCourse' \in {serverCourse} \cup ({stored} \ {Unset})
  /\ PersistUser(serverCourse') /\ userCourse' = serverCourse'
  /\ UNCHANGED << picker, asks, planetsOf, planetsStale, chosen, muddled, unseen >>

\* A screen that shows the planets mounts, or the mark is acted upon.
FetchPlanets ==
  /\ signedIn /\ ~picker.open
  /\ planetsOf = Unset \/ planetsStale
  /\ planetsOf' = serverCourse /\ planetsStale' = FALSE /\ unseen' = FALSE
  /\ UNCHANGED << serverCourse, userCourse, stored, locale, signedIn, picker, asks, chosen,
                  muddled >>

CourseNext ==
  \/ OpenPicker
  \/ \E next \in Languages : SelectSpeak(next)
  \/ \E code \in Languages : PickTarget(code)
  \/ ClosePicker
  \/ Cycle
  \/ \E c \in LanguageCalls : AskOther(c)
  \/ \E c \in LanguageCalls : Serve(c)
  \/ \E c \in LanguageCalls : Answer(c)
  \/ \E c \in LanguageCalls : LanguageCallFails(c)
  \/ SignInToCourse
  \/ FetchPlanets

CourseSpec == CourseInit /\ [][CourseNext]_courseVars

CourseTypeOK ==
  /\ serverCourse \in Courses /\ userCourse \in Courses \cup {Unset} /\ stored \in Courses \cup {Unset}
  /\ locale \in Languages
  /\ picker \in [open : BOOLEAN, speak : Languages \cup {Unset}, target : Languages \cup {Unset}]
  /\ asks \in [LanguageCalls -> [at : {"none", "sent", "served"}, want : Pairs \cup {Unset},
                                 got : Courses \cup {Unset}]]
  /\ planetsOf \in Courses \cup {Unset} /\ chosen \in Pairs \cup {Unset}
  /\ signedIn \in BOOLEAN /\ planetsStale \in BOOLEAN /\ muddled \in BOOLEAN /\ unseen \in BOOLEAN

(***************************************************************************)
(* Properties                                                              *)
(***************************************************************************)

\* Once every call has been answered the four copies agree on the course the
\* learner last picked, the locale and an open picker included, however the base,
\* the target and the switch were used and whatever other calls answered with the
\* user, as long as no two calls overlapped, the picker was not opened under one and
\* the last choice did not fail; and with the picker closed, a planet list not marked
\* stale is the account's course, unless the course changed after it was closed.
CopiesAgree ==
  /\ signedIn /\ Out = {} /\ ~muddled =>
       /\ userCourse = serverCourse /\ stored = serverCourse
       /\ locale = serverCourse.base
       /\ chosen # Unset => serverCourse = chosen
       /\ picker.open => Course(picker.speak, picker.target) = serverCourse
  /\ ~picker.open /\ ~planetsStale /\ ~unseen => planetsOf \in {Unset, serverCourse}
=============================================================================
