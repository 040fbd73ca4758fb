------------------------------- MODULE MCScreens -------------------------------
(***************************************************************************)
(* One instance of every component of the app that shares no variable with *)
(* the others, run one at a time: a behaviour chooses its component first, *)
(* and the rest of the app stands still.  What holds of these behaviours   *)
(* holds of each component alone, and so of them side by side.             *)
(***************************************************************************)
EXTENDS CourseChoice, QueryCache, SecureStore, MCDeckSession, Journey, LessonChat,
        SignIn, Profile, TLC

VARIABLE part

Parts == {"course", "cache", "store", "deck", "journey", "chat", "signIn", "profile"}

\* Calls under way are alike, in every component that names them so; and so are the
\* cards a planet has, and those it does not have.
Alike == Permutations(Attempts) \cup Permutations(PlanetCards)
           \cup Permutations(DeckCards \ PlanetCards)

\* Where a component may start in several ways, one that stands still takes one.
Takes(p, now, starts) == part = p \/ now = CHOOSE s \in starts : TRUE

ScreensInit ==
  /\ part \in Parts
  /\ CourseInit  /\ Takes("course", << serverCourse, locale >>, Courses \X Languages)
  /\ CacheInit
  /\ StoreInit   /\ Takes("store", plain, BOOLEAN)
  /\ DeckInit    /\ Takes("deck", << dueOnServer, deck >>,
                          SetToAllKPermutations(DeckCards) \X {NoDeck})
  /\ JourneyInit /\ Takes("journey", done, [Planets -> 0 .. EachModule])
  /\ ChatInit    /\ Takes("chat", primerSeen, BOOLEAN)
  /\ SignInInit  /\ Takes("signIn", account, BOOLEAN)
  /\ ProfileInit /\ Takes("profile", serverUser, Users)

Rest ==
  /\ part # "course"  => UNCHANGED courseVars
  /\ part # "cache"   => UNCHANGED cacheVars
  /\ part # "store"   => UNCHANGED storeVars
  /\ part # "deck"    => UNCHANGED deckVars
  /\ part # "journey" => UNCHANGED journeyVars
  /\ part # "chat"    => UNCHANGED chatVars
  /\ part # "signIn"  => UNCHANGED signInVars
  /\ part # "profile" => UNCHANGED profileVars
  /\ UNCHANGED part

ScreensNext ==
  \/ part = "course"  /\ CourseNext  /\ Rest
  \/ part = "cache"   /\ CacheNext   /\ Rest
  \/ part = "store"   /\ StoreNext   /\ Rest
  \/ part = "deck"    /\ DeckNext    /\ Rest
  \/ part = "journey" /\ JourneyNext /\ Rest
  \/ part = "chat"    /\ ChatNext    /\ Rest
  \/ part = "signIn"  /\ SignInNext  /\ Rest
  \/ part = "profile" /\ ProfileNext /\ Rest

screensVars == << part, courseVars, cacheVars, storeVars, deckVars, journeyVars,
                  chatVars, signInVars, profileVars >>

ScreensSpec == ScreensInit /\ [][ScreensNext]_screensVars

\* Every variable of the component that runs keeps its type.
TypeOK ==
  CASE part = "course"  -> CourseTypeOK
    [] part = "cache"   -> CacheTypeOK
    [] part = "store"   -> StoreTypeOK
    [] part = "deck"    -> DeckTypeOK
    [] part = "journey" -> JourneyTypeOK
    [] part = "chat"    -> ChatTypeOK
    [] part = "signIn"  -> SignInTypeOK
    [] part = "profile" -> ProfileTypeOK
=============================================================================
