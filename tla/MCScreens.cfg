CONSTANTS
  Languages = {pt, en, es}
  LanguageCalls = {c1}
  Unset = Unset
  Accounts = {a1, a2}
  Keys = {"planets", "gamification"}
  Mutations = {"bump", "complete", "review"}
  MaxVersion = 1
  Nobody = Nobody
  StoreKeys = {k1, k2, k3, k4}
  Boots = {b1, b2}
  MaxInstalls = 2
  NoKey = NoKey
  DeckCards = {d1, d2, d3}
  PlanetCards = {d1, d2}
  Decks = {"m"}
  CardsOf <- MCCardsOf
  Reviews = {o1, o2}
  NoDeck = NoDeck
  NoReview = NoReview
  LastPlanet = 3
  BlocksEach = 2
  Tabs = {"home", "planets", "lessons", "chat", "flashcards"}
  Behind = 1
  Ahead = 1
  Turns = {t1}
  ChatTasks = {o1, o2}
  MaxVisits = 1
  MaxConversations = 2
  Attempts = {o1, o2}
  LoginFields = {"password"}
  RegisterFields = {"email"}
  MaxStack = 2
  MaxFamilies = 2
  NoAttempt = NoAttempt
  Names = {n1, n2}
  NoName = NoName
  TutorVoices = {v1, v2}
  ProfileCalls = {c1}
  NoCall = NoCall
SPECIFICATION ScreensSpec
INVARIANTS TypeOK FreshIsOwn FreshShowsChanges NeverReusesStaleKey CredentialsSurvive
  CopiesAgree RatedCardGivesWayToTheNext OpensNothingLocked
  OneCelebrationPerUnlock KeptOncePerConversation NoSessionLeftBehind ShownIsKept
SYMMETRY Alike
CHECK_DEADLOCK FALSE
