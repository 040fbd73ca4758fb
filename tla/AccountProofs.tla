----------------------------- MODULE AccountProofs -----------------------------
(***************************************************************************)
(* What holds of the account on the device: of the secure store for any    *)
(* number of keys, boots and installations, of the sign-in screens for any *)
(* number of attempts, of the profile for every set of names and voices,   *)
(* of the course for every set of languages and courses, and of the query  *)
(* cache for every set of accounts and query keys, all the mutations, and  *)
(* any number of changes.                                                  *)
(***************************************************************************)
EXTENDS SecureStore, SignIn, Profile, CourseChoice, QueryCache, SequenceTheorems, TLAPS

(***************************************************************************)
(* The secure store: the inductive invariant                               *)
(***************************************************************************)

Opening  == {"load", "draw", "drawn", "rotate", "clean"}
Migrates == {"copy", "erase"}

OneBoot == \A b, c \in Boots : boot[b].at # "idle" /\ boot[c].at # "idle" => b = c

\* Until a boot opens the store nothing else does; the key it has drawn is the one in
\* the Keychain and of this installation; and when it goes to draw one, no file that
\* the key held before could open keeps the session.
RunOK(b) ==
  /\ boot[b].at \in Opening => ~Ready
  /\ boot[b].at \in Migrates => Ready /\ rekey = Idle /\ file # NoKey
  /\ boot[b].at \in {"drawn", "clean"}
       => boot[b].key = keychain /\ keychain \in StoreKeys /\ drawnIn[keychain] = install
  /\ boot[b].at \in {"draw", "drawn", "rotate", "clean"} => (owed => plain)

\* A re-key under way has its key in the Keychain already, and the file is whole.
RekeyOK ==
  rekey = Idle \/ /\ rekey.at = "swap" /\ Ready
                  /\ rekey.key = keychain /\ keychain \in StoreKeys
                  /\ drawnIn[keychain] = install
                  /\ file # NoKey /\ file.sentinel

\* An uninstallation takes the file with it.
FileIsFresh == file # NoKey => drawnIn[file.key] = install

KeysOK  == FileIsFresh /\ HandleMatchesKeychain /\ NeverReusesStaleKey
BootsOK == OneBoot /\ \A b \in Boots : RunOK(b)

StoreInv == StoreTypeOK /\ BootsOK /\ RekeyOK /\ KeysOK /\ CredentialsSurvive

(***************************************************************************)
(* Lemmas                                                                  *)
(***************************************************************************)

LEMMA FreshKeyIsFresh ==
  ASSUME KeyLeft
  PROVE  FreshKey \in StoreKeys /\ drawnIn[FreshKey] = 0
PROOF
  BY DEF KeyLeft, FreshKey

\* One boot runs: a step of it leaves the others idle.
LEMMA BootMoves ==
  ASSUME StoreTypeOK, OneBoot, NEW b \in Boots,
         \A c \in Boots : boot[c].at # "idle" => c = b,
         NEW r \in StoreRuns, boot' = [boot EXCEPT ![b] = r]
  PROVE  /\ boot' \in [Boots -> StoreRuns]
         /\ boot'[b] = r
         /\ \A c \in Boots \ {b} : boot'[c].at = "idle"
         /\ OneBoot'
PROOF
  <1>1. boot \in [Boots -> StoreRuns]
    BY DEF StoreTypeOK
  <1>2. boot' \in [Boots -> StoreRuns] /\ boot'[b] = r
    BY <1>1
  <1>3. \A c \in Boots \ {b} : boot'[c].at = "idle"
    BY <1>1
  <1> QED
    BY <1>2, <1>3 DEF OneBoot

LEMMA IdleRuns == Idle \in StoreRuns /\ Idle.at = "idle"
PROOF
  BY DEF Idle, StoreRuns

RunStages == {"idle", "load", "draw", "drawn", "rotate", "clean", "copy", "erase", "swap"}

\* A run with its stage changed is a run.
LEMMA RunAt ==
  ASSUME NEW s \in StoreRuns, NEW a \in RunStages
  PROVE  LET r == [s EXCEPT !.at = a]
         IN  r \in StoreRuns /\ r.at = a /\ r.key = s.key
PROOF
  BY DEF StoreRuns, RunStages

LEMMA NewFile ==
  ASSUME NEW k \in StoreKeys, NEW c \in BOOLEAN
  PROVE  /\ File(k, TRUE, c) \in Files /\ File(k, TRUE, c) # NoKey
         /\ File(k, TRUE, c).key = k /\ File(k, TRUE, c).sentinel /\ File(k, TRUE, c).cred = c
PROOF
  <1>1. File(k, TRUE, c) \in Files
    BY DEF File, Files
  <1>2. /\ File(k, TRUE, c).key = k
        /\ File(k, TRUE, c).sentinel = TRUE
        /\ File(k, TRUE, c).cred = c
    BY DEF File
  <1> QED
    BY <1>1, <1>2, NoKeyIsNothing

\* Drawing a key touches no key that was drawn before.
LEMMA DrawnStays ==
  ASSUME StoreTypeOK, KeyLeft, drawnIn' = [drawnIn EXCEPT ![FreshKey] = install]
  PROVE  /\ drawnIn' \in [StoreKeys -> 0 .. MaxInstalls]
         /\ drawnIn'[FreshKey] = install
         /\ \A k \in StoreKeys : drawnIn[k] = install => drawnIn'[k] = install
PROOF
  BY FreshKeyIsFresh, InstalledOnce DEF StoreTypeOK

(***************************************************************************)
(* The invariant is inductive                                              *)
(***************************************************************************)

LEMMA StoreBegins ==
  StoreInit => StoreInv
PROOF
  <1> SUFFICES ASSUME StoreInit PROVE StoreInv
    OBVIOUS
  <1> USE IdleRuns DEF StoreInit
  <1>1. StoreTypeOK
    BY InstalledOnce DEF StoreTypeOK
  <1>2. BootsOK
    BY DEF BootsOK, OneBoot, RunOK, Opening, Migrates
  <1>3. RekeyOK /\ KeysOK /\ CredentialsSurvive
    BY DEF RekeyOK, KeysOK, FileIsFresh, HandleMatchesKeychain, NeverReusesStaleKey,
           CredentialsSurvive, Ready
  <1> QED
    BY <1>1, <1>2, <1>3 DEF StoreInv

LEMMA BootInv ==
  ASSUME StoreInv, NEW b \in Boots, Boot(b)
  PROVE  StoreInv'
PROOF
  <1>1. PICK r : r = [Idle EXCEPT !.at = "load"]
    OBVIOUS
  <1>2. r \in StoreRuns /\ r.at = "load"
    BY <1>1 DEF Idle, StoreRuns
  <1>3. \A c \in Boots : boot[c].at # "idle" => c = b
    BY DEF Boot, MayBoot
  <1>4. /\ boot' \in [Boots -> StoreRuns] /\ boot'[b] = r
        /\ \A c \in Boots \ {b} : boot'[c].at = "idle"
        /\ OneBoot'
    BY <1>1, <1>2, <1>3, BootMoves DEF Boot, StoreInv, BootsOK
  <1>5. UNCHANGED << keychain, file, plain, secureStorage, rekey, install, drawnIn, owed >>
    BY DEF Boot
  <1>6. StoreTypeOK'
    BY <1>4, <1>5 DEF StoreInv, StoreTypeOK
  <1>7. \A c \in Boots : RunOK(c)'
    BY <1>2, <1>4, <1>5 DEF RunOK, Opening, Migrates, Boot, Ready
  <1>8. (RekeyOK /\ KeysOK /\ CredentialsSurvive)'
    BY <1>5 DEF StoreInv, RekeyOK, KeysOK, FileIsFresh, HandleMatchesKeychain,
           NeverReusesStaleKey, CredentialsSurvive, Ready
  <1> QED
    BY <1>4, <1>6, <1>7, <1>8 DEF StoreInv, BootsOK

\* The others are idle, and stay out of the way.
LEMMA Others ==
  ASSUME StoreInv, NEW b \in Boots, boot[b].at # "idle"
  PROVE  /\ \A c \in Boots : boot[c].at # "idle" => c = b
         /\ boot \in [Boots -> StoreRuns]
         /\ RunOK(b)
PROOF
  BY DEF StoreInv, BootsOK, OneBoot, StoreTypeOK

\* createMMKV and the sentinel: the file opens under its own key, or is given up.
LEMMA OpenInv ==
  ASSUME StoreInv, NEW b \in Boots, NEW k \in StoreKeys, NEW had \in BOOLEAN,
         boot[b].at \in {"load", "drawn"},
         k = keychain, ~had => drawnIn[k] = install /\ (owed => plain),
         Open(b, k, had),
         UNCHANGED << keychain, file, plain, rekey, install, drawnIn, owed >>
  PROVE  StoreInv'
PROOF
  <1>0. PICK a : a = IF Opens(k) THEN "copy" ELSE AfterMismatch(had)
    OBVIOUS
  <1>a. a \in RunStages
    BY <1>0 DEF AfterMismatch, RunStages
  <1>b. PICK r : r = [at |-> a, key |-> k, hadKey |-> had]
    OBVIOUS
  <1>1. /\ r = [at |-> IF Opens(k) THEN "copy" ELSE AfterMismatch(had), key |-> k, hadKey |-> had]
        /\ r \in StoreRuns /\ r.at = a /\ r.key = k
    BY <1>0, <1>a, <1>b DEF StoreRuns, RunStages
  <1>2. /\ \A c \in Boots : boot[c].at # "idle" => c = b
        /\ ~Ready
    BY Others DEF RunOK, Opening
  <1>3. rekey = Idle
    BY <1>2 DEF StoreInv, RekeyOK
  <1>4. /\ boot' \in [Boots -> StoreRuns] /\ boot'[b] = r
        /\ \A c \in Boots \ {b} : boot'[c].at = "idle"
        /\ OneBoot'
    BY <1>1, <1>2, BootMoves DEF Open, StoreInv, BootsOK
  <1>5. CASE Opens(k)
    <2>1. r.at = "copy" /\ secureStorage' = k /\ file # NoKey /\ file.key = k /\ file.sentinel
      BY <1>0, <1>1, <1>5 DEF Open, Opens
    <2>2. StoreTypeOK'
      BY <1>4, <2>1 DEF StoreInv, StoreTypeOK
    <2>3. \A c \in Boots : RunOK(c)'
      BY <1>3, <1>4, <2>1, NoKeyIsNothing DEF RunOK, Opening, Migrates, Ready
    <2>4. RekeyOK' /\ CredentialsSurvive'
      BY <1>3 DEF RekeyOK, CredentialsSurvive, StoreInv
    <2>5. KeysOK'
      BY <2>1 DEF StoreInv, KeysOK, FileIsFresh, HandleMatchesKeychain, NeverReusesStaleKey
    <2> QED
      BY <1>4, <2>2, <2>3, <2>4, <2>5 DEF StoreInv, BootsOK
  <1>6. CASE ~Opens(k)
    <2>1. r.at = (IF had THEN "rotate" ELSE "clean") /\ r.key = k
          /\ secureStorage' = secureStorage
      BY <1>0, <1>1, <1>6 DEF Open, AfterMismatch
    <2>2. owed => plain
      BY <1>3, <1>6 DEF StoreInv, CredentialsSurvive, Opens, Idle
    <2>3. StoreTypeOK'
      BY <1>4, <2>1 DEF StoreInv, StoreTypeOK
    <2>4. \A c \in Boots : RunOK(c)'
      BY <1>2, <1>4, <2>1, <2>2 DEF RunOK, Opening, Migrates, Ready
    <2>5. RekeyOK' /\ CredentialsSurvive'
      BY <1>3 DEF RekeyOK, CredentialsSurvive, StoreInv
    <2>6. KeysOK'
      BY <2>1 DEF StoreInv, KeysOK, FileIsFresh, HandleMatchesKeychain, NeverReusesStaleKey, Ready
    <2> QED
      BY <1>4, <2>3, <2>4, <2>5, <2>6 DEF StoreInv, BootsOK
  <1> QED
    BY <1>5, <1>6

LEMMA LoadKeyInv ==
  ASSUME StoreInv, NEW b \in Boots, LoadKey(b)
  PROVE  StoreInv'
PROOF
  <1>1. CASE keychain # NoKey
    <2>1. keychain \in StoreKeys
      BY <1>1 DEF StoreInv, StoreTypeOK
    <2> QED
      BY <1>1, <2>1, OpenInv DEF LoadKey
  <1>2. CASE keychain = NoKey
    <2>1. boot' = [boot EXCEPT ![b] = [boot[b] EXCEPT !.at = "draw"]]
          /\ boot[b].at = "load"
          /\ UNCHANGED << keychain, file, plain, secureStorage, rekey, install, drawnIn, owed >>
      BY <1>2 DEF LoadKey
    <2>2. /\ \A c \in Boots : boot[c].at # "idle" => c = b
          /\ ~Ready /\ boot[b] \in StoreRuns
      BY <2>1, Others DEF RunOK, Opening
    <2>a. PICK r : r = [boot[b] EXCEPT !.at = "draw"]
      OBVIOUS
    <2>3. r = [boot[b] EXCEPT !.at = "draw"] /\ r \in StoreRuns /\ r.at = "draw"
      BY <2>2, <2>a, RunAt DEF RunStages
    <2>4. /\ boot' \in [Boots -> StoreRuns] /\ boot'[b] = r
          /\ \A c \in Boots \ {b} : boot'[c].at = "idle"
          /\ OneBoot'
      BY <2>1, <2>2, <2>3, BootMoves DEF StoreInv, BootsOK
    <2>5. owed => plain
      <3>1. rekey = Idle
        BY <2>2 DEF StoreInv, RekeyOK
      <3>2. file # NoKey => file.key # NoKey
        BY NoKeyIsNothing DEF StoreInv, StoreTypeOK, Files
      <3> QED
        BY <1>2, <3>1, <3>2 DEF StoreInv, CredentialsSurvive, Idle
    <2>6. StoreTypeOK'
      BY <2>1, <2>4 DEF StoreInv, StoreTypeOK
    <2>7. \A c \in Boots : RunOK(c)'
      BY <2>1, <2>2, <2>3, <2>4, <2>5 DEF RunOK, Opening, Migrates, Ready
    <2>8. (RekeyOK /\ KeysOK /\ CredentialsSurvive)'
      BY <2>1 DEF StoreInv, RekeyOK, KeysOK, FileIsFresh, HandleMatchesKeychain,
             NeverReusesStaleKey, CredentialsSurvive, Ready
    <2> QED
      BY <2>4, <2>6, <2>7, <2>8 DEF StoreInv, BootsOK
  <1> QED
    BY <1>1, <1>2

LEMMA FirstOpenInv ==
  ASSUME StoreInv, NEW b \in Boots, FirstOpen(b)
  PROVE  StoreInv'
PROOF
  <1>1. boot[b].at = "drawn"
    BY DEF FirstOpen
  <1>2. /\ boot[b].key = keychain /\ keychain \in StoreKeys
        /\ drawnIn[keychain] = install /\ (owed => plain)
    BY <1>1, Others DEF RunOK
  <1> QED
    BY <1>1, <1>2, OpenInv DEF FirstOpen

LEMMA DrawKeyInv ==
  ASSUME StoreInv, NEW b \in Boots, DrawKey(b)
  PROVE  StoreInv'
PROOF
  <1>0. /\ boot[b].at \in {"draw", "rotate"} /\ KeyLeft
        /\ keychain' = FreshKey
        /\ drawnIn' = [drawnIn EXCEPT ![FreshKey] = install]
        /\ UNCHANGED << file, plain, secureStorage, rekey, install, owed >>
    BY DEF DrawKey
  <1>1. /\ \A c \in Boots : boot[c].at # "idle" => c = b
        /\ ~Ready /\ boot[b] \in StoreRuns /\ boot \in [Boots -> StoreRuns]
        /\ owed => plain
    BY <1>0, Others DEF RunOK, Opening
  <1>2. FreshKey \in StoreKeys /\ drawnIn[FreshKey] = 0
    BY <1>0, FreshKeyIsFresh
  <1>a. PICK next : next = IF boot[b].at = "draw" THEN "drawn" ELSE "clean"
    OBVIOUS
  <1>b. PICK r : r = [boot[b] EXCEPT !.at = next, !.key = FreshKey]
    OBVIOUS
  <1>c. next \in {"drawn", "clean"}
    BY <1>a
  <1>3. r \in StoreRuns /\ r.at \in {"drawn", "clean"} /\ r.key = FreshKey
    BY <1>1, <1>2, <1>b, <1>c DEF StoreRuns
  <1>4. boot' = [boot EXCEPT ![b] = r]
    BY <1>a, <1>b DEF DrawKey
  <1>5. /\ boot' \in [Boots -> StoreRuns] /\ boot'[b] = r
        /\ \A c \in Boots \ {b} : boot'[c].at = "idle"
        /\ OneBoot'
    BY <1>1, <1>3, <1>4, BootMoves DEF StoreInv, BootsOK
  <1>6. /\ drawnIn' \in [StoreKeys -> 0 .. MaxInstalls] /\ drawnIn'[FreshKey] = install
        /\ \A k \in StoreKeys : drawnIn[k] = install => drawnIn'[k] = install
    BY <1>0, DrawnStays DEF StoreInv
  <1>7. StoreTypeOK'
    BY <1>0, <1>2, <1>5, <1>6 DEF StoreInv, StoreTypeOK
  <1>8. \A c \in Boots : RunOK(c)'
    BY <1>0, <1>1, <1>2, <1>3, <1>5, <1>6 DEF RunOK, Opening, Migrates, Ready
  <1>9. rekey = Idle
    BY <1>1 DEF StoreInv, RekeyOK
  <1>10. RekeyOK' /\ CredentialsSurvive'
    BY <1>0, <1>1, <1>9 DEF RekeyOK, CredentialsSurvive
  <1>11. KeysOK'
    BY <1>0, <1>1, <1>6 DEF StoreInv, KeysOK, FileIsFresh, HandleMatchesKeychain,
           NeverReusesStaleKey, Ready, StoreTypeOK, Files
  <1> QED
    BY <1>5, <1>7, <1>8, <1>10, <1>11 DEF StoreInv, BootsOK

LEMMA RecreateInv ==
  ASSUME StoreInv, NEW b \in Boots, Recreate(b)
  PROVE  StoreInv'
PROOF
  <1>0. /\ boot[b].at = "clean"
        /\ file' = File(boot[b].key, TRUE, FALSE) /\ secureStorage' = boot[b].key
        /\ boot' = [boot EXCEPT ![b] = [boot[b] EXCEPT !.at = "copy"]]
        /\ UNCHANGED << keychain, plain, rekey, install, drawnIn, owed >>
    BY DEF Recreate
  <1>1. /\ \A c \in Boots : boot[c].at # "idle" => c = b
        /\ ~Ready /\ boot[b] \in StoreRuns
        /\ boot[b].key = keychain /\ keychain \in StoreKeys
        /\ drawnIn[keychain] = install /\ (owed => plain)
    BY <1>0, Others DEF RunOK, Opening
  <1>a. PICK r : r = [boot[b] EXCEPT !.at = "copy"]
    OBVIOUS
  <1>2. r = [boot[b] EXCEPT !.at = "copy"] /\ r \in StoreRuns /\ r.at = "copy"
    BY <1>1, <1>a, RunAt DEF RunStages
  <1>3. /\ boot' \in [Boots -> StoreRuns] /\ boot'[b] = r
        /\ \A c \in Boots \ {b} : boot'[c].at = "idle"
        /\ OneBoot'
    BY <1>0, <1>1, <1>2, BootMoves DEF StoreInv, BootsOK
  <1>4. rekey = Idle
    BY <1>1 DEF StoreInv, RekeyOK
  <1>5. file' \in Files /\ file'.key = keychain /\ file'.sentinel /\ file' # NoKey
    BY <1>0, <1>1, NewFile
  <1>6. StoreTypeOK'
    BY <1>0, <1>1, <1>3, <1>5 DEF StoreInv, StoreTypeOK
  <1>7. \A c \in Boots : RunOK(c)'
    BY <1>0, <1>1, <1>2, <1>3, <1>4, <1>5, NoKeyIsNothing DEF RunOK, Opening, Migrates, Ready
  <1>8. RekeyOK' /\ CredentialsSurvive'
    BY <1>0, <1>1, <1>4 DEF RekeyOK, CredentialsSurvive
  <1>9. KeysOK'
    BY <1>0, <1>1, <1>5 DEF KeysOK, FileIsFresh, HandleMatchesKeychain, NeverReusesStaleKey
  <1> QED
    BY <1>3, <1>6, <1>7, <1>8, <1>9 DEF StoreInv, BootsOK

LEMMA BootFailsInv ==
  ASSUME StoreInv, NEW b \in Boots, BootFails(b)
  PROVE  StoreInv'
PROOF
  <1>0. /\ boot[b].at \in {"load", "draw", "rotate", "clean"}
        /\ file' = IF boot[b].at = "clean" THEN NoKey ELSE file
        /\ boot' = [boot EXCEPT ![b] = Idle]
        /\ UNCHANGED << keychain, plain, secureStorage, rekey, install, drawnIn, owed >>
    BY DEF BootFails
  <1>1. /\ \A c \in Boots : boot[c].at # "idle" => c = b
        /\ ~Ready
        /\ boot[b].at = "clean" => (owed => plain)
    BY <1>0, Others DEF RunOK, Opening
  <1>2. /\ boot' \in [Boots -> StoreRuns] /\ boot'[b] = Idle
        /\ \A c \in Boots \ {b} : boot'[c].at = "idle"
        /\ OneBoot'
    BY <1>0, <1>1, IdleRuns, BootMoves DEF StoreInv, BootsOK
  <1>3. rekey = Idle
    BY <1>1 DEF StoreInv, RekeyOK
  <1>4. StoreTypeOK'
    BY <1>0, <1>2 DEF StoreInv, StoreTypeOK
  <1>5. \A c \in Boots : RunOK(c)'
    BY <1>2, IdleRuns DEF RunOK, Opening, Migrates
  <1>6. RekeyOK' /\ CredentialsSurvive'
    BY <1>0, <1>1, <1>3 DEF RekeyOK, CredentialsSurvive, StoreInv
  <1>7. KeysOK'
    BY <1>0, <1>1 DEF StoreInv, KeysOK, FileIsFresh, HandleMatchesKeychain,
           NeverReusesStaleKey, Ready
  <1> QED
    BY <1>2, <1>4, <1>5, <1>6, <1>7 DEF StoreInv, BootsOK

LEMMA MigrateInv ==
  ASSUME StoreInv, NEW b \in Boots, MigrateLegacyCredentials(b)
  PROVE  StoreInv'
PROOF
  <1>0. /\ boot[b].at \in {"copy", "erase"}
        /\ file' = [file EXCEPT !.cred = file.cred \/ plain]
        /\ plain' = (plain /\ boot[b].at = "copy")
        /\ boot' = [boot EXCEPT ![b] = IF boot[b].at = "copy"
                                       THEN [boot[b] EXCEPT !.at = "erase"] ELSE Idle]
        /\ UNCHANGED << keychain, secureStorage, rekey, install, drawnIn, owed >>
    BY DEF MigrateLegacyCredentials
  <1>1. /\ \A c \in Boots : boot[c].at # "idle" => c = b
        /\ Ready /\ rekey = Idle /\ file # NoKey /\ boot[b] \in StoreRuns
    BY <1>0, Others DEF RunOK, Migrates
  <1>a. PICK r : r = IF boot[b].at = "copy" THEN [boot[b] EXCEPT !.at = "erase"] ELSE Idle
    OBVIOUS
  <1>b. [boot[b] EXCEPT !.at = "erase"] \in StoreRuns /\ [boot[b] EXCEPT !.at = "erase"].at = "erase"
    BY <1>1, RunAt DEF RunStages
  <1>2. /\ r = IF boot[b].at = "copy" THEN [boot[b] EXCEPT !.at = "erase"] ELSE Idle
        /\ r \in StoreRuns /\ r.at \in {"erase", "idle"}
    BY <1>a, <1>b, IdleRuns
  <1>3. /\ boot' \in [Boots -> StoreRuns] /\ boot'[b] = r
        /\ \A c \in Boots \ {b} : boot'[c].at = "idle"
        /\ OneBoot'
    BY <1>0, <1>1, <1>2, BootMoves DEF StoreInv, BootsOK
  <1>4. /\ file \in Files /\ file.sentinel /\ file.key = keychain /\ secureStorage = keychain
    BY <1>1 DEF StoreInv, StoreTypeOK, KeysOK, HandleMatchesKeychain
  <1>5. /\ file' \in Files /\ file' # NoKey
        /\ file'.sentinel = file.sentinel /\ file'.key = file.key
        /\ file'.cred = (file.cred \/ plain)
    BY <1>0, <1>4, NoKeyIsNothing DEF Files, StoreInv, StoreTypeOK
  <1>6. StoreTypeOK'
    BY <1>0, <1>3, <1>5 DEF StoreInv, StoreTypeOK
  <1>7. \A c \in Boots : RunOK(c)'
    BY <1>0, <1>1, <1>2, <1>3, <1>5 DEF RunOK, Opening, Migrates, Ready
  <1>8. RekeyOK'
    BY <1>0, <1>1 DEF RekeyOK
  <1>9. CredentialsSurvive'
    <2>1. owed => file.cred \/ plain
      BY DEF StoreInv, CredentialsSurvive
    <2> QED
      BY <1>0, <1>4, <1>5, <2>1 DEF CredentialsSurvive
  <1>10. KeysOK'
    <2>1. drawnIn[keychain] = install
      BY <1>1, <1>4 DEF StoreInv, KeysOK, NeverReusesStaleKey
    <2>2. /\ file'.key = keychain' /\ secureStorage' = keychain' /\ drawnIn'[keychain'] = install'
          /\ file'.sentinel
      BY <1>0, <1>4, <1>5, <2>1
    <2> QED
      BY <2>2 DEF KeysOK, FileIsFresh, HandleMatchesKeychain, NeverReusesStaleKey
  <1> QED
    BY <1>3, <1>6, <1>7, <1>8, <1>9, <1>10 DEF StoreInv, BootsOK

\* While the store is open and no credential is being moved, no boot is under way.
LEMMA OpenIsQuiet ==
  ASSUME StoreInv, Ready, ~Moving
  PROVE  \A b \in Boots : boot[b].at \notin Opening \cup Migrates
PROOF
  BY DEF StoreInv, BootsOK, RunOK, Moving, Migrates

LEMMA StoreSessionInv ==
  ASSUME StoreInv, NEW isIn \in BOOLEAN, StoreSession(isIn)
  PROVE  StoreInv'
PROOF
  <1>0. /\ Ready /\ ~Moving /\ file # NoKey
        /\ file' = [file EXCEPT !.cred = isIn] /\ owed' = isIn
        /\ UNCHANGED << keychain, plain, secureStorage, boot, rekey, install, drawnIn >>
    BY DEF StoreSession
  <1>1. \A b \in Boots : boot[b].at \notin Opening \cup Migrates
    BY <1>0, OpenIsQuiet
  <1>2. file \in Files /\ file.sentinel
    BY <1>0 DEF StoreInv, StoreTypeOK, KeysOK, HandleMatchesKeychain, RekeyOK
  <1>3. /\ file' \in Files /\ file' # NoKey
        /\ file'.sentinel = file.sentinel /\ file'.key = file.key /\ file'.cred = isIn
    BY <1>0, <1>2, NoKeyIsNothing DEF Files
  <1>4. StoreTypeOK'
    BY <1>0, <1>3 DEF StoreInv, StoreTypeOK
  <1>5. BootsOK'
    BY <1>0, <1>1 DEF StoreInv, BootsOK, OneBoot, RunOK, Opening, Migrates
  <1>6. RekeyOK'
    BY <1>0, <1>2, <1>3 DEF StoreInv, RekeyOK, Ready
  <1>7. KeysOK'
    BY <1>0, <1>2, <1>3 DEF StoreInv, KeysOK, FileIsFresh, HandleMatchesKeychain,
           NeverReusesStaleKey, Ready
  <1>8. CredentialsSurvive'
    <2>1. file.key = keychain \/ rekey.at = "swap"
      BY <1>0 DEF StoreInv, RekeyOK, KeysOK, HandleMatchesKeychain
    <2> QED
      BY <1>0, <1>2, <1>3, <2>1 DEF CredentialsSurvive
  <1> QED
    BY <1>4, <1>5, <1>6, <1>7, <1>8 DEF StoreInv

LEMMA RotateStartInv ==
  ASSUME StoreInv, RotateStart
  PROVE  StoreInv'
PROOF
  <1>0. /\ Ready /\ ~Moving /\ rekey = Idle /\ file # NoKey /\ KeyLeft
        /\ rekey' = [Idle EXCEPT !.at = "swap", !.key = FreshKey]
        /\ keychain' = FreshKey
        /\ drawnIn' = [drawnIn EXCEPT ![FreshKey] = install]
        /\ UNCHANGED << file, plain, secureStorage, boot, install, owed >>
    BY DEF RotateStart
  <1>1. \A b \in Boots : boot[b].at \notin Opening \cup Migrates
    BY <1>0, OpenIsQuiet
  <1>2. FreshKey \in StoreKeys
    BY <1>0, FreshKeyIsFresh
  <1>3. rekey' \in StoreRuns /\ rekey'.at = "swap" /\ rekey'.key = FreshKey
    BY <1>0, <1>2 DEF Idle, StoreRuns
  <1>4. /\ drawnIn' \in [StoreKeys -> 0 .. MaxInstalls] /\ drawnIn'[FreshKey] = install
        /\ \A k \in StoreKeys : drawnIn[k] = install => drawnIn'[k] = install
    BY <1>0, DrawnStays DEF StoreInv
  <1>5. file \in Files /\ file.key \in StoreKeys /\ file.sentinel /\ secureStorage \in StoreKeys
    BY <1>0 DEF StoreInv, StoreTypeOK, Files, KeysOK, HandleMatchesKeychain, Ready
  <1>6. StoreTypeOK'
    BY <1>0, <1>2, <1>3, <1>4 DEF StoreInv, StoreTypeOK
  <1>7. BootsOK'
    BY <1>0, <1>1 DEF StoreInv, BootsOK, OneBoot, RunOK, Opening, Migrates
  <1>8. RekeyOK'
    BY <1>0, <1>2, <1>3, <1>4, <1>5 DEF RekeyOK, Ready
  <1>9. KeysOK'
    <2>1. rekey' # Idle
      BY <1>3 DEF Idle
    <2> QED
      BY <1>0, <1>4, <1>5, <2>1 DEF StoreInv, KeysOK, FileIsFresh, HandleMatchesKeychain,
         NeverReusesStaleKey, Ready
  <1>10. CredentialsSurvive'
    BY <1>0, <1>3 DEF StoreInv, CredentialsSurvive
  <1> QED
    BY <1>6, <1>7, <1>8, <1>9, <1>10 DEF StoreInv

LEMMA RotateSwapInv ==
  ASSUME StoreInv, RotateSwap
  PROVE  StoreInv'
PROOF
  <1>0. /\ rekey.at = "swap" /\ ~Moving /\ rekey' = Idle
        /\ UNCHANGED << keychain, plain, boot, install, drawnIn >>
    BY DEF RotateSwap
  <1>1. /\ Ready /\ rekey.key = keychain /\ keychain \in StoreKeys
        /\ drawnIn[keychain] = install /\ file # NoKey /\ file.sentinel
    BY <1>0 DEF StoreInv, RekeyOK, Idle
  <1>2. \A b \in Boots : boot[b].at \notin Opening \cup Migrates
    BY <1>0, <1>1, OpenIsQuiet
  <1>3. file \in Files /\ file.cred \in BOOLEAN
    BY <1>1 DEF StoreInv, StoreTypeOK, Files
  <1>4. BootsOK'
    BY <1>0, <1>2 DEF StoreInv, BootsOK, OneBoot, RunOK, Opening, Migrates
  <1>5. RekeyOK'
    BY <1>0 DEF RekeyOK
  <1>6. CASE file' = File(rekey.key, TRUE, file.cred) /\ secureStorage' = rekey.key /\ UNCHANGED owed
    <2>1. /\ file' \in Files /\ file' # NoKey
          /\ file'.key = keychain /\ file'.sentinel /\ file'.cred = file.cred
      BY <1>1, <1>3, <1>6, NewFile
    <2>2. StoreTypeOK'
      BY <1>0, <1>1, <1>6, <2>1, IdleRuns DEF StoreInv, StoreTypeOK
    <2>3. KeysOK'
      BY <1>0, <1>1, <1>6, <2>1 DEF KeysOK, FileIsFresh, HandleMatchesKeychain,
         NeverReusesStaleKey
    <2>4. CredentialsSurvive'
      BY <1>0, <1>6, <2>1 DEF StoreInv, CredentialsSurvive
    <2> QED
      BY <1>4, <1>5, <2>2, <2>3, <2>4 DEF StoreInv
  <1>7. CASE file' = NoKey /\ owed' = FALSE /\ UNCHANGED secureStorage
    <2>1. StoreTypeOK'
      BY <1>0, <1>7, IdleRuns DEF StoreInv, StoreTypeOK
    <2>2. KeysOK' /\ CredentialsSurvive'
      BY <1>0, <1>7 DEF StoreInv, KeysOK, FileIsFresh, HandleMatchesKeychain,
         NeverReusesStaleKey, CredentialsSurvive, Ready
    <2> QED
      BY <1>4, <1>5, <2>1, <2>2 DEF StoreInv
  <1> QED
    BY <1>6, <1>7 DEF RotateSwap

\* A process that ends leaves no run; what it may have made of the file holds no
\* session that was owed.
LEMMA KillInv ==
  ASSUME StoreInv, Kill
  PROVE  StoreInv'
PROOF
  <1>0. /\ secureStorage' = NoKey /\ boot' = [b \in Boots |-> Idle] /\ rekey' = Idle
        /\ owed' = (owed /\ rekey = Idle)
        /\ UNCHANGED << keychain, plain, install, drawnIn >>
    BY DEF Kill
  <1>1. \/ file' = file
        \/ \E b \in Boots : /\ boot[b].at = "clean"
                            /\ file' \in {NoKey, File(boot[b].key, FALSE, FALSE)}
    BY DEF Kill
  <1>2. BootsOK' /\ RekeyOK'
    BY <1>0, IdleRuns DEF BootsOK, OneBoot, RunOK, RekeyOK, Opening, Migrates
  <1>3. CASE file' = file
    <2>1. StoreTypeOK'
      BY <1>0, <1>3, IdleRuns DEF StoreInv, StoreTypeOK
    <2>2. KeysOK'
      BY <1>0, <1>3 DEF StoreInv, KeysOK, FileIsFresh, HandleMatchesKeychain,
         NeverReusesStaleKey, Ready
    <2>3. CredentialsSurvive'
      BY <1>0, <1>3 DEF StoreInv, CredentialsSurvive, Idle
    <2> QED
      BY <1>2, <2>1, <2>2, <2>3 DEF StoreInv
  <1>4. ASSUME NEW b \in Boots, boot[b].at = "clean",
               file' \in {NoKey, File(boot[b].key, FALSE, FALSE)}
        PROVE  StoreInv'
    <2>1. /\ boot[b].key = keychain /\ keychain \in StoreKeys
          /\ drawnIn[keychain] = install /\ (owed => plain)
      BY <1>4, Others DEF RunOK
    <2>2. /\ File(boot[b].key, FALSE, FALSE) \in Files
          /\ File(boot[b].key, FALSE, FALSE).key = keychain
      BY <2>1 DEF File, Files
    <2>3. StoreTypeOK'
      BY <1>0, <1>4, <2>2, IdleRuns DEF StoreInv, StoreTypeOK
    <2>4. KeysOK'
      BY <1>0, <1>4, <2>1, <2>2 DEF KeysOK, FileIsFresh, HandleMatchesKeychain,
         NeverReusesStaleKey, Ready
    <2>5. CredentialsSurvive'
      BY <1>0, <2>1 DEF CredentialsSurvive
    <2> QED
      BY <1>2, <2>3, <2>4, <2>5 DEF StoreInv
  <1> QED
    BY <1>1, <1>3, <1>4

\* What happens to an app that does not run.
LEMMA NotRunningInv ==
  ASSUME StoreInv, Reinstall \/ RestoreBackup
  PROVE  StoreInv'
PROOF
  <1>0. /\ ~Ready /\ \A b \in Boots : boot[b].at = "idle"
        /\ UNCHANGED << secureStorage, boot, rekey, drawnIn >>
    BY DEF Reinstall, RestoreBackup, NotRunning
  <1>1. rekey = Idle
    BY <1>0 DEF StoreInv, RekeyOK
  <1>2. BootsOK' /\ RekeyOK'
    BY <1>0, <1>1 DEF StoreInv, BootsOK, OneBoot, RunOK, RekeyOK, Opening, Migrates
  <1>3. CASE Reinstall
    <2>1. install' \in 1 .. MaxInstalls
      BY <1>3, InstalledOnce DEF Reinstall, StoreInv, StoreTypeOK
    <2>2. StoreTypeOK'
      BY <1>0, <1>3, <2>1 DEF Reinstall, StoreInv, StoreTypeOK
    <2>3. KeysOK' /\ CredentialsSurvive'
      BY <1>0, <1>3 DEF Reinstall, KeysOK, FileIsFresh, HandleMatchesKeychain,
         NeverReusesStaleKey, CredentialsSurvive, Ready
    <2> QED
      BY <1>2, <2>2, <2>3 DEF StoreInv
  <1>4. CASE RestoreBackup
    <2>1. StoreTypeOK'
      BY <1>0, <1>4 DEF RestoreBackup, StoreInv, StoreTypeOK
    <2>2. KeysOK' /\ CredentialsSurvive'
      BY <1>0, <1>4 DEF RestoreBackup, StoreInv, KeysOK, FileIsFresh, HandleMatchesKeychain,
         NeverReusesStaleKey, CredentialsSurvive, Ready
    <2> QED
      BY <1>2, <2>1, <2>2 DEF StoreInv
  <1> QED
    BY <1>3, <1>4

LEMMA StoreStep ==
  StoreInv /\ [StoreNext]_storeVars => StoreInv'
PROOF
  <1> SUFFICES ASSUME StoreInv, [StoreNext]_storeVars PROVE StoreInv'
    OBVIOUS
  <1>1. ASSUME NEW b \in Boots, BootStep(b) PROVE StoreInv'
    BY <1>1, BootInv, LoadKeyInv, DrawKeyInv, FirstOpenInv, RecreateInv, BootFailsInv,
       MigrateInv DEF BootStep
  <1>2. ASSUME NEW isIn \in BOOLEAN, StoreSession(isIn) PROVE StoreInv'
    BY <1>2, StoreSessionInv
  <1>3. CASE RotateStart \/ RotateSwap \/ Kill \/ Reinstall \/ RestoreBackup
    BY <1>3, RotateStartInv, RotateSwapInv, KillInv, NotRunningInv
  <1>4. CASE UNCHANGED storeVars
    BY <1>4 DEF storeVars, StoreInv, StoreTypeOK, BootsOK, OneBoot, RunOK, RekeyOK, KeysOK,
       FileIsFresh, HandleMatchesKeychain, NeverReusesStaleKey, CredentialsSurvive, Ready
  <1> QED
    BY <1>1, <1>2, <1>3, <1>4 DEF StoreNext

LEMMA StoreInvariance ==
  StoreSpec => []StoreInv
PROOF
  <1> USE StoreBegins, StoreStep
  <1> QED
    BY PTL DEF StoreSpec

(***************************************************************************)
(* The secure store: the theorems                                          *)
(***************************************************************************)

\* Type correctness of the store, its boots and the Keychain.
THEOREM StoreTyped == StoreSpec => []StoreTypeOK
PROOF
  <1>1. StoreInv => StoreTypeOK
    BY DEF StoreInv
  <1> QED
    BY <1>1, StoreInvariance, PTL

\* The store is never opened under a key of an earlier installation, however many
\* boots fail or are killed half way and whatever the Keychain kept.
THEOREM NoStaleKey == StoreSpec => []NeverReusesStaleKey
PROOF
  <1>1. StoreInv => NeverReusesStaleKey
    BY DEF StoreInv, KeysOK
  <1> QED
    BY <1>1, StoreInvariance, PTL

\* The open instance, the file and the Keychain are on one key, but for a re-key.
THEOREM OneKey == StoreSpec => []HandleMatchesKeychain
PROOF
  <1>1. StoreInv => HandleMatchesKeychain
    BY DEF StoreInv, KeysOK
  <1> QED
    BY <1>1, StoreInvariance, PTL

\* A session that was stored is there at every later boot: kills at any step, failed
\* boots, re-keys that end and the move out of the plain store do not lose it.
THEOREM SessionSurvives == StoreSpec => []CredentialsSurvive
PROOF
  <1>1. StoreInv => CredentialsSurvive
    BY DEF StoreInv
  <1> QED
    BY <1>1, StoreInvariance, PTL

(***************************************************************************)
(* Sign-in: the inductive invariant                                        *)
(***************************************************************************)

\* A granted attempt carries its family; screens mean that no session is held.
Carries(a) == IF attempt[a].stage = "granted" THEN attempt[a].family \in 1 .. issued
                                              ELSE attempt[a].family = 0
OnlyGrantedCarry == \A a \in Attempts : attempt[a] # NoAttempt => Carries(a)
ScreensMeanSignedOut == SignedOut => session = 0

\* One sign-in at a time: none is under way once there is a session.
OneAtATime ==
  /\ \A a, b \in Attempts : attempt[a] # NoAttempt /\ attempt[b] # NoAttempt => a = b
  /\ session # 0 => \A a \in Attempts : attempt[a] = NoAttempt

SignInInv ==
  /\ SignInTypeOK /\ OnlyGrantedCarry /\ ScreensMeanSignedOut
  /\ overlapped \/ lost \/ (OneAtATime /\ NoSessionLeftBehind)

LEMMA FormEdited ==
  ASSUME SignInTypeOK, NEW level \in DOMAIN stack, NEW form \in Forms
  PROVE  LET edited == [stack EXCEPT ![level] = form] IN
           edited \in Seq(Forms) /\ Len(edited) = Len(stack) /\ edited # << >> /\ stack # << >>
PROOF
  <1>1. stack \in Seq(Forms) /\ level \in 1 .. Len(stack)
    BY DEF SignInTypeOK
  <1> QED
    BY <1>1, ExceptSeq

LEMMA ErrorShown ==
  ASSUME SignInTypeOK, NEW a \in Attempts, attempt[a] # NoAttempt, ShowError(a)
  PROVE  /\ stack' \in Seq(Forms) /\ Len(stack') <= MaxStack
         /\ stack' # << >> <=> stack # << >>
PROOF
  <1> DEFINE level == attempt[a].level
  <1>1. CASE level \notin DOMAIN stack
    BY <1>1 DEF ShowError, SignInTypeOK
  <1>2. CASE level \in DOMAIN stack
    <2>1. stack[level] \in Forms
      BY <1>2 DEF SignInTypeOK
    <2>2. \E form \in Forms : stack' = [stack EXCEPT ![level] = form]
      <3>1. /\ [stack[level] EXCEPT !.errors = @ \cup {"password"}] \in Forms
            /\ [stack[level] EXCEPT !.errors = @ \cup {"email"}] \in Forms
            /\ [stack[level] EXCEPT !.socialError = TRUE] \in Forms
        BY <2>1, SignInFields DEF Forms
      <3> QED
        BY <1>2, <3>1 DEF ShowError
    <2> QED
      BY <1>2, <2>2, FormEdited DEF SignInTypeOK
  <1> QED
    BY <1>1, <1>2

LEMMA SignInBegins == SignInInit => SignInInv
PROOF
  <1> SUFFICES ASSUME SignInInit PROVE SignInInv
    OBVIOUS
  <1>1. NewScreen("login") \in Forms
    BY DEF NewScreen, Forms, FieldsOf
  <1>2. SignInTypeOK
    <2>1. stack \in Seq(Forms) /\ Len(stack) = 1
      BY <1>1 DEF SignInInit
    <2>2. MaxStack \in Nat \ {0} /\ MaxFamilies \in Nat
      BY SignInBounds
    <2>3. families \subseteq 1 .. issued /\ issued \in 0 .. MaxFamilies /\ session \in 0 .. issued
      BY <2>2 DEF SignInInit
    <2>4. attempt \in [Attempts -> AttemptRecords \cup {NoAttempt}]
      BY DEF SignInInit
    <2>5. {account, overlapped, lost} \subseteq BOOLEAN
      BY DEF SignInInit
    <2>6. Len(stack) <= MaxStack
      BY <2>1, <2>2
    <2> QED
      BY <2>1, <2>3, <2>4, <2>5, <2>6 DEF SignInTypeOK
  <1> QED
    BY <1>2 DEF SignInInit, SignInInv, OnlyGrantedCarry, Carries, ScreensMeanSignedOut,
       OneAtATime,
                NoSessionLeftBehind

\* What a form's edit leaves: the invariant is about attempts and sessions.
LEMMA StackChanges ==
  ASSUME SignInInv, stack' \in Seq(Forms), Len(stack') <= MaxStack, stack' # << >> => stack # << >>,
         UNCHANGED << attempt, account, families, issued, session, overlapped, lost >>
  PROVE  SignInInv'
PROOF
  BY DEF SignInInv, SignInTypeOK, OnlyGrantedCarry, Carries, ScreensMeanSignedOut, OneAtATime,
         NoSessionLeftBehind, SignedOut

\* A sign-in begins while no session is held.
LEMMA BeginInv ==
  ASSUME SignInInv, SignedOut, NEW a \in Attempts,
         NEW kind \in {"login", "register", "google", "apple"}, NEW stage \in {"sheet", "sent"},
         Begin(a, kind, stage), UNCHANGED << account, families, issued, session, lost >>,
         stack' \in Seq(Forms), Len(stack') <= MaxStack
  PROVE  SignInInv'
PROOF
  <1> DEFINE new == [kind |-> kind, level |-> Top, stage |-> stage, family |-> 0]
  <1>0. SignInTypeOK /\ session = 0
    BY DEF SignInInv, ScreensMeanSignedOut
  <1>1. new \in AttemptRecords /\ new.family = 0 /\ new.stage # "granted" /\ new # NoAttempt
    <2>1. Top \in 0 .. MaxStack /\ 0 \in 0 .. MaxFamilies
      BY <1>0, LenProperties, SignInBounds DEF SignInTypeOK, Top
    <2> QED
      BY <2>1, NoAttemptIsNothing DEF AttemptRecords
  <1>2. /\ attempt' = [attempt EXCEPT ![a] = new] /\ attempt[a] = NoAttempt
        /\ attempt \in [Attempts -> AttemptRecords \cup {NoAttempt}]
        /\ overlapped' = (overlapped \/ \E b \in Attempts : attempt[b] # NoAttempt)
    BY <1>0 DEF Begin, SignInTypeOK
  <1> HIDE DEF new
  <1>3. attempt' \in [Attempts -> AttemptRecords \cup {NoAttempt}]
    BY <1>1, <1>2
  <1>4. SignInTypeOK'
    <2>1. overlapped' \in BOOLEAN
      BY <1>2
    <2> QED
      BY <1>0, <1>3, <2>1 DEF SignInTypeOK
  <1>5. OnlyGrantedCarry'
    BY <1>1, <1>2 DEF SignInInv, OnlyGrantedCarry, Carries
  <1>6. ASSUME ~ overlapped', ~ lost'
        PROVE  OneAtATime' /\ NoSessionLeftBehind'
    <2>1. ~ overlapped /\ ~ lost /\ \A b \in Attempts : attempt[b] = NoAttempt
      BY <1>2, <1>6
    <2>2. families = {}
      <3>1. \A f \in families : f = session
        BY <2>1 DEF SignInInv, NoSessionLeftBehind
      <3> QED
        BY <1>0, <3>1 DEF SignInTypeOK
    <2> QED
      BY <1>0, <1>1, <1>2, <2>1, <2>2 DEF OneAtATime, NoSessionLeftBehind
  <1> QED
    BY <1>0, <1>4, <1>5, <1>6 DEF SignInInv, ScreensMeanSignedOut

LEMMA FormsInv ==
  ASSUME SignInInv,
         \/ \E f \in LoginFields \cup RegisterFields : EditField(f)
         \/ \E a \in Attempts, byKeyboard \in BOOLEAN : HandleSubmit(a, byKeyboard)
         \/ \E a \in Attempts, provider \in {"google", "apple"} : ContinueWith(a, provider)
         \/ \E name \in {"login", "register"} : Navigate(name)
  PROVE  SignInInv'
PROOF
  <1>0. SignInTypeOK /\ SignedOut
    BY DEF SignInInv, EditField, HandleSubmit, ContinueWith, Navigate
  <1>1. Top \in DOMAIN stack /\ stack[Top] \in Forms /\ Top \in Nat /\ Len(stack) <= MaxStack
        /\ stack \in Seq(Forms)
    BY <1>0, EmptySeq, LenProperties DEF SignInTypeOK, SignedOut, Top
  <1>2. ASSUME NEW f \in LoginFields \cup RegisterFields, EditField(f)
        PROVE  SignInInv'
    <2> DEFINE form == [stack[Top] EXCEPT !.wrong = IF f \in @ THEN @ \ {f} ELSE @ \cup {f}]
    <2>1. form \in Forms
      BY <1>1 DEF Forms
    <2>2. stack' = [stack EXCEPT ![Top] = form]
      BY <1>2 DEF EditField
    <2> HIDE DEF form
    <2>3. stack' \in Seq(Forms) /\ Len(stack') <= MaxStack /\ stack # << >>
      BY <1>0, <1>1, <2>1, <2>2, FormEdited
    <2> QED
      BY <1>2, <2>3, StackChanges DEF EditField
  <1>3. ASSUME NEW a \in Attempts, NEW byKeyboard \in BOOLEAN, HandleSubmit(a, byKeyboard)
        PROVE  SignInInv'
    <2> DEFINE form == [stack[Top] EXCEPT !.errors = stack[Top].wrong]
    <2>1. form \in Forms /\ stack[Top].screen \in {"login", "register"}
      BY <1>1 DEF Forms
    <2>2. stack' = [stack EXCEPT ![Top] = form]
      BY <1>3 DEF HandleSubmit
    <2> HIDE DEF form
    <2>3. stack' \in Seq(Forms) /\ Len(stack') <= MaxStack /\ stack # << >>
      BY <1>0, <1>1, <2>1, <2>2, FormEdited
    <2>4. CASE stack[Top].wrong = {}
      BY <1>0, <1>3, <2>1, <2>3, <2>4, BeginInv DEF HandleSubmit
    <2>5. CASE stack[Top].wrong # {}
      BY <1>3, <2>3, <2>5, StackChanges DEF HandleSubmit
    <2> QED
      BY <2>4, <2>5
  <1>4. ASSUME NEW a \in Attempts, NEW provider \in {"google", "apple"}, ContinueWith(a, provider)
        PROVE  SignInInv'
    <2> DEFINE form == [stack[Top] EXCEPT !.socialError = FALSE]
    <2>1. form \in Forms
      BY <1>1 DEF Forms
    <2>2. stack' = [stack EXCEPT ![Top] = form]
      BY <1>4 DEF ContinueWith
    <2> HIDE DEF form
    <2>3. stack' \in Seq(Forms) /\ Len(stack') <= MaxStack
      BY <1>0, <1>1, <2>1, <2>2, FormEdited
    <2> QED
      BY <1>0, <1>4, <2>3, BeginInv DEF ContinueWith
  <1>5. ASSUME NEW name \in {"login", "register"}, Navigate(name)
        PROVE  SignInInv'
    <2>1. NewScreen(name) \in Forms
      BY <1>5 DEF NewScreen, Forms, FieldsOf
    <2>2. stack' = Append(stack, NewScreen(name)) /\ Top < MaxStack /\ Top = Len(stack)
      BY <1>5 DEF Navigate, Top
    <2>3. stack' \in Seq(Forms) /\ Len(stack') = Top + 1
      BY <1>1, <2>1, <2>2, AppendProperties
    <2>4. Len(stack') <= MaxStack
      BY <1>1, <2>2, <2>3, SignInBounds
    <2> QED
      BY <1>0, <1>5, <2>3, <2>4, StackChanges DEF Navigate, SignedOut
  <1> QED
    BY <1>2, <1>3, <1>4, <1>5

\* What is under way ends, without a session of its own: the rest is as it was.
LEMMA AttemptEnds ==
  ASSUME SignInInv, NEW a \in Attempts, attempt[a] # NoAttempt,
         attempt' = [attempt EXCEPT ![a] = NoAttempt],
         stack' \in Seq(Forms), Len(stack') <= MaxStack, stack' # << >> => stack # << >>,
         lost' \in BOOLEAN, lost => lost', attempt[a].stage = "granted" => lost',
         UNCHANGED << account, families, issued, session, overlapped >>
  PROVE  SignInInv'
PROOF
  <1>0. SignInTypeOK /\ attempt \in [Attempts -> AttemptRecords \cup {NoAttempt}]
    BY DEF SignInInv, SignInTypeOK
  <1>1. attempt' \in [Attempts -> AttemptRecords \cup {NoAttempt}]
    BY <1>0
  <1>2. SignInTypeOK'
    BY <1>0, <1>1 DEF SignInTypeOK
  <1>3. OnlyGrantedCarry' /\ ScreensMeanSignedOut'
    BY <1>0 DEF SignInInv, OnlyGrantedCarry, Carries, ScreensMeanSignedOut, SignedOut
  <1>4. ASSUME ~ overlapped', ~ lost'
        PROVE  OneAtATime' /\ NoSessionLeftBehind'
    <2>1. ~ overlapped /\ ~ lost /\ attempt[a].family = 0 /\ OneAtATime /\ NoSessionLeftBehind
      BY <1>4 DEF SignInInv, OnlyGrantedCarry, Carries
    <2>2. \A f \in families : f # 0
      BY <1>0 DEF SignInTypeOK
    <2>3. \A f \in families : f = session \/ \E b \in Attempts : attempt[b] # NoAttempt
                                                              /\ attempt[b].family = f
      BY <1>4, <2>1 DEF NoSessionLeftBehind
    <2>4. \A f \in families : f = session
      BY <2>1, <2>2, <2>3 DEF OneAtATime
    <2> QED
      BY <1>0, <2>1, <2>4 DEF OneAtATime, NoSessionLeftBehind
  <1> QED
    BY <1>2, <1>3, <1>4 DEF SignInInv

\* What is under way goes on, and carries a family only if it is a new one.
LEMMA AttemptGoesOn ==
  ASSUME SignInInv, NEW a \in Attempts, attempt[a] # NoAttempt, attempt[a].stage # "granted",
         NEW new \in AttemptRecords, attempt' = [attempt EXCEPT ![a] = new],
         issued' \in 0 .. MaxFamilies, issued <= issued', account' \in BOOLEAN,
         \/ new.family = 0 /\ new.stage # "granted" /\ families' = families
         \/ new.family = issued' /\ new.stage = "granted" /\ families' = families \cup {issued'}
              /\ issued' # 0,
         UNCHANGED << stack, session, overlapped, lost >>
  PROVE  SignInInv'
PROOF
  <1>0. SignInTypeOK /\ attempt \in [Attempts -> AttemptRecords \cup {NoAttempt}]
        /\ attempt[a].family = 0 /\ new # NoAttempt
    BY NoAttemptIsNothing DEF SignInInv, SignInTypeOK, OnlyGrantedCarry, Carries
  <1>1. attempt' \in [Attempts -> AttemptRecords \cup {NoAttempt}]
    BY <1>0
  <1>2. SignInTypeOK'
    <2>1. issued \in Int /\ issued' \in Int /\ issued <= issued'
      BY <1>0, SignInBounds DEF SignInTypeOK
    <2>2. families' \subseteq 1 .. issued' /\ session \in 0 .. issued'
      <3>1. families \subseteq 1 .. issued' /\ session \in 0 .. issued'
        BY <1>0, <2>1 DEF SignInTypeOK
      <3>2. issued' # 0 => issued' \in 1 .. issued'
        BY <2>1, SignInBounds
      <3> QED
        BY <3>1, <3>2
    <2>3. {account, overlapped, lost}' \subseteq BOOLEAN
      BY <1>0 DEF SignInTypeOK
    <2> QED
      BY <1>0, <1>1, <2>2, <2>3 DEF SignInTypeOK
  <1>3. OnlyGrantedCarry' /\ ScreensMeanSignedOut'
    <2>1. issued \in Int /\ issued' \in Int /\ issued <= issued'
      BY <1>0, SignInBounds DEF SignInTypeOK
    <2>2. new.stage = "granted" => new.family \in 1 .. issued'
      BY <2>1, SignInBounds
    <2>3. new.stage # "granted" => new.family = 0
      OBVIOUS
    <2> QED
      BY <1>0, <2>1, <2>2, <2>3
         DEF SignInInv, OnlyGrantedCarry, Carries, ScreensMeanSignedOut, SignedOut
  <1>4. ASSUME ~ overlapped', ~ lost'
        PROVE  OneAtATime' /\ NoSessionLeftBehind'
    <2>1. ~ overlapped /\ ~ lost /\ OneAtATime /\ NoSessionLeftBehind
      BY <1>4 DEF SignInInv
    <2>2. \A f \in families : f # 0
      BY <1>0 DEF SignInTypeOK
    <2>3. OneAtATime'
      BY <1>0, <2>1 DEF OneAtATime
    <2>4. \A f \in families : f = session \/ \E b \in Attempts : attempt[b] # NoAttempt
                                                              /\ attempt[b].family = f
      BY <2>1 DEF NoSessionLeftBehind
    <2>5. \A f \in families' : f = session' \/ \E b \in Attempts : attempt'[b] # NoAttempt
                                                                /\ attempt'[b].family = f
      <3>1. ASSUME NEW f \in families
            PROVE  f = session' \/ \E b \in Attempts : attempt'[b] # NoAttempt /\ attempt'[b].family = f
        <4>1. CASE f = session
          BY <4>1
        <4>2. ASSUME NEW b \in Attempts, attempt[b] # NoAttempt, attempt[b].family = f
              PROVE  attempt'[b] # NoAttempt /\ attempt'[b].family = f
          BY <1>0, <2>2, <4>2
        <4> QED
          BY <2>4, <4>1, <4>2
      <3>2. ASSUME new.family = issued'
            PROVE  attempt'[a] # NoAttempt /\ attempt'[a].family = issued'
        BY <1>0, <3>2
      <3> QED
        BY <3>1, <3>2
    <2> QED
      BY <2>3, <2>5 DEF NoSessionLeftBehind
  <1> QED
    BY <1>2, <1>3, <1>4 DEF SignInInv

LEMMA SheetInv ==
  ASSUME SignInInv, NEW a \in Attempts, NEW outcome \in {"token", "dismissed", "broken"},
         SheetCloses(a, outcome)
  PROVE  SignInInv'
PROOF
  <1>0. SignInTypeOK /\ attempt[a] \in AttemptRecords /\ attempt[a] # NoAttempt
        /\ attempt[a].stage = "sheet" /\ attempt[a].family = 0
    BY DEF SignInInv, SignInTypeOK, SheetCloses, OnlyGrantedCarry, Carries
  <1>1. CASE outcome = "token"
    <2> DEFINE new == [attempt[a] EXCEPT !.stage = "sent"]
    <2>1. new \in AttemptRecords /\ new.family = 0 /\ new.stage # "granted"
      BY <1>0 DEF AttemptRecords
    <2>2. attempt' = [attempt EXCEPT ![a] = new] /\ UNCHANGED stack
          /\ UNCHANGED << account, families, issued, session, overlapped, lost >>
      BY <1>1 DEF SheetCloses
    <2> HIDE DEF new
    <2>3. issued' \in 0 .. MaxFamilies /\ issued <= issued' /\ account' \in BOOLEAN
      BY <1>0, <2>2, SignInBounds DEF SignInTypeOK
    <2> QED
      BY <1>0, <2>1, <2>2, <2>3, AttemptGoesOn
  <1>2. CASE outcome # "token"
    <2>1. stack' \in Seq(Forms) /\ Len(stack') <= MaxStack /\ (stack' # << >> => stack # << >>)
      BY <1>0, <1>2, ErrorShown DEF SheetCloses, SignInTypeOK
    <2>2. lost' \in BOOLEAN
      BY <1>0 DEF SheetCloses, SignInTypeOK
    <2> QED
      BY <1>0, <1>2, <2>1, <2>2, AttemptEnds DEF SheetCloses
  <1> QED
    BY <1>1, <1>2

LEMMA ServedInv ==
  ASSUME SignInInv, NEW a \in Attempts, NEW credentialsMatch \in BOOLEAN, Served(a, credentialsMatch)
  PROVE  SignInInv'
PROOF
  <1>0. SignInTypeOK /\ attempt[a] \in AttemptRecords /\ attempt[a] # NoAttempt
        /\ attempt[a].stage = "sent" /\ attempt[a].family = 0
        /\ issued \in Nat /\ MaxFamilies \in Nat /\ issued <= MaxFamilies
    BY SignInBounds DEF SignInInv, SignInTypeOK, Served, OnlyGrantedCarry, Carries
  <1>1. UNCHANGED << stack, session, overlapped, lost >> /\ account' \in BOOLEAN
        /\ (Issue(a) \/ Refuse(a))
    BY <1>0 DEF Served, SignInTypeOK
  <1>2. CASE Issue(a)
    <2> DEFINE new == [attempt[a] EXCEPT !.stage = "granted", !.family = issued']
    <2>1. issued' \in 0 .. MaxFamilies /\ issued <= issued' /\ issued' # 0
          /\ families' = families \cup {issued'}
      BY <1>0, <1>2 DEF Issue
    <2>2. new \in AttemptRecords /\ new.family = issued' /\ new.stage = "granted"
      BY <1>0, <2>1 DEF AttemptRecords
    <2>3. attempt' = [attempt EXCEPT ![a] = new]
      BY <1>2 DEF Issue
    <2> HIDE DEF new
    <2> QED
      BY <1>0, <1>1, <2>1, <2>2, <2>3, AttemptGoesOn
  <1>3. CASE Refuse(a)
    <2> DEFINE new == [attempt[a] EXCEPT !.stage = "refused"]
    <2>1. new \in AttemptRecords /\ new.family = 0 /\ new.stage # "granted"
      BY <1>0 DEF AttemptRecords
    <2>2. attempt' = [attempt EXCEPT ![a] = new] /\ families' = families /\ issued' = issued
      BY <1>3 DEF Refuse
    <2> HIDE DEF new
    <2>3. issued' \in 0 .. MaxFamilies /\ issued <= issued'
      BY <1>0, <2>2
    <2> QED
      BY <1>0, <1>1, <2>1, <2>2, <2>3, AttemptGoesOn
  <1> QED
    BY <1>1, <1>2, <1>3

\* The answer hands its family over to the device.
LEMMA AnsweredInv ==
  ASSUME SignInInv, NEW a \in Attempts, Answered(a)
  PROVE  SignInInv'
PROOF
  <1>0. SignInTypeOK /\ attempt[a] \in AttemptRecords /\ attempt[a] # NoAttempt
        /\ attempt' = [attempt EXCEPT ![a] = NoAttempt]
        /\ UNCHANGED << account, families, issued, overlapped, lost >>
    BY DEF SignInInv, SignInTypeOK, Answered
  <1>1. CASE attempt[a].stage = "granted"
    <2>1. session' = attempt[a].family /\ stack' = << >>
      BY <1>1 DEF Answered
    <2>2. attempt \in [Attempts -> AttemptRecords \cup {NoAttempt}]
      BY <1>0 DEF SignInTypeOK
    <2>3. OnlyGrantedCarry' /\ ScreensMeanSignedOut'
      BY <1>0, <2>1, <2>2 DEF SignInInv, OnlyGrantedCarry, Carries, ScreensMeanSignedOut,
         SignedOut
    <2>4. SignInTypeOK'
      <3>1. session' \in 0 .. issued /\ << >> \in Seq(Forms) /\ Len(<< >>) = 0
        BY <1>0, <1>1, <2>1, EmptySeq DEF SignInInv, OnlyGrantedCarry, Carries, SignInTypeOK
      <3>2. attempt' \in [Attempts -> AttemptRecords \cup {NoAttempt}]
        BY <1>0, <2>2
      <3>3. Len(stack') <= MaxStack
        BY <2>1, <3>1, SignInBounds
      <3> QED
        BY <1>0, <2>1, <3>1, <3>2, <3>3 DEF SignInTypeOK
    <2>5. ASSUME ~ overlapped', ~ lost'
          PROVE  OneAtATime' /\ NoSessionLeftBehind'
      <3>1. OneAtATime /\ NoSessionLeftBehind
        BY <1>0, <2>5 DEF SignInInv
      <3>2. session = 0 /\ \A b \in Attempts : b # a => attempt[b] = NoAttempt
        BY <1>0, <3>1 DEF OneAtATime
      <3>3. \A f \in families : f # 0
        BY <1>0 DEF SignInTypeOK
      <3>4. \A f \in families : f = attempt[a].family
        BY <1>0, <2>5, <3>1, <3>2, <3>3 DEF NoSessionLeftBehind
      <3> QED
        BY <1>0, <2>1, <2>2, <3>2, <3>4 DEF OneAtATime, NoSessionLeftBehind
    <2> QED
      BY <2>3, <2>4, <2>5 DEF SignInInv
  <1>2. CASE attempt[a].stage # "granted"
    <2>1. stack' \in Seq(Forms) /\ Len(stack') <= MaxStack /\ (stack' # << >> => stack # << >>)
          /\ UNCHANGED session
      BY <1>0, <1>2, ErrorShown DEF Answered, SignInTypeOK
    <2>2. lost' \in BOOLEAN
      BY <1>0 DEF SignInTypeOK
    <2> QED
      BY <1>0, <1>2, <2>1, <2>2, AttemptEnds
  <1> QED
    BY <1>1, <1>2

LEMMA CallFailsInv ==
  ASSUME SignInInv, NEW a \in Attempts, CallFails(a)
  PROVE  SignInInv'
PROOF
  <1>1. SignInTypeOK /\ attempt[a] # NoAttempt /\ lost' = (lost \/ attempt[a].stage = "granted")
        /\ ShowError(a)
    BY DEF SignInInv, CallFails
  <1>2. stack' \in Seq(Forms) /\ Len(stack') <= MaxStack /\ (stack' # << >> => stack # << >>)
    BY <1>1, ErrorShown
  <1>3. lost' \in BOOLEAN /\ (lost => lost') /\ (attempt[a].stage = "granted" => lost')
    BY <1>1
  <1> QED
    BY <1>1, <1>2, <1>3, AttemptEnds DEF CallFails

\* Leaving a screen, what it has under way only loses its place.
LEMMA GoBackInv ==
  ASSUME SignInInv, GoBack
  PROVE  SignInInv'
PROOF
  <1> DEFINE Moved(a) == IF attempt[a] # NoAttempt /\ attempt[a].level = Top
                           THEN [attempt[a] EXCEPT !.level = 0] ELSE attempt[a]
  <1>1. /\ SignInTypeOK /\ SignedOut /\ Top > 1 /\ stack' = Front(stack)
        /\ attempt' = [a \in Attempts |-> Moved(a)]
        /\ UNCHANGED << account, families, issued, session, overlapped, lost >>
    BY DEF SignInInv, GoBack
  <1>2. stack \in Seq(Forms) /\ Len(stack) \in Nat /\ Len(stack) <= MaxStack /\ Len(stack) > 1
        /\ MaxStack \in Nat
    BY <1>1, LenProperties, SignInBounds DEF SignInTypeOK, Top
  <1>3. stack' \in Seq(Forms) /\ Len(stack') <= MaxStack
    <2>1. \A i \in 1 .. (Len(stack) - 1) : stack[i] \in Forms
      BY <1>2, ElementOfSeq
    <2>2. SubSeq(stack, 1, Len(stack) - 1) \in Seq(Forms)
          /\ Len(SubSeq(stack, 1, Len(stack) - 1)) = Len(stack) - 1
      BY <1>2, <2>1, SubSeqProperties
    <2> QED
      BY <1>1, <1>2, <2>2 DEF Front
  <1>4. \A a \in Attempts :
          /\ Moved(a) \in AttemptRecords \cup {NoAttempt}
          /\ Moved(a) = NoAttempt <=> attempt[a] = NoAttempt
          /\ attempt[a] # NoAttempt => /\ Moved(a).stage = attempt[a].stage
                                       /\ Moved(a).family = attempt[a].family
    <2>1. SUFFICES ASSUME NEW a \in Attempts, attempt[a] # NoAttempt
                   PROVE  /\ Moved(a) \in AttemptRecords
                          /\ Moved(a).stage = attempt[a].stage
                          /\ Moved(a).family = attempt[a].family
      BY NoAttemptIsNothing
    <2>2. attempt[a] \in AttemptRecords
      BY <1>1, <2>1 DEF SignInTypeOK
    <2> QED
      BY <1>2, <2>2 DEF AttemptRecords
  <1> HIDE DEF Moved
  <1>5. SignInTypeOK'
    BY <1>1, <1>3, <1>4 DEF SignInTypeOK
  <1>6. /\ \A a \in Attempts : attempt'[a] = Moved(a)
    BY <1>1
  <1>7. OnlyGrantedCarry' /\ ScreensMeanSignedOut'
    BY <1>1, <1>4, <1>6 DEF SignInInv, OnlyGrantedCarry, Carries, ScreensMeanSignedOut
  <1>8. (OneAtATime => OneAtATime') /\ (NoSessionLeftBehind => NoSessionLeftBehind')
    BY <1>1, <1>4, <1>6 DEF OneAtATime, NoSessionLeftBehind
  <1> QED
    BY <1>1, <1>5, <1>7, <1>8 DEF SignInInv

\* The family a sign-out finds is revoked, or the history says that it may not be.
LEMMA SignOutInv ==
  ASSUME SignInInv, NEW arrives \in BOOLEAN, SignOut(arrives)
  PROVE  SignInInv'
PROOF
  <1> DEFINE Moved(a) == IF attempt[a] = NoAttempt THEN NoAttempt
                         ELSE [attempt[a] EXCEPT !.level = 0]
  <1>1. /\ SignInTypeOK /\ session # 0 /\ session' = 0
        /\ stack' = << NewScreen("login") >>
        /\ families' = IF arrives THEN families \ {session} ELSE families
        /\ lost' = (lost \/ ~ arrives)
        /\ attempt' = [a \in Attempts |-> Moved(a)]
        /\ UNCHANGED << account, issued, overlapped >>
    BY DEF SignInInv, SignOut, Revoke
  <1>2. stack' \in Seq(Forms) /\ Len(stack') <= MaxStack
    <2>1. NewScreen("login") \in Forms
      BY DEF NewScreen, Forms, FieldsOf
    <2>2. stack' \in Seq(Forms) /\ Len(stack') = 1
      BY <1>1, <2>1
    <2>3. MaxStack \in Nat \ {0}
      BY SignInBounds
    <2> QED
      BY <2>2, <2>3
  <1>3. \A a \in Attempts :
          /\ Moved(a) \in AttemptRecords \cup {NoAttempt}
          /\ Moved(a) = NoAttempt <=> attempt[a] = NoAttempt
          /\ attempt[a] # NoAttempt => /\ Moved(a).stage = attempt[a].stage
                                       /\ Moved(a).family = attempt[a].family
    <2>1. SUFFICES ASSUME NEW a \in Attempts, attempt[a] # NoAttempt
                   PROVE  /\ Moved(a) \in AttemptRecords
                          /\ Moved(a).stage = attempt[a].stage
                          /\ Moved(a).family = attempt[a].family
      BY NoAttemptIsNothing
    <2>2. attempt[a] \in AttemptRecords /\ 0 \in 0 .. MaxStack
      BY <1>1, <2>1, SignInBounds DEF SignInTypeOK
    <2> QED
      BY <2>1, <2>2 DEF AttemptRecords
  <1> HIDE DEF Moved
  <1>4. \A a \in Attempts : attempt'[a] = Moved(a)
    BY <1>1
  <1>5. SignInTypeOK'
    <2>1. families' \subseteq 1 .. issued /\ session' \in 0 .. issued /\ issued' \in 0 .. MaxFamilies
      BY <1>1, SignInBounds DEF SignInTypeOK
    <2>2. {account, overlapped, lost}' \subseteq BOOLEAN
      BY <1>1 DEF SignInTypeOK
    <2>3. attempt' \in [Attempts -> AttemptRecords \cup {NoAttempt}]
      BY <1>1, <1>3
    <2> QED
      BY <1>1, <1>2, <2>1, <2>2, <2>3 DEF SignInTypeOK
  <1>6. OnlyGrantedCarry' /\ ScreensMeanSignedOut'
    BY <1>1, <1>3, <1>4 DEF SignInInv, OnlyGrantedCarry, Carries, ScreensMeanSignedOut
  <1>7. ASSUME ~ overlapped', ~ lost'
        PROVE  OneAtATime' /\ NoSessionLeftBehind'
    <2>1. ~ overlapped /\ ~ lost /\ arrives /\ OneAtATime /\ NoSessionLeftBehind
      BY <1>1, <1>7 DEF SignInInv
    <2>2. \A a \in Attempts : attempt[a] = NoAttempt
      BY <1>1, <2>1 DEF OneAtATime
    <2>3. families' = {}
      BY <1>1, <2>1, <2>2 DEF NoSessionLeftBehind
    <2> QED
      BY <1>1, <1>3, <1>4, <2>2, <2>3 DEF OneAtATime, NoSessionLeftBehind
  <1> QED
    BY <1>5, <1>6, <1>7 DEF SignInInv

LEMMA SignInInvariance == SignInSpec => []SignInInv
PROOF
  <1>1. SignInInit => SignInInv
    BY SignInBegins
  <1>2. SignInInv /\ [SignInNext]_signInVars => SignInInv'
    <2> SUFFICES ASSUME SignInInv, [SignInNext]_signInVars
                 PROVE  SignInInv'
      OBVIOUS
    <2>1. CASE UNCHANGED signInVars
      BY <2>1, StackChanges DEF signInVars, SignInInv, SignInTypeOK
    <2>2. CASE SignInNext
      BY <2>2, FormsInv, SheetInv, ServedInv, AnsweredInv, CallFailsInv, GoBackInv, SignOutInv
         DEF SignInNext
    <2> QED
      BY <2>1, <2>2
  <1> QED
    BY <1>1, <1>2, PTL DEF SignInSpec

\* The stack, the attempts and the families are always of their kind, whatever answers
\* late or never (LoginScreen, RegisterScreen, store/auth.ts).
THEOREM SignInTyped == SignInSpec => []SignInTypeOK
PROOF
  <1>1. SignInInv => SignInTypeOK
    BY DEF SignInInv
  <1> QED
    BY <1>1, SignInInvariance, PTL

\* Every family that can be refreshed is the device's own or on its way there, unless two
\* sign-ins overlapped or an answer was lost: a sign-in begins signed out, its answer is
\* the session, and a sign-out revokes the one there is (persistSession, clearSession).
THEOREM NoneLeftBehind == SignInSpec => []NoSessionLeftBehind
PROOF
  <1>1. SignInInv => NoSessionLeftBehind
    BY DEF SignInInv, NoSessionLeftBehind
  <1> QED
    BY <1>1, SignInInvariance, PTL

(***************************************************************************)
(* The profile: the inductive invariant                                    *)
(***************************************************************************)

\* No save has ever met another.
Alone ==
  \A c, d \in ProfileCalls : call[c] # NoCall /\ call[d] # NoCall => c = d

\* A save not served yet finds the store and the server agreed; one served carries
\* what they are about to agree on.
SaveOK(c) ==
  call[c] # NoCall =>
    IF call[c].answer = NoCall THEN user = serverUser ELSE call[c].answer = serverUser

SavesInStep ==
  /\ Alone
  /\ \A c \in ProfileCalls : SaveOK(c)
  /\ ShownIsKept

ProfileInv == ProfileTypeOK /\ (crossed \/ unheard \/ SavesInStep)

LEMMA ProfileBegins ==
  ProfileInit => ProfileInv
PROOF
  <1> SUFFICES ASSUME ProfileInit PROVE ProfileInv
    OBVIOUS
  <1>1. ProfileTypeOK
    BY DEF ProfileInit, ProfileTypeOK, Users
  <1>2. SavesInStep
    BY DEF ProfileInit, SavesInStep, Alone, SaveOK, ShownIsKept
  <1> QED
    BY <1>1, <1>2 DEF ProfileInv

(***************************************************************************)
(* Types                                                                   *)
(***************************************************************************)

LEMMA AskKeepsTypes ==
  ASSUME ProfileTypeOK, NEW c \in ProfileCalls, NEW kind, NEW new, Ask(c, kind, new),
         \/ kind = "name" /\ new \in Names
         \/ kind = "voice" /\ new \in TutorVoices
  PROVE  /\ call' \in [ProfileCalls -> Saves \cup {NoCall}]
         /\ crossed' \in BOOLEAN /\ serverUser' = serverUser /\ unheard' = unheard
PROOF
  <1>1. [kind |-> kind, new |-> new, answer |-> NoCall] \in Saves
    BY DEF Saves
  <1> QED
    BY <1>1 DEF Ask, ProfileTypeOK

LEMMA ServedKeepsTypes ==
  ASSUME ProfileTypeOK, NEW c \in ProfileCalls, SaveServed(c)
  PROVE  /\ call' \in [ProfileCalls -> Saves \cup {NoCall}]
         /\ serverUser' \in Users
         /\ call' = [call EXCEPT ![c] = [call[c] EXCEPT !.answer = serverUser']]
PROOF
  <1>1. PICK s \in Saves : s = call[c]
    BY DEF SaveServed, ProfileTypeOK
  <1>2. serverUser \in Users
    BY DEF ProfileTypeOK
  <1>3. serverUser' \in Users
    <2>1. CASE s.kind = "name"
      BY <1>1, <1>2, <2>1 DEF SaveServed, Users, Saves
    <2>2. CASE s.kind # "name"
      BY <1>1, <1>2, <2>2 DEF SaveServed, Users, Saves
    <2> QED
      BY <2>1, <2>2
  <1>4. [s EXCEPT !.answer = serverUser'] \in Saves
    BY <1>3 DEF Saves
  <1>5. call' = [call EXCEPT ![c] = [call[c] EXCEPT !.answer = serverUser']]
    BY DEF SaveServed
  <1> QED
    BY <1>1, <1>3, <1>4, <1>5 DEF ProfileTypeOK

LEMMA AnsweredKeepsTypes ==
  ASSUME ProfileTypeOK, NEW c \in ProfileCalls, SaveAnswered(c)
  PROVE  /\ user' \in Users
         /\ call' \in [ProfileCalls -> Saves \cup {NoCall}]
PROOF
  <1>1. PICK s \in Saves : s = call[c] /\ s.answer # NoCall
    BY DEF SaveAnswered, ProfileTypeOK
  <1>2. s.answer \in Users
    BY <1>1 DEF Saves
  <1> QED
    BY <1>1, <1>2 DEF SaveAnswered, ProfileTypeOK

LEMMA ProfileTypeStep ==
  ProfileTypeOK /\ [ProfileNext]_profileVars => ProfileTypeOK'
PROOF
  <1> SUFFICES ASSUME ProfileTypeOK, [ProfileNext]_profileVars PROVE ProfileTypeOK'
    OBVIOUS
  <1> USE DEF ProfileTypeOK, nameVars, deleteVars, userVars
  <1>1. ASSUME NEW s \in {"settings", "name", "voice", "badges"}, OpenSheet(s)
        PROVE  ProfileTypeOK'
    <2>1. user.name \in Names
      BY DEF Users
    <2> QED
      BY <1>1, <2>1 DEF OpenSheet
  <1>2. CASE CloseSheet
    BY <1>2 DEF CloseSheet, Disarmed
  <1>3. CASE ArmDeletion \/ KeepAccount \/ ConfirmDeletion \/ SignOutOfProfile
    BY <1>3 DEF ArmDeletion, KeepAccount, ConfirmDeletion, SignOutOfProfile, InSettings
  <1>4. ASSUME NEW deleted \in BOOLEAN, DeletionAnswered(deleted)
        PROVE  ProfileTypeOK'
    BY <1>4 DEF DeletionAnswered
  <1>5. ASSUME NEW n \in Names \cup {NoName}, EditName(n)
        PROVE  ProfileTypeOK'
    BY <1>5 DEF EditName
  <1>6. ASSUME NEW c \in ProfileCalls, NEW byKeyboard \in BOOLEAN, SaveName(c, byKeyboard)
        PROVE  ProfileTypeOK'
    <2>1. CASE value = NoName
      BY <1>6, <2>1 DEF SaveName
    <2>2. CASE value # NoName
      <3>1. Ask(c, "name", value) /\ value \in Names
        BY <1>6, <2>2 DEF SaveName
      <3> HIDE DEF ProfileTypeOK
      <3>2. /\ call' \in [ProfileCalls -> Saves \cup {NoCall}]
            /\ crossed' \in BOOLEAN /\ serverUser' = serverUser /\ unheard' = unheard
        BY <3>1, AskKeepsTypes
      <3> USE DEF ProfileTypeOK
      <3> QED
        BY <1>6, <2>2, <3>2 DEF SaveName
    <2> QED
      BY <2>1, <2>2
  <1>7. ASSUME NEW c \in ProfileCalls, NEW v \in TutorVoices, SelectVoice(c, v)
        PROVE  ProfileTypeOK'
    <2>1. Ask(c, "voice", v)
      BY <1>7 DEF SelectVoice
    <2> HIDE DEF ProfileTypeOK
    <2>2. /\ call' \in [ProfileCalls -> Saves \cup {NoCall}]
          /\ crossed' \in BOOLEAN /\ serverUser' = serverUser /\ unheard' = unheard
      BY <2>1, AskKeepsTypes
    <2> USE DEF ProfileTypeOK
    <2> QED
      BY <1>7, <2>2 DEF SelectVoice, ShownWhenSaved
  <1>8. ASSUME NEW c \in ProfileCalls, SaveServed(c)
        PROVE  ProfileTypeOK'
    <2> HIDE DEF ProfileTypeOK
    <2>1. call' \in [ProfileCalls -> Saves \cup {NoCall}] /\ serverUser' \in Users
      BY <1>8, ServedKeepsTypes
    <2> USE DEF ProfileTypeOK
    <2> QED
      BY <1>8, <2>1 DEF SaveServed
  <1>9. ASSUME NEW c \in ProfileCalls, SaveAnswered(c)
        PROVE  ProfileTypeOK'
    <2> HIDE DEF ProfileTypeOK
    <2>1. user' \in Users /\ call' \in [ProfileCalls -> Saves \cup {NoCall}]
      BY <1>9, AnsweredKeepsTypes
    <2> USE DEF ProfileTypeOK
    <2> QED
      BY <1>9, <2>1 DEF SaveAnswered
  <1>10. ASSUME NEW c \in ProfileCalls, SaveLost(c)
         PROVE  ProfileTypeOK'
    BY <1>10 DEF SaveLost
  <1>11. CASE PlayPreview
    BY <1>11 DEF PlayPreview
  <1>12. ASSUME NEW heard \in BOOLEAN, PreviewEnds(heard)
         PROVE  ProfileTypeOK'
    BY <1>12 DEF PreviewEnds
  <1>13. CASE LeaveProfile
    BY <1>13 DEF LeaveProfile
  <1>14. CASE EnterProfile
    BY <1>14 DEF EnterProfile
  <1>15. CASE UNCHANGED profileVars
    BY <1>15 DEF profileVars
  <1> HIDE DEF ProfileTypeOK, nameVars, deleteVars, userVars
  <1> QED
    BY <1>1, <1>2, <1>3, <1>4, <1>5, <1>6, <1>7, <1>8, <1>9, <1>10, <1>11, <1>12, <1>13,
       <1>14, <1>15
    DEF ProfileNext

(***************************************************************************)
(* The store and the server                                                *)
(***************************************************************************)

\* Whatever is not a save leaves them, and the saves, alone.
LEMMA OnlySavesTouchUsers ==
  ASSUME [ProfileNext]_profileVars
  PROVE  \/ UNCHANGED userVars
         \/ \E c \in ProfileCalls : \E kind, new : Ask(c, kind, new) /\ user' = user
         \/ \E c \in ProfileCalls : SaveServed(c) \/ SaveAnswered(c) \/ SaveLost(c)
PROOF
  <1>1. ASSUME NEW c \in ProfileCalls, NEW byKeyboard \in BOOLEAN, SaveName(c, byKeyboard)
        PROVE  \/ UNCHANGED userVars
               \/ \E d \in ProfileCalls : \E kind, new : Ask(d, kind, new) /\ user' = user
    BY <1>1 DEF SaveName
  <1>2. ASSUME NEW c \in ProfileCalls, NEW v \in TutorVoices, SelectVoice(c, v)
        PROVE  \E d \in ProfileCalls : \E kind, new : Ask(d, kind, new) /\ user' = user
    BY <1>2 DEF SelectVoice, ShownWhenSaved
  <1>3. ASSUME \/ \E s \in {"settings", "name", "voice", "badges"} : OpenSheet(s)
               \/ CloseSheet
               \/ ArmDeletion \/ KeepAccount \/ ConfirmDeletion \/ SignOutOfProfile
               \/ \E deleted \in BOOLEAN : DeletionAnswered(deleted)
               \/ \E n \in Names \cup {NoName} : EditName(n)
               \/ PlayPreview
               \/ \E heard \in BOOLEAN : PreviewEnds(heard)
               \/ LeaveProfile \/ EnterProfile
               \/ UNCHANGED profileVars
        PROVE  UNCHANGED userVars
    BY <1>3 DEF OpenSheet, CloseSheet, ArmDeletion, KeepAccount, ConfirmDeletion,
                SignOutOfProfile, InSettings, DeletionAnswered, EditName, PlayPreview,
                PreviewEnds, LeaveProfile, EnterProfile, profileVars
  <1> QED
    BY <1>1, <1>2, <1>3 DEF ProfileNext

LEMMA UsersStep ==
  ASSUME ProfileInv, [ProfileNext]_profileVars
  PROVE  crossed' \/ unheard' \/ SavesInStep'
PROOF
  <1> DEFINE Goal == crossed' \/ unheard' \/ SavesInStep'
  <1>0. /\ call \in [ProfileCalls -> Saves \cup {NoCall}]
        /\ crossed \/ unheard \/ SavesInStep
        /\ serverUser \in Users /\ user \in Users
    BY DEF ProfileInv, ProfileTypeOK
  <1>1. CASE UNCHANGED userVars
    BY <1>0, <1>1 DEF userVars, SavesInStep, Alone, SaveOK, ShownIsKept
  <1>2. ASSUME NEW c \in ProfileCalls, NEW kind, NEW new, Ask(c, kind, new), user' = user
        PROVE  Goal
    <2>1. CASE crossed \/ unheard \/ crossed'
      BY <1>2, <2>1 DEF Ask
    <2>2. CASE ~(crossed \/ unheard \/ crossed')
      <3>1. \A d \in ProfileCalls : call[d] = NoCall
        BY <1>2, <2>2 DEF Ask
      <3>2. user = serverUser
        BY <1>0, <2>2, <3>1 DEF SavesInStep, ShownIsKept
      <3>3. \A d \in ProfileCalls :
              call'[d] = IF d = c THEN [kind |-> kind, new |-> new, answer |-> NoCall]
                                  ELSE NoCall
        BY <1>0, <1>2, <3>1 DEF Ask
      <3>4. user' = serverUser'
        BY <1>2, <3>2 DEF Ask
      <3> QED
        BY <3>3, <3>4 DEF SavesInStep, Alone, SaveOK, ShownIsKept
    <2> QED
      BY <2>1, <2>2
  <1>3. ASSUME NEW c \in ProfileCalls, SaveServed(c)
        PROVE  Goal
    <2>1. CASE crossed \/ unheard
      BY <1>3, <2>1 DEF SaveServed
    <2>2. CASE ~(crossed \/ unheard)
      <3>0. SavesInStep /\ call[c] # NoCall
        BY <1>0, <1>3, <2>2 DEF SaveServed
      <3>1. serverUser' \in Users
            /\ call' = [call EXCEPT ![c] = [call[c] EXCEPT !.answer = serverUser']]
        BY <1>3, ServedKeepsTypes DEF ProfileInv
      <3>2. \A d \in ProfileCalls : d # c => call[d] = NoCall /\ call'[d] = NoCall
        BY <1>0, <3>0, <3>1 DEF SavesInStep, Alone
      <3>3. PICK s \in Saves : s = call[c]
        BY <1>0, <3>0
      <3>4. call'[c] = [s EXCEPT !.answer = serverUser']
        BY <1>0, <3>1, <3>3
      <3>5. [s EXCEPT !.answer = serverUser'].answer = serverUser'
        BY DEF Saves
      <3>6. [s EXCEPT !.answer = serverUser'] # NoCall /\ serverUser' # NoCall
        <4>1. [s EXCEPT !.answer = serverUser'] \in Saves
          BY <3>1 DEF Saves
        <4> QED
          BY <3>1, <4>1, NoCallIsNothing
      <3> QED
        BY <3>2, <3>4, <3>5, <3>6 DEF SavesInStep, Alone, SaveOK, ShownIsKept
    <2> QED
      BY <2>1, <2>2
  <1>4. ASSUME NEW c \in ProfileCalls, SaveAnswered(c)
        PROVE  Goal
    <2>1. CASE crossed \/ unheard
      BY <1>4, <2>1 DEF SaveAnswered
    <2>2. CASE ~(crossed \/ unheard)
      <3>0. SavesInStep /\ call[c] # NoCall /\ call[c].answer # NoCall
        BY <1>0, <1>4, <2>2 DEF SaveAnswered
      <3>1. call[c].answer = serverUser
        BY <3>0 DEF SavesInStep, SaveOK
      <3>2. user' = serverUser' /\ call' = [call EXCEPT ![c] = NoCall]
        BY <1>4, <3>1 DEF SaveAnswered
      <3>3. \A d \in ProfileCalls : call'[d] = NoCall
        BY <1>0, <3>0, <3>2 DEF SavesInStep, Alone
      <3> QED
        BY <3>2, <3>3 DEF SavesInStep, Alone, SaveOK, ShownIsKept
    <2> QED
      BY <2>1, <2>2
  <1>5. ASSUME NEW c \in ProfileCalls, SaveLost(c)
        PROVE  Goal
    <2>1. CASE crossed \/ unheard \/ call[c].answer # NoCall
      BY <1>5, <2>1 DEF SaveLost
    <2>2. CASE ~(crossed \/ unheard \/ call[c].answer # NoCall)
      <3>0. SavesInStep /\ call[c] # NoCall
        BY <1>0, <1>5, <2>2 DEF SaveLost
      <3>1. user = serverUser
        BY <2>2, <3>0 DEF SavesInStep, SaveOK
      <3>2. /\ user' = serverUser'
            /\ \A d \in ProfileCalls : call'[d] = NoCall
        BY <1>0, <1>5, <3>0, <3>1 DEF SaveLost, SavesInStep, Alone
      <3> QED
        BY <3>2 DEF SavesInStep, Alone, SaveOK, ShownIsKept
    <2> QED
      BY <2>1, <2>2
  <1> QED
    BY <1>1, <1>2, <1>3, <1>4, <1>5, OnlySavesTouchUsers

LEMMA ProfileInvariance ==
  ProfileSpec => []ProfileInv
PROOF
  <1>1. ProfileInit => ProfileInv
    BY ProfileBegins
  <1>2. ProfileInv /\ [ProfileNext]_profileVars => ProfileInv'
    BY ProfileTypeStep, UsersStep DEF ProfileInv
  <1> QED
    BY <1>1, <1>2, PTL DEF ProfileSpec

(***************************************************************************)
(* The profile: the theorems                                               *)
(***************************************************************************)

\* Type correctness of the screen, its sheets and the saves under way.
THEOREM ProfileTyped == ProfileSpec => []ProfileTypeOK
PROOF
  <1>1. ProfileInv => ProfileTypeOK
    BY DEF ProfileInv
  <1> QED
    BY <1>1, ProfileInvariance, PTL

\* With nothing under way the app shows what the server keeps, unless saves
\* overlapped or an answer was lost, for any number of saves and over every way of
\* closing, leaving and coming back to the screen.
THEOREM ProfileIsTruthful == ProfileSpec => []ShownIsKept
PROOF
  <1>1. ProfileInv => ShownIsKept
    BY DEF ProfileInv, SavesInStep, ShownIsKept
  <1> QED
    BY <1>1, ProfileInvariance, PTL

(***************************************************************************)
(* The course: the inductive invariant                                     *)
(***************************************************************************)

Asks == [at : {"none", "sent", "served"}, want : Pairs \cup {Unset}, got : Courses \cup {Unset}]

\* A call that is not out carries nothing, one that was served a course; an open picker
\* shows two languages.
AsksOK ==
  \A c \in LanguageCalls : /\ asks[c].at = "none"   => asks[c] = NoAsk
                           /\ asks[c].at = "served" => asks[c].got \in Courses
PickerOK == picker.open => picker.speak \in Languages /\ picker.target \in Languages

BeforeSignIn == ~ signedIn => Out = {} /\ planetsOf = Unset /\ chosen = Unset

PlanetsOK == ~ picker.open /\ ~ planetsStale /\ ~ unseen => planetsOf \in {Unset, serverCourse}

PickerShows == Course(picker.speak, picker.target)

ChoiceInStep ==
  /\ userCourse = serverCourse /\ stored = serverCourse /\ locale = serverCourse.base
  /\ chosen # Unset => serverCourse = chosen
  /\ picker.open => PickerShows = serverCourse

\* What a call alone is about to make of the copies.
AskOK(c) ==
  IF asks[c].want = Unset
    THEN ChoiceInStep /\ (asks[c].at = "served" => asks[c].got = serverCourse)
    ELSE /\ chosen = asks[c].want
         /\ picker.open => PickerShows = asks[c].want
         /\ asks[c].at = "served" => asks[c].got = asks[c].want /\ serverCourse = asks[c].want

CopiesOK ==
  signedIn /\ ~ muddled =>
    /\ \A c, d \in Out : c = d
    /\ Out = {} => ChoiceInStep
    /\ \A c \in Out : AskOK(c)

CourseInv == CourseTypeOK /\ AsksOK /\ PickerOK /\ BeforeSignIn /\ PlanetsOK /\ CopiesOK

LEMMA CoursesArePairs ==
  /\ Courses \subseteq Pairs /\ Unset \notin Pairs /\ Unset \notin Languages
  /\ \A p \in Courses : p.base \in Languages /\ p.target \in Languages /\ Course(p.base, p.target) = p
  /\ \A b, t \in Languages : Course(b, t) \in Pairs /\ (b # t => Course(b, t) \in Courses)
PROOF
  BY UnsetIsNothing DEF Courses, Pairs, Course

LEMMA CourseBegins == CourseInit => CourseInv
PROOF
  <1> SUFFICES ASSUME CourseInit PROVE CourseInv
    OBVIOUS
  <1>1. NoAsk \in Asks /\ NoAsk.at = "none" /\ Closed.open = FALSE
        /\ Closed \in [open : BOOLEAN, speak : Languages \cup {Unset}, target : Languages \cup {Unset}]
    BY DEF NoAsk, Asks, Closed
  <1>2. CourseTypeOK
    BY <1>1 DEF CourseInit, CourseTypeOK, Asks
  <1>3. Out = {} /\ AsksOK
    BY <1>1 DEF CourseInit, Out, AsksOK
  <1> QED
    BY <1>1, <1>2, <1>3 DEF CourseInit, CourseInv, PickerOK, BeforeSignIn, PlanetsOK, CopiesOK

\* One call changes.
LEMMA AskChanges ==
  ASSUME CourseTypeOK, AsksOK, NEW c \in LanguageCalls, NEW new \in Asks,
         asks' = [asks EXCEPT ![c] = new], new.at = "none" => new = NoAsk,
         new.at = "served" => new.got \in Courses
  PROVE  /\ asks' \in [LanguageCalls -> Asks] /\ AsksOK'
         /\ Out' = IF new.at = "none" THEN Out \ {c} ELSE Out \cup {c}
         /\ asks'[c] = new /\ \A d \in LanguageCalls : d # c => asks'[d] = asks[d]
PROOF
  <1>1. asks \in [LanguageCalls -> Asks]
    BY DEF CourseTypeOK, Asks
  <1> QED
    BY <1>1 DEF AsksOK, Out

\* What the picker can pick.
LEMMA PicksCourses ==
  ASSUME CourseTypeOK, PickerOK
  PROVE  /\ InitialSpeak \in Languages
         /\ \A speak : InitialTargets(speak) \subseteq Targets(speak)
         /\ \A speak : Targets(speak) \subseteq Languages
         /\ userCourse # Unset => userCourse.target \in Languages /\ userCourse.base \in Languages
PROOF
  <1>1. userCourse # Unset => userCourse \in Courses
    BY DEF CourseTypeOK
  <1>2. stored # Unset => stored \in Courses
    BY DEF CourseTypeOK
  <1>3. InitialSpeak \in Languages
    BY <1>1, <1>2, CoursesArePairs DEF InitialSpeak, SpeakFromStorage, CourseTypeOK
  <1> QED
    BY <1>1, <1>3, CoursesArePairs DEF InitialTargets, Targets

LEMMA OpenPickerInv ==
  ASSUME CourseInv, OpenPicker
  PROVE  CourseInv'
PROOF
  <1>0. CourseTypeOK /\ AsksOK /\ PickerOK /\ BeforeSignIn /\ CopiesOK /\ ~ picker.open
    BY DEF CourseInv, OpenPicker
  <1>1. PICK t \in IF userCourse # Unset THEN {userCourse.target} ELSE InitialTargets(InitialSpeak) :
          picker' = [open |-> TRUE, speak |-> InitialSpeak, target |-> t]
    BY DEF OpenPicker
  <1>2. InitialSpeak \in Languages /\ t \in Languages
    BY <1>0, PicksCourses
  <1>3. /\ UNCHANGED << serverCourse, userCourse, stored, locale, signedIn, asks, planetsOf,
                        planetsStale, unseen >>
        /\ muddled' = (muddled \/ Out # {})
        /\ chosen' = IF muddled' THEN Unset ELSE chosen
    BY DEF OpenPicker, Muddles
  <1>4. CourseTypeOK' /\ AsksOK' /\ PickerOK' /\ BeforeSignIn' /\ PlanetsOK'
    BY <1>0, <1>1, <1>2, <1>3 DEF CourseTypeOK, AsksOK, PickerOK, BeforeSignIn, PlanetsOK, Out
  <1>5. CopiesOK'
    <2>1. SUFFICES ASSUME signedIn', ~ muddled'
                   PROVE  Out' = {} /\ ChoiceInStep'
      BY DEF CopiesOK, Out
    <2>2. signedIn /\ ~ muddled /\ Out = {} /\ Out' = {} /\ ChoiceInStep
      BY <1>0, <1>3, <2>1 DEF CopiesOK, Out
    <2>3. userCourse \in Courses /\ t = userCourse.target /\ InitialSpeak = userCourse.base
      BY <1>0, <1>1, <2>2, CoursesArePairs DEF ChoiceInStep, CourseTypeOK, InitialSpeak
    <2>4. PickerShows' = userCourse
      BY <1>1, <2>3, CoursesArePairs DEF PickerShows
    <2> QED
      BY <1>1, <1>3, <2>1, <2>2, <2>4 DEF ChoiceInStep
  <1> QED
    BY <1>4, <1>5 DEF CourseInv

\* A call about the course goes out, of which the picker, when it is open, shows the pair.
LEMMA AskLanguageInv ==
  ASSUME CourseInv, signedIn, NEW c \in LanguageCalls, NEW course \in Pairs, AskLanguage(c, course),
         picker' \in [open : BOOLEAN, speak : Languages \cup {Unset}, target : Languages \cup {Unset}],
         PickerOK', picker'.open = picker.open, picker.open => PickerShows' = course,
         stored' \in Courses \cup {Unset}, locale' \in Languages,
         UNCHANGED << serverCourse, userCourse, signedIn, planetsOf, planetsStale, unseen >>
  PROVE  CourseInv'
PROOF
  <1> DEFINE new == [at |-> "sent", want |-> course, got |-> Unset]
  <1>0. CourseTypeOK /\ AsksOK /\ PlanetsOK
    BY DEF CourseInv
  <1>1. /\ asks' = [asks EXCEPT ![c] = new] /\ new \in Asks /\ new.at = "sent" /\ new.want = course
        /\ muddled' = (Out # {}) /\ chosen' = IF muddled' THEN Unset ELSE course
    BY DEF AskLanguage, Asks
  <1> HIDE DEF new
  <1>2. /\ asks' \in [LanguageCalls -> Asks] /\ AsksOK' /\ Out' = Out \cup {c} /\ asks'[c] = new
    BY <1>0, <1>1, AskChanges
  <1>3. CourseTypeOK'
    <2>1. chosen' \in Pairs \cup {Unset} /\ muddled' \in BOOLEAN
      BY <1>1
    <2> QED
      BY <1>0, <1>2, <2>1 DEF CourseTypeOK, Asks
  <1>4. BeforeSignIn' /\ PlanetsOK'
    BY <1>0 DEF BeforeSignIn, PlanetsOK
  <1>5. CopiesOK'
    <2>1. SUFFICES ASSUME ~ muddled'
                   PROVE  (\A e, d \in Out' : e = d) /\ Out' # {} /\ \A d \in Out' : AskOK(d)'
      BY DEF CopiesOK
    <2>2. Out' = {c} /\ chosen' = course /\ course # Unset
      BY <1>1, <1>2, <2>1, CoursesArePairs
    <2>3. AskOK(c)'
      BY <1>1, <1>2, <2>2 DEF AskOK
    <2> QED
      BY <2>2, <2>3
  <1> QED
    BY <1>2, <1>3, <1>4, <1>5 DEF CourseInv

LEMMA SelectTargetInv ==
  ASSUME CourseInv, NEW speak \in Languages, NEW code \in Languages, speak # code,
         SelectTarget(speak, code, Course(speak, code)), locale' \in Languages
  PROVE  CourseInv'
PROOF
  <1> DEFINE course == Course(speak, code)
  <1>0. CourseTypeOK /\ AsksOK /\ BeforeSignIn /\ PlanetsOK
    BY DEF CourseInv
  <1>1. course \in Courses /\ course \in Pairs
    BY CoursesArePairs
  <1>2. /\ picker.open /\ picker' = [picker EXCEPT !.speak = speak, !.target = code]
        /\ stored' = course
        /\ UNCHANGED << serverCourse, userCourse, signedIn, planetsOf, planetsStale, unseen >>
    BY DEF SelectTarget
  <1>3. /\ picker' \in [open : BOOLEAN, speak : Languages \cup {Unset}, target : Languages \cup {Unset}]
        /\ picker'.open /\ picker'.speak = speak /\ picker'.target = code
    BY <1>0, <1>2 DEF CourseTypeOK
  <1>4. PickerOK' /\ PickerShows' = course
    BY <1>3 DEF PickerOK, PickerShows
  <1> HIDE DEF course
  <1>5. CASE signedIn
    <2>1. PICK c \in LanguageCalls : AskLanguage(c, course)
      BY <1>5 DEF SelectTarget, course
    <2> QED
      BY <1>1, <1>2, <1>3, <1>4, <1>5, <2>1, AskLanguageInv
  <1>6. CASE ~ signedIn
    <2>1. UNCHANGED << asks, chosen, muddled >>
      BY <1>6 DEF SelectTarget
    <2> QED
      BY <1>0, <1>1, <1>2, <1>3, <1>4, <1>6, <2>1
         DEF CourseInv, CourseTypeOK, AsksOK, BeforeSignIn, PlanetsOK, CopiesOK, Out
  <1> QED
    BY <1>5, <1>6

LEMMA PickingInv ==
  ASSUME CourseInv,
         \/ \E next \in Languages : SelectSpeak(next)
         \/ \E code \in Languages : PickTarget(code)
         \/ Cycle
  PROVE  CourseInv'
PROOF
  <1>0. CourseTypeOK /\ PickerOK /\ AsksOK
    BY DEF CourseInv
  <1>1. ASSUME NEW next \in Languages, SelectSpeak(next)
        PROVE  CourseInv'
    <2>1. PICK t \in InitialTargets(next) : SelectTarget(next, t, Course(next, t))
      BY <1>1 DEF SelectSpeak, BaseFor
    <2>2. t \in Languages /\ t # next
      BY <1>0, PicksCourses DEF Targets
    <2> QED
      BY <1>1, <2>1, <2>2, SelectTargetInv DEF SelectSpeak
  <1>2. ASSUME NEW code \in Languages, PickTarget(code)
        PROVE  CourseInv'
    <2>1. picker.open /\ picker.speak \in Languages /\ code # picker.speak
      BY <1>0, <1>2 DEF PickTarget, SelectTarget, PickerOK, Targets
    <2>2. locale' \in Languages
      BY <1>0, <1>2 DEF PickTarget, CourseTypeOK
    <2> QED
      BY <1>2, <2>1, <2>2, SelectTargetInv DEF PickTarget
  <1>3. CASE Cycle
    <2>1. PICK next \in Languages \ {locale, userCourse.target}, c \in LanguageCalls :
            AskLanguage(c, Course(next, userCourse.target))
      BY <1>3 DEF Cycle
    <2>2. /\ signedIn /\ ~ picker.open
          /\ UNCHANGED << serverCourse, userCourse, stored, locale, signedIn, picker, planetsOf,
                          planetsStale, unseen >>
      BY <1>3 DEF Cycle
    <2>3. Course(next, userCourse.target) \in Pairs
      BY <1>0, <1>3, PicksCourses, CoursesArePairs DEF Cycle
    <2>4. /\ picker' \in [open : BOOLEAN, speak : Languages \cup {Unset}, target : Languages \cup {Unset}]
          /\ PickerOK' /\ stored' \in Courses \cup {Unset} /\ locale' \in Languages
      BY <1>0, <2>2 DEF CourseTypeOK, PickerOK
    <2> QED
      BY <2>1, <2>2, <2>3, <2>4, AskLanguageInv
  <1> QED
    BY <1>1, <1>2, <1>3

LEMMA ClosePickerInv ==
  ASSUME CourseInv, ClosePicker
  PROVE  CourseInv'
PROOF
  <1>0. CourseTypeOK /\ AsksOK /\ BeforeSignIn /\ CopiesOK
    BY DEF CourseInv
  <1>1. /\ picker' = Closed /\ planetsStale' = (planetsStale \/ CloseInvalidates)
        /\ UNCHANGED << serverCourse, userCourse, stored, locale, signedIn, asks, planetsOf, chosen,
                        muddled, unseen >>
    BY DEF ClosePicker
  <1>2. CourseTypeOK'
    <2>1. planetsStale' \in BOOLEAN
      BY <1>0, <1>1 DEF CourseTypeOK
    <2>2. picker' \in [open : BOOLEAN, speak : Languages \cup {Unset}, target : Languages \cup {Unset}]
      BY <1>1 DEF Closed
    <2> QED
      BY <1>0, <1>1, <2>1, <2>2 DEF CourseTypeOK
  <1>3. AsksOK' /\ BeforeSignIn' /\ PickerOK'
    BY <1>0, <1>1 DEF AsksOK, BeforeSignIn, PickerOK, Out, Closed
  <1>4. PlanetsOK'
    BY <1>0, <1>1 DEF PlanetsOK, CloseInvalidates, BeforeSignIn
  <1>5. CopiesOK'
    <2>1. ~ picker'.open /\ Out' = Out
      BY <1>1 DEF Closed, Out
    <2>2. ChoiceInStep => ChoiceInStep'
      BY <1>1, <2>1 DEF ChoiceInStep
    <2>3. \A c \in Out : AskOK(c) => AskOK(c)'
      BY <1>1, <2>1, <2>2 DEF AskOK
    <2> QED
      BY <1>0, <1>1, <2>1, <2>2, <2>3 DEF CopiesOK
  <1> QED
    BY <1>2, <1>3, <1>4, <1>5 DEF CourseInv

LEMMA AskOtherInv ==
  ASSUME CourseInv, NEW c \in LanguageCalls, AskOther(c)
  PROVE  CourseInv'
PROOF
  <1> DEFINE new == [asks[c] EXCEPT !.at = "sent"]
  <1>0. CourseTypeOK /\ AsksOK /\ PickerOK /\ PlanetsOK /\ CopiesOK /\ signedIn
    BY DEF CourseInv, AskOther
  <1>1. /\ asks' = [asks EXCEPT ![c] = new] /\ asks[c] = NoAsk
        /\ muddled' = (muddled \/ Out # {}) /\ chosen' = IF muddled' THEN Unset ELSE chosen
        /\ UNCHANGED << serverCourse, userCourse, stored, locale, signedIn, picker, planetsOf,
                        planetsStale, unseen >>
    BY <1>0 DEF AskOther, Muddles, AsksOK
  <1>2. new \in Asks /\ new.at = "sent" /\ new.want = Unset
    BY <1>1 DEF Asks, NoAsk
  <1> HIDE DEF new
  <1>3. /\ asks' \in [LanguageCalls -> Asks] /\ AsksOK' /\ Out' = Out \cup {c} /\ asks'[c] = new
    BY <1>0, <1>1, <1>2, AskChanges
  <1>4. CourseTypeOK'
    <2>1. chosen' \in Pairs \cup {Unset} /\ muddled' \in BOOLEAN
      BY <1>0, <1>1 DEF CourseTypeOK
    <2> QED
      BY <1>0, <1>1, <1>3, <2>1 DEF CourseTypeOK, Asks
  <1>5. BeforeSignIn' /\ PlanetsOK' /\ PickerOK'
    BY <1>0, <1>1 DEF BeforeSignIn, PlanetsOK, PickerOK
  <1>6. CopiesOK'
    <2>1. SUFFICES ASSUME ~ muddled'
                   PROVE  (\A e, d \in Out' : e = d) /\ Out' # {} /\ \A d \in Out' : AskOK(d)'
      BY DEF CopiesOK
    <2>2. ~ muddled /\ Out = {} /\ Out' = {c} /\ chosen' = chosen
      BY <1>1, <1>3, <2>1
    <2>3. ChoiceInStep'
      BY <1>0, <1>1, <2>2 DEF CopiesOK, ChoiceInStep, PickerShows
    <2>4. AskOK(c)'
      BY <1>2, <1>3, <2>3 DEF AskOK
    <2> QED
      BY <2>2, <2>4
  <1> QED
    BY <1>3, <1>4, <1>5, <1>6 DEF CourseInv

LEMMA ServeInv ==
  ASSUME CourseInv, NEW c \in LanguageCalls, Serve(c)
  PROVE  CourseInv'
PROOF
  <1> DEFINE new == [asks[c] EXCEPT !.at = "served", !.got = serverCourse']
  <1>0. CourseTypeOK /\ AsksOK /\ PickerOK /\ BeforeSignIn /\ PlanetsOK /\ CopiesOK
    BY DEF CourseInv
  <1>1. /\ asks[c].at = "sent" /\ asks[c].want \in Courses \cup {Unset} /\ asks[c] \in Asks
        /\ serverCourse' = IF asks[c].want = Unset THEN serverCourse ELSE asks[c].want
        /\ asks' = [asks EXCEPT ![c] = new]
        /\ unseen' = (unseen \/ (serverCourse' # serverCourse /\ ~ picker.open))
        /\ UNCHANGED << userCourse, stored, locale, signedIn, picker, planetsOf, planetsStale,
                        chosen, muddled >>
    BY <1>0 DEF Serve, CourseTypeOK, Asks
  <1>2. serverCourse' \in Courses
    BY <1>0, <1>1 DEF CourseTypeOK
  <1>3. new \in Asks /\ new.at = "served" /\ new.got = serverCourse' /\ new.want = asks[c].want
    BY <1>1, <1>2 DEF Asks
  <1> HIDE DEF new
  <1>4. /\ asks' \in [LanguageCalls -> Asks] /\ AsksOK' /\ Out' = Out \cup {c} /\ asks'[c] = new
        /\ c \in Out
    BY <1>0, <1>1, <1>2, <1>3, AskChanges DEF Out
  <1>5. CourseTypeOK'
    <2>1. unseen' \in BOOLEAN
      BY <1>0, <1>1 DEF CourseTypeOK
    <2> QED
      BY <1>0, <1>1, <1>2, <1>4, <2>1 DEF CourseTypeOK, Asks
  <1>6. BeforeSignIn' /\ PlanetsOK' /\ PickerOK'
    BY <1>0, <1>1, <1>4 DEF BeforeSignIn, PlanetsOK, PickerOK
  <1>7. CopiesOK'
    <2>1. SUFFICES ASSUME signedIn', ~ muddled'
                   PROVE  (\A e, d \in Out' : e = d) /\ Out' # {} /\ \A d \in Out' : AskOK(d)'
      BY DEF CopiesOK
    <2>2. (\A e, d \in Out : e = d) /\ AskOK(c) /\ Out' = {c}
      BY <1>0, <1>1, <1>4, <2>1 DEF CopiesOK
    <2>3. AskOK(c)'
      <3>1. CASE asks[c].want = Unset
        <4>1. serverCourse' = serverCourse /\ ChoiceInStep
          BY <1>1, <2>2, <3>1 DEF AskOK
        <4>2. ChoiceInStep'
          BY <1>1, <4>1 DEF ChoiceInStep, PickerShows
        <4> QED
          BY <1>3, <1>4, <3>1, <4>2 DEF AskOK
      <3>2. CASE asks[c].want # Unset
        BY <1>1, <1>3, <1>4, <2>2, <3>2 DEF AskOK, PickerShows
      <3> QED
        BY <3>1, <3>2
    <2> QED
      BY <2>2, <2>3
  <1> QED
    BY <1>4, <1>5, <1>6, <1>7 DEF CourseInv

LEMMA AnswerInv ==
  ASSUME CourseInv, NEW c \in LanguageCalls, Answer(c)
  PROVE  CourseInv'
PROOF
  <1>0. CourseTypeOK /\ AsksOK /\ PickerOK /\ BeforeSignIn /\ PlanetsOK /\ CopiesOK
    BY DEF CourseInv
  <1>1. /\ asks[c].at = "served" /\ asks[c].got \in Courses
        /\ stored' = asks[c].got /\ locale' = asks[c].got.base
        /\ \/ userCourse' = asks[c].got
           \/ asks[c].want = Unset /\ userCourse' = userCourse
        /\ asks' = [asks EXCEPT ![c] = NoAsk]
        /\ UNCHANGED << serverCourse, signedIn, picker, planetsOf, planetsStale, chosen, muddled,
                        unseen >>
    BY <1>0 DEF Answer, PersistUser, AsksOK
  <1>2. NoAsk \in Asks /\ NoAsk.at = "none"
    BY DEF NoAsk, Asks
  <1>3. /\ asks' \in [LanguageCalls -> Asks] /\ AsksOK' /\ Out' = Out \ {c} /\ c \in Out
    BY <1>0, <1>1, <1>2, AskChanges DEF Out
  <1>4. CourseTypeOK'
    BY <1>0, <1>1, <1>3, CoursesArePairs DEF CourseTypeOK, Asks
  <1>5. BeforeSignIn' /\ PlanetsOK' /\ PickerOK'
    BY <1>0, <1>1, <1>3 DEF BeforeSignIn, PlanetsOK, PickerOK
  <1>6. CopiesOK'
    <2>1. SUFFICES ASSUME signedIn', ~ muddled'
                   PROVE  Out' = {} /\ ChoiceInStep'
      BY DEF CopiesOK
    <2>2. (\A e, d \in Out : e = d) /\ AskOK(c) /\ Out' = {}
      BY <1>0, <1>1, <1>3, <2>1 DEF CopiesOK
    <2>3. asks[c].want # Unset => asks[c].want = serverCourse /\ asks[c].got = serverCourse
      BY <1>1, <2>2 DEF AskOK
    <2>4. ChoiceInStep'
      BY <1>1, <2>2, <2>3 DEF AskOK, ChoiceInStep, PickerShows
    <2> QED
      BY <2>2, <2>4
  <1> QED
    BY <1>3, <1>4, <1>5, <1>6 DEF CourseInv

LEMMA FailsInv ==
  ASSUME CourseInv, NEW c \in LanguageCalls, LanguageCallFails(c)
  PROVE  CourseInv'
PROOF
  <1>0. CourseTypeOK /\ AsksOK /\ PickerOK /\ BeforeSignIn /\ PlanetsOK /\ CopiesOK
    BY DEF CourseInv
  <1>1. /\ asks[c].at # "none" /\ asks' = [asks EXCEPT ![c] = NoAsk]
        /\ muddled' = (muddled \/ asks[c].want # Unset)
        /\ chosen' = IF muddled' THEN Unset ELSE chosen
        /\ UNCHANGED << serverCourse, userCourse, stored, locale, signedIn, picker, planetsOf,
                        planetsStale, unseen >>
    BY DEF LanguageCallFails, Muddles
  <1>2. NoAsk \in Asks /\ NoAsk.at = "none"
    BY DEF NoAsk, Asks
  <1>3. /\ asks' \in [LanguageCalls -> Asks] /\ AsksOK' /\ Out' = Out \ {c} /\ c \in Out
    BY <1>0, <1>1, <1>2, AskChanges DEF Out
  <1>4. CourseTypeOK'
    <2>1. chosen' \in Pairs \cup {Unset} /\ muddled' \in BOOLEAN
      BY <1>0, <1>1 DEF CourseTypeOK
    <2> QED
      BY <1>0, <1>1, <1>3, <2>1 DEF CourseTypeOK, Asks
  <1>5. BeforeSignIn' /\ PlanetsOK' /\ PickerOK'
    BY <1>0, <1>1, <1>3 DEF BeforeSignIn, PlanetsOK, PickerOK
  <1>6. CopiesOK'
    <2>1. SUFFICES ASSUME signedIn', ~ muddled'
                   PROVE  Out' = {} /\ ChoiceInStep'
      BY DEF CopiesOK
    <2>2. ~ muddled /\ asks[c].want = Unset /\ chosen' = chosen
      BY <1>1, <2>1
    <2>3. (\A e, d \in Out : e = d) /\ AskOK(c) /\ Out' = {}
      BY <1>0, <1>1, <1>3, <2>1, <2>2 DEF CopiesOK
    <2>4. ChoiceInStep'
      BY <1>1, <2>2, <2>3 DEF AskOK, ChoiceInStep, PickerShows
    <2> QED
      BY <2>3, <2>4
  <1> QED
    BY <1>3, <1>4, <1>5, <1>6 DEF CourseInv

LEMMA SignInToCourseInv ==
  ASSUME CourseInv, SignInToCourse
  PROVE  CourseInv'
PROOF
  <1>0. CourseTypeOK /\ AsksOK /\ PickerOK /\ BeforeSignIn /\ PlanetsOK /\ CopiesOK
    BY DEF CourseInv
  <1>1. /\ ~ signedIn /\ ~ picker.open /\ signedIn' = TRUE
        /\ serverCourse' \in {serverCourse} \cup ({stored} \ {Unset})
        /\ stored' = serverCourse' /\ locale' = serverCourse'.base /\ userCourse' = serverCourse'
        /\ UNCHANGED << picker, asks, planetsOf, planetsStale, chosen, muddled, unseen >>
    BY DEF SignInToCourse, PersistUser
  <1>2. serverCourse' \in Courses
    BY <1>0, <1>1 DEF CourseTypeOK
  <1>3. CourseTypeOK'
    BY <1>0, <1>1, <1>2, CoursesArePairs DEF CourseTypeOK
  <1>4. Out' = {} /\ planetsOf = Unset /\ chosen = Unset
    BY <1>0, <1>1 DEF BeforeSignIn, Out
  <1> QED
    BY <1>0, <1>1, <1>3, <1>4
       DEF CourseInv, AsksOK, PickerOK, BeforeSignIn, PlanetsOK, CopiesOK, ChoiceInStep

LEMMA FetchPlanetsInv ==
  ASSUME CourseInv, FetchPlanets
  PROVE  CourseInv'
PROOF
  BY DEF FetchPlanets, CourseInv, CourseTypeOK, AsksOK, PickerOK, BeforeSignIn, PlanetsOK,
     CopiesOK,
         AskOK, ChoiceInStep, PickerShows, Out

LEMMA CourseInvariance == CourseSpec => []CourseInv
PROOF
  <1>1. CourseInit => CourseInv
    BY CourseBegins
  <1>2. CourseInv /\ [CourseNext]_courseVars => CourseInv'
    <2> SUFFICES ASSUME CourseInv, [CourseNext]_courseVars
                 PROVE  CourseInv'
      OBVIOUS
    <2>1. CASE UNCHANGED courseVars
      BY <2>1 DEF courseVars, CourseInv, CourseTypeOK, AsksOK, PickerOK, BeforeSignIn, PlanetsOK,
                  CopiesOK, AskOK, ChoiceInStep, PickerShows, Out
    <2>2. CASE CourseNext
      BY <2>2, OpenPickerInv, PickingInv, ClosePickerInv, AskOtherInv, ServeInv, AnswerInv,
         FailsInv,
         SignInToCourseInv, FetchPlanetsInv DEF CourseNext
    <2> QED
      BY <2>1, <2>2
  <1> QED
    BY <1>1, <1>2, PTL DEF CourseSpec

\* Every copy of the course is one, whatever pair the picker sends: selectTarget stores
\* only a target its base teaches (LanguagePickerScreen, store/auth.ts).
THEOREM CourseTyped == CourseSpec => []CourseTypeOK
PROOF
  <1>1. CourseInv => CourseTypeOK
    BY DEF CourseInv
  <1> QED
    BY <1>1, CourseInvariance, PTL

\* Once every call is answered the account, the store, plain storage, the locale and an
\* open picker agree on the course last picked, unless calls overlapped, the last choice
\* failed or the picker opened under a call; and planets not marked stale are of the
\* account's course, unless it changed with the picker closed (setLanguage, persistUser,
\* closeLanguagePicker).
THEOREM CopiesStayTogether == CourseSpec => []CopiesAgree
PROOF
  <1>1. CourseInv => CopiesAgree
    BY DEF CourseInv, CopiesAgree, CopiesOK, ChoiceInStep, PlanetsOK, PickerShows
  <1> QED
    BY <1>1, CourseInvariance, PTL

(***************************************************************************)
(* The query cache: the inductive invariant                                *)
(***************************************************************************)

\* Signed out, nothing is on screen, cached or out.
EmptySignedOut ==
  holder = Nobody =>
    onScreen = {} /\ \A k \in Keys : cache[k] = Nobody /\ fetch[k] = Nobody

\* Only what is missing or marked is fetched.
FetchingIsStale ==
  \A k \in Keys : cache[k] # Nobody /\ fetch[k] # Nobody => cache[k].stale

\* A mutation of the learner's has changed what k shows and has not reported back.
Pending(k) ==
  job # Nobody /\ job.owner = holder /\ job.at = "served" /\ k \in Touches(job.what)

Current(k, v) == v = version[holder][k] \/ Pending(k)

\* What has been read, and what is being brought, is what the server has, or is about
\* to be marked.
KeyCurrent(k) ==
  /\ fetch[k] # Nobody /\ fetch[k].at = "served" => Current(k, fetch[k].version)
  /\ cache[k] # Nobody /\ ~cache[k].stale /\ fetch[k] = Nobody => Current(k, cache[k].version)

CachedOK == \A k \in Keys \ excused : KeyCurrent(k)

CacheInv == CacheTypeOK /\ EmptySignedOut /\ FreshIsOwn /\ FetchingIsStale /\ CachedOK

\* Every key a mutation changes is invalidated by its hook, but for those forgotten;
\* and what is said to be forgotten is changed and not invalidated.
LEMMA InvalidatedOrForgotten ==
  ASSUME NEW m \in Mutations
  PROVE  Touches(m) \subseteq Invalidates(m) \cup Forgotten(m)
PROOF
  <1> USE DEF Touches, Reads, Writes, Invalidates, Forgotten, OnProgress, ProgressWrites,
              CardWrites, TalkWrites, StoryWrites, ProgressInvalidates, StoryInvalidates,
              CardInvalidates, TalkInvalidates
  <1>1. CASE m = "bump"
    BY <1>1
  <1>2. CASE m = "master"
    BY <1>2
  <1>3. CASE m = "complete"
    BY <1>3
  <1>4. CASE m = "produce"
    BY <1>4
  <1>5. CASE m = "review"
    BY <1>5
  <1>6. CASE m = "create"
    BY <1>6
  <1>7. CASE m = "correction"
    BY <1>7
  <1>8. CASE m = "confirm"
    BY <1>8
  <1>9. CASE m = "talk"
    BY <1>9
  <1>10. CASE m = "correct"
    BY <1>10
  <1>11. CASE m = "finish"
    BY <1>11
  <1>12. CASE m = "listen"
    BY <1>12
  <1> QED
    BY <1>1, <1>2, <1>3, <1>4, <1>5, <1>6, <1>7, <1>8, <1>9, <1>10, <1>11, <1>12,
       KnownMutations

LEMMA CacheBegins ==
  CacheInit => CacheInv
PROOF
  <1> SUFFICES ASSUME CacheInit PROVE CacheInv
    OBVIOUS
  <1>1. CacheTypeOK
    BY VersionsCount DEF CacheInit, CacheTypeOK
  <1>2. EmptySignedOut /\ FreshIsOwn /\ FetchingIsStale /\ CachedOK
    BY DEF CacheInit, EmptySignedOut, FreshIsOwn, FetchingIsStale, CachedOK, KeyCurrent
  <1> QED
    BY <1>1, <1>2 DEF CacheInv

(***************************************************************************)
(* Types                                                                   *)
(***************************************************************************)

LEMMA TypeStep ==
  CacheTypeOK /\ [CacheNext]_cacheVars => CacheTypeOK'
PROOF
  <1> SUFFICES ASSUME CacheTypeOK, [CacheNext]_cacheVars PROVE CacheTypeOK'
    OBVIOUS
  <1> USE VersionsCount DEF CacheTypeOK
  <1>1. ASSUME NEW k \in Keys, UseQuery(k) PROVE CacheTypeOK'
    BY <1>1 DEF UseQuery, Asked, Fetches
  <1>2. ASSUME NEW k \in Keys, LeaveScreen(k) PROVE CacheTypeOK'
    BY <1>2 DEF LeaveScreen
  <1>3. ASSUME NEW k \in Keys, holder # Nobody, ServeFetch(k) PROVE CacheTypeOK'
    <2>1. [at |-> "served", version |-> version[holder][k]] \in Fetches
      BY <1>3 DEF Fetches
    <2> QED
      BY <1>3, <2>1 DEF ServeFetch
  <1>4. ASSUME NEW k \in Keys, holder # Nobody, FetchArrives(k) PROVE CacheTypeOK'
    <2>1. fetch[k].version \in 0 .. MaxVersion
      BY <1>4 DEF FetchArrives, Fetches
    <2>2. [owner |-> holder, version |-> fetch[k].version, stale |-> FALSE] \in Entries
      BY <1>4, <2>1 DEF Entries
    <2> QED
      BY <1>4, <2>2 DEF FetchArrives
  <1>5. ASSUME NEW k \in Keys, FetchFails(k) PROVE CacheTypeOK'
    BY <1>5 DEF FetchFails
  <1>6. ASSUME NEW k \in Keys, Ages(k) PROVE CacheTypeOK'
    <2>1. PICK e \in Entries : e = cache[k]
      BY <1>6 DEF Ages
    <2>2. [e EXCEPT !.stale = TRUE] \in Entries
      BY DEF Entries
    <2>3. cache' = [cache EXCEPT ![k] = [e EXCEPT !.stale = TRUE]]
      BY <1>6, <2>1 DEF Ages
    <2> QED
      BY <1>6, <2>2, <2>3 DEF Ages
  <1>7. ASSUME NEW m \in Mutations, Mutate(m) PROVE CacheTypeOK'
    <2>1. [what |-> m, owner |-> holder, at |-> "sent"] \in Jobs
      BY <1>7 DEF Mutate, Jobs
    <2> QED
      BY <1>7, <2>1 DEF Mutate
  <1>8. CASE ServeMutation
    <2>1. PICK j \in Jobs : j = job
      BY <1>8 DEF ServeMutation
    <2>2. [j EXCEPT !.at = "served"] \in Jobs /\ j.owner \in Accounts
      BY DEF Jobs
    <2>3. \A k \in Touches(j.what) \cap Keys : version[j.owner][k] + 1 \in 0 .. MaxVersion
      BY <1>8, <2>1, <2>2 DEF ServeMutation
    <2>4. [k \in Keys |-> IF k \in Touches(j.what) THEN version[j.owner][k] + 1
                                                    ELSE version[j.owner][k]]
            \in [Keys -> 0 .. MaxVersion]
      BY <2>2, <2>3
    <2>5. version' = [version EXCEPT ![j.owner] =
            [k \in Keys |-> IF k \in Touches(j.what) THEN version[j.owner][k] + 1
                                                      ELSE version[j.owner][k]]]
      BY <1>8, <2>1 DEF ServeMutation
    <2>6. version' \in [Accounts -> [Keys -> 0 .. MaxVersion]]
      BY <2>4, <2>5
    <2> QED
      BY <1>8, <2>1, <2>2, <2>6 DEF ServeMutation
  <1>9. CASE MutationSucceeds
    <2>1. PICK keys : keys = Invalidates(job.what) \cap Keys
      OBVIOUS
    <2>2. ASSUME NEW k \in Keys, cache[k] # Nobody
          PROVE  [Merged(k, cache[k]) EXCEPT !.stale = TRUE] \in Entries
      <3>1. PICK e \in Entries : e = cache[k]
        BY <2>2
      <3>2. job.owner \in Accounts
        BY <1>9 DEF MutationSucceeds, Jobs
      <3>3. [e EXCEPT !.owner = job.owner] \in Entries
        BY <3>2 DEF Entries
      <3>4. Merged(k, e) \in Entries
        BY <3>3 DEF Merged
      <3>5. [Merged(k, e) EXCEPT !.stale = TRUE] \in Entries
        BY <3>4 DEF Entries
      <3> QED
        BY <3>1, <3>5
    <2>3. cache' \in [Keys -> Entries \cup {Nobody}]
      BY <1>9, <2>1, <2>2 DEF MutationSucceeds
    <2>4. fetch' \in [Keys -> Fetches \cup {Nobody}]
      BY <1>9 DEF MutationSucceeds, Asked, Fetches
    <2>5. excused' \subseteq Keys
      BY <1>9 DEF MutationSucceeds
    <2> QED
      BY <1>9, <2>3, <2>4, <2>5 DEF MutationSucceeds
  <1>10. CASE MutationFails
    BY <1>10 DEF MutationFails
  <1>11. CASE ClearSession
    BY <1>11 DEF ClearSession, ResetQueryCache
  <1>12. ASSUME NEW a \in Accounts, PersistSession(a) PROVE CacheTypeOK'
    BY <1>12 DEF PersistSession, ResetQueryCache
  <1>13. CASE UNCHANGED cacheVars
    BY <1>13 DEF cacheVars
  <1> HIDE DEF CacheTypeOK
  <1> QED
    BY <1>1, <1>2, <1>3, <1>4, <1>5, <1>6, <1>7, <1>8, <1>9, <1>10, <1>11, <1>12, <1>13
    DEF CacheNext

(***************************************************************************)
(* Ownership                                                               *)
(***************************************************************************)

\* An entry is written for the account signed in, and sign-out empties them all.
LEMMA OwnerStep ==
  CacheTypeOK /\ EmptySignedOut /\ FreshIsOwn /\ FetchingIsStale /\ [CacheNext]_cacheVars
    => EmptySignedOut' /\ FreshIsOwn' /\ FetchingIsStale'
PROOF
  <1> SUFFICES ASSUME CacheTypeOK, EmptySignedOut, FreshIsOwn, FetchingIsStale, [CacheNext]_cacheVars
               PROVE  EmptySignedOut' /\ FreshIsOwn' /\ FetchingIsStale'
    OBVIOUS
  <1> USE NobodyIsNothing DEF EmptySignedOut, FreshIsOwn, FetchingIsStale
  <1>1. ASSUME NEW k \in Keys, UseQuery(k) PROVE EmptySignedOut' /\ FreshIsOwn' /\ FetchingIsStale'
    BY <1>1 DEF UseQuery
  <1>2. ASSUME NEW k \in Keys, LeaveScreen(k) PROVE EmptySignedOut' /\ FreshIsOwn' /\ FetchingIsStale'
    BY <1>2 DEF LeaveScreen
  <1>3. ASSUME NEW k \in Keys, holder # Nobody, ServeFetch(k)
        PROVE  EmptySignedOut' /\ FreshIsOwn' /\ FetchingIsStale'
    BY <1>3 DEF ServeFetch
  <1>4. ASSUME NEW k \in Keys, holder # Nobody, FetchArrives(k)
        PROVE  EmptySignedOut' /\ FreshIsOwn' /\ FetchingIsStale'
    BY <1>4 DEF FetchArrives, CacheTypeOK
  <1>5. ASSUME NEW k \in Keys, FetchFails(k) PROVE EmptySignedOut' /\ FreshIsOwn' /\ FetchingIsStale'
    BY <1>5 DEF FetchFails
  <1>6. ASSUME NEW k \in Keys, Ages(k) PROVE EmptySignedOut' /\ FreshIsOwn' /\ FetchingIsStale'
    <2>1. PICK e \in Entries : e = cache[k]
      BY <1>6 DEF Ages, CacheTypeOK
    <2>2. cache' = [cache EXCEPT ![k] = [e EXCEPT !.stale = TRUE]]
      BY <1>6, <2>1 DEF Ages
    <2>3. [e EXCEPT !.stale = TRUE].stale = TRUE
      BY DEF Entries
    <2> QED
      BY <1>6, <2>1, <2>2, <2>3 DEF Ages, CacheTypeOK
  <1>7. ASSUME NEW m \in Mutations, Mutate(m) PROVE EmptySignedOut' /\ FreshIsOwn' /\ FetchingIsStale'
    BY <1>7 DEF Mutate
  <1>8. CASE ServeMutation
    BY <1>8 DEF ServeMutation
  <1>9. CASE MutationSucceeds
    <2>1. PICK keys : keys = Invalidates(job.what) \cap Keys
      OBVIOUS
    <2>2. ASSUME NEW k \in Keys, cache[k] # Nobody
          PROVE  [Merged(k, cache[k]) EXCEPT !.stale = TRUE].stale = TRUE
      <3>1. PICK e \in Entries : e = cache[k]
        BY <2>2 DEF CacheTypeOK
      <3>2. [e EXCEPT !.stale = TRUE].stale = TRUE
        BY DEF Entries
      <3>3. [[e EXCEPT !.owner = job.owner] EXCEPT !.stale = TRUE].stale = TRUE
        BY DEF Entries
      <3>4. [Merged(k, e) EXCEPT !.stale = TRUE].stale = TRUE
        BY <3>2, <3>3 DEF Merged
      <3> QED
        BY <3>1, <3>4
    <2>3. \A k \in Keys : \/ cache'[k] = cache[k]
                          \/ cache[k] # Nobody /\ cache'[k].stale = TRUE
      BY <1>9, <2>1, <2>2 DEF MutationSucceeds
    <2>4. holder = Nobody => \A k \in Keys : k \notin onScreen /\ fetch'[k] = fetch[k]
      BY <1>9 DEF MutationSucceeds
    <2> QED
      BY <1>9, <2>3, <2>4 DEF MutationSucceeds
  <1>10. CASE MutationFails
    BY <1>10 DEF MutationFails
  <1>11. CASE ClearSession
    BY <1>11 DEF ClearSession, ResetQueryCache
  <1>12. ASSUME NEW a \in Accounts, PersistSession(a) PROVE EmptySignedOut' /\ FreshIsOwn' /\ FetchingIsStale'
    BY <1>12 DEF PersistSession, ResetQueryCache
  <1>13. CASE UNCHANGED cacheVars
    BY <1>13 DEF cacheVars
  <1> HIDE DEF EmptySignedOut, FreshIsOwn, FetchingIsStale
  <1> QED
    BY <1>1, <1>2, <1>3, <1>4, <1>5, <1>6, <1>7, <1>8, <1>9, <1>10, <1>11, <1>12, <1>13
    DEF CacheNext

(***************************************************************************)
(* Freshness                                                               *)
(***************************************************************************)

\* A key is as good as before when nothing about it moves; a pending change stays.
LEMMA KeyUntouched ==
  ASSUME NEW k \in Keys, KeyCurrent(k),
         fetch'[k] = fetch[k], cache'[k] = cache[k], holder' = holder, version' = version,
         Pending(k) => Pending(k)'
  PROVE  KeyCurrent(k)'
PROOF
  BY DEF KeyCurrent, Current

LEMMA FreshStep ==
  CacheInv /\ [CacheNext]_cacheVars => CachedOK'
PROOF
  <1> SUFFICES ASSUME CacheInv, [CacheNext]_cacheVars PROVE CachedOK'
    OBVIOUS
  <1>a. CacheTypeOK /\ EmptySignedOut /\ FreshIsOwn /\ FetchingIsStale /\ CachedOK
    BY DEF CacheInv
  <1>b. \A q \in Keys \ excused : KeyCurrent(q)
    BY <1>a DEF CachedOK
  <1>1. ASSUME NEW k \in Keys, UseQuery(k) PROVE CachedOK'
    <2> SUFFICES ASSUME NEW q \in Keys, q \notin excused' PROVE KeyCurrent(q)'
      BY DEF CachedOK
    <2>1. KeyCurrent(q) /\ (Pending(q) => Pending(q)')
      BY <1>1, <1>b DEF UseQuery, Pending
    <2>2. CASE fetch'[q] = fetch[q]
      BY <1>1, <2>1, <2>2, KeyUntouched DEF UseQuery
    <2>3. CASE fetch'[q] # fetch[q]
      <3>1. (fetch'[q] = Asked /\ Asked.at = "asked" /\ Asked # Nobody) \/ fetch'[q] = Nobody
        BY <1>1, <1>a, <2>3 DEF UseQuery, Asked, CacheTypeOK
      <3>2. cache'[q] = cache[q] /\ (cache[q] = Nobody \/ cache[q].stale)
        BY <1>1, <1>a, <2>3 DEF UseQuery, CacheTypeOK
      <3>3. fetch'[q] = Nobody \/ fetch'[q].at = "asked"
        BY <3>1
      <3> QED
        BY <3>2, <3>3 DEF KeyCurrent
    <2> QED
      BY <2>2, <2>3
  <1>2. ASSUME NEW k \in Keys, LeaveScreen(k) PROVE CachedOK'
    <2> SUFFICES ASSUME NEW q \in Keys, q \notin excused' PROVE KeyCurrent(q)'
      BY DEF CachedOK
    <2>1. KeyCurrent(q) /\ (Pending(q) => Pending(q)')
      BY <1>2, <1>b DEF LeaveScreen, Pending
    <2> QED
      BY <1>2, <2>1, KeyUntouched DEF LeaveScreen
  <1>3. ASSUME NEW k \in Keys, holder # Nobody, ServeFetch(k) PROVE CachedOK'
    <2> SUFFICES ASSUME NEW q \in Keys, q \notin excused' PROVE KeyCurrent(q)'
      BY DEF CachedOK
    <2>1. PICK f \in Fetches : f = [at |-> "served", version |-> version[holder][k]]
      BY <1>3, <1>a DEF CacheTypeOK, Fetches
    <2>2. fetch' = [fetch EXCEPT ![k] = f] /\ fetch \in [Keys -> Fetches \cup {Nobody}]
      BY <1>3, <1>a, <2>1 DEF ServeFetch, CacheTypeOK
    <2>3. CASE q = k
      <3>1. fetch'[q] = f /\ f # Nobody /\ f.version = version[holder][q]
        BY <2>1, <2>2, <2>3, NobodyIsNothing
      <3>2. version' = version /\ holder' = holder
        BY <1>3 DEF ServeFetch
      <3> QED
        BY <3>1, <3>2 DEF KeyCurrent, Current
    <2>4. CASE q # k
      <3>1. KeyCurrent(q) /\ (Pending(q) => Pending(q)')
        BY <1>3, <1>b, <2>4 DEF ServeFetch, Pending
      <3>2. fetch'[q] = fetch[q]
        BY <2>2, <2>4
      <3> QED
        BY <1>3, <3>1, <3>2, KeyUntouched DEF ServeFetch
    <2> QED
      BY <2>3, <2>4
  <1>4. ASSUME NEW k \in Keys, holder # Nobody, FetchArrives(k) PROVE CachedOK'
    <2> SUFFICES ASSUME NEW q \in Keys, q \notin excused' PROVE KeyCurrent(q)'
      BY DEF CachedOK
    <2>1. KeyCurrent(q) /\ (Pending(q) => Pending(q)')
      BY <1>4, <1>b DEF FetchArrives, Pending
    <2>2. CASE q = k
      <3>1. cache'[q].version = fetch[q].version /\ fetch'[q] = Nobody
        BY <1>4, <1>a, <2>2 DEF FetchArrives, CacheTypeOK
      <3>2. Current(q, fetch[q].version)
        BY <1>4, <2>1, <2>2 DEF FetchArrives, KeyCurrent
      <3>3. version' = version /\ holder' = holder /\ job' = job
        BY <1>4 DEF FetchArrives
      <3> QED
        BY <2>1, <3>1, <3>2, <3>3 DEF KeyCurrent, Current
    <2>3. CASE q # k
      <3>1. fetch'[q] = fetch[q] /\ cache'[q] = cache[q]
        BY <1>4, <1>a, <2>3 DEF FetchArrives, CacheTypeOK
      <3> QED
        BY <1>4, <2>1, <3>1, KeyUntouched DEF FetchArrives
    <2> QED
      BY <2>2, <2>3
  <1>5. ASSUME NEW k \in Keys, FetchFails(k) PROVE CachedOK'
    <2> SUFFICES ASSUME NEW q \in Keys, q \notin excused' PROVE KeyCurrent(q)'
      BY DEF CachedOK
    <2>1. KeyCurrent(q) /\ (Pending(q) => Pending(q)')
      BY <1>5, <1>b DEF FetchFails, Pending
    <2>2. CASE q # k
      <3>1. fetch'[q] = fetch[q]
        BY <1>5, <1>a, <2>2 DEF FetchFails, CacheTypeOK
      <3> QED
        BY <1>5, <2>1, <3>1, KeyUntouched DEF FetchFails
    <2>3. CASE q = k
      <3>1. fetch[q] # Nobody /\ fetch'[q] = Nobody /\ cache'[q] = cache[q]
        BY <1>5, <1>a, <2>3 DEF FetchFails, CacheTypeOK
      <3>2. cache[q] # Nobody => cache[q].stale
        BY <1>a, <3>1 DEF FetchingIsStale
      <3> QED
        BY <3>1, <3>2 DEF KeyCurrent
    <2> QED
      BY <2>2, <2>3
  <1>6. ASSUME NEW k \in Keys, Ages(k) PROVE CachedOK'
    <2> SUFFICES ASSUME NEW q \in Keys, q \notin excused' PROVE KeyCurrent(q)'
      BY DEF CachedOK
    <2>1. KeyCurrent(q) /\ (Pending(q) => Pending(q)')
      BY <1>6, <1>b DEF Ages, Pending
    <2>2. PICK e \in Entries : e = cache[k]
      BY <1>6, <1>a DEF Ages, CacheTypeOK
    <2>3. cache' = [cache EXCEPT ![k] = [e EXCEPT !.stale = TRUE]]
      BY <1>6, <2>2 DEF Ages
    <2>4. CASE q = k
      <3>1. cache'[q].stale = TRUE
        BY <1>a, <2>3, <2>4 DEF CacheTypeOK, Entries
      <3>2. fetch' = fetch /\ version' = version /\ holder' = holder
        BY <1>6 DEF Ages
      <3> QED
        BY <2>1, <3>1, <3>2 DEF KeyCurrent, Current
    <2>5. CASE q # k
      <3>1. cache'[q] = cache[q]
        BY <1>a, <2>3, <2>5 DEF CacheTypeOK
      <3> QED
        BY <1>6, <2>1, <3>1, KeyUntouched DEF Ages
    <2> QED
      BY <2>4, <2>5
  <1>7. ASSUME NEW m \in Mutations, Mutate(m) PROVE CachedOK'
    <2> SUFFICES ASSUME NEW q \in Keys, q \notin excused' PROVE KeyCurrent(q)'
      BY DEF CachedOK
    <2>1. KeyCurrent(q) /\ ~Pending(q)
      BY <1>7, <1>b DEF Mutate, Pending
    <2> QED
      BY <1>7, <2>1, KeyUntouched DEF Mutate
  <1>8. CASE ServeMutation
    <2> SUFFICES ASSUME NEW q \in Keys, q \notin excused' PROVE KeyCurrent(q)'
      BY DEF CachedOK
    <2>1. KeyCurrent(q) /\ ~Pending(q)
      BY <1>8, <1>b DEF ServeMutation, Pending
    <2>2. PICK j \in Jobs : j = job
      BY <1>8, <1>a DEF ServeMutation, CacheTypeOK
    <2>a. PICK n : n = [j EXCEPT !.at = "served"]
      OBVIOUS
    <2>b. n \in Jobs
      BY <2>a DEF Jobs
    <2>3. n.at = "served" /\ n.owner = j.owner /\ n.what = j.what
      BY <2>a DEF Jobs
    <2>4. job' = n /\ n # Nobody
      BY <1>8, <2>2, <2>a, <2>b, NobodyIsNothing DEF ServeMutation
    <2>5. fetch' = fetch /\ cache' = cache /\ holder' = holder
      BY <1>8 DEF ServeMutation
    <2>6. CASE j.owner = holder /\ q \in Touches(j.what)
      <3>1. Pending(q)'
        BY <2>3, <2>4, <2>5, <2>6 DEF Pending
      <3> QED
        BY <3>1 DEF KeyCurrent, Current
    <2>7. CASE ~(j.owner = holder /\ q \in Touches(j.what))
      <3>1. CASE holder = Nobody
        <4>1. cache[q] = Nobody /\ fetch[q] = Nobody
          BY <1>a, <3>1 DEF EmptySignedOut
        <4> QED
          BY <2>5, <4>1 DEF KeyCurrent
      <3>2. CASE holder # Nobody
        <4>1. holder \in Accounts /\ j.owner \in Accounts
          BY <1>a, <3>2 DEF CacheTypeOK, Jobs
        <4>2. version' = [version EXCEPT ![j.owner] =
                [k \in Keys |-> IF k \in Touches(j.what) THEN version[j.owner][k] + 1
                                                          ELSE version[j.owner][k]]]
          BY <1>8, <2>2 DEF ServeMutation
        <4>3. version'[holder][q] = version[holder][q]
          BY <1>a, <2>7, <4>1, <4>2 DEF CacheTypeOK
        <4> QED
          BY <2>1, <2>5, <4>3 DEF KeyCurrent, Current
      <3> QED
        BY <3>1, <3>2
    <2> QED
      BY <2>6, <2>7
  <1>9. CASE MutationSucceeds
    <2> SUFFICES ASSUME NEW q \in Keys, q \notin excused' PROVE KeyCurrent(q)'
      BY DEF CachedOK
    <2>1. PICK j \in Jobs : j = job
      BY <1>9, <1>a DEF MutationSucceeds, CacheTypeOK
    <2>2. PICK keys : keys = Invalidates(j.what) \cap Keys
      OBVIOUS
    <2>3. /\ version' = version /\ holder' = holder /\ job' = Nobody
          /\ fetch' = [k \in Keys |->
               IF k \in keys \cap onScreen /\ ~FirstFetch(k) THEN Asked ELSE fetch[k]]
          /\ q \notin excused
          /\ j.owner = holder => q \notin Forgotten(j.what)
          /\ q \in keys /\ (q \notin onScreen \/ FirstFetch(q)) => fetch[q] = Nobody
      BY <1>9, <2>1, <2>2 DEF MutationSucceeds
    <2>4. KeyCurrent(q)
      BY <1>b, <2>3
    <2>5. CASE q \in keys
      <3>1. fetch'[q] = Asked \/ fetch'[q] = Nobody
        BY <2>3, <2>5 DEF FirstFetch
      <3>2. cache[q] # Nobody => cache'[q].stale = TRUE
        <4> SUFFICES ASSUME cache[q] # Nobody PROVE cache'[q].stale = TRUE
          OBVIOUS
        <4>1. cache'[q] = [Merged(q, cache[q]) EXCEPT !.stale = TRUE]
          BY <1>9, <2>1, <2>2, <2>5 DEF MutationSucceeds
        <4>2. PICK e \in Entries : e = cache[q]
          BY <1>a DEF CacheTypeOK
        <4>3. [e EXCEPT !.stale = TRUE].stale = TRUE
          BY DEF Entries
        <4>4. [[e EXCEPT !.owner = job.owner] EXCEPT !.stale = TRUE].stale = TRUE
          BY DEF Entries
        <4> QED
          BY <4>1, <4>2, <4>3, <4>4 DEF Merged
      <3>3. cache[q] = Nobody => cache'[q] = Nobody
        BY <1>9 DEF MutationSucceeds
      <3>4. Asked.at = "asked"
        BY DEF Asked
      <3> QED
        BY <3>1, <3>2, <3>3, <3>4 DEF KeyCurrent
    <2>6. CASE q \notin keys
      <3>1. fetch'[q] = fetch[q]
        BY <2>3, <2>6
      <3>2. cache'[q] = cache[q]
        BY <1>9, <2>1, <2>2, <2>6 DEF MutationSucceeds
      <3>3. ~Pending(q)
        BY <2>1, <2>2, <2>3, <2>6, InvalidatedOrForgotten DEF Pending, Jobs
      <3> QED
        BY <2>3, <2>4, <3>1, <3>2, <3>3, KeyUntouched
    <2> QED
      BY <2>5, <2>6
  <1>10. CASE MutationFails
    <2> SUFFICES ASSUME NEW q \in Keys, q \notin excused' PROVE KeyCurrent(q)'
      BY DEF CachedOK
    <2>1. KeyCurrent(q) /\ ~Pending(q)
      BY <1>10, <1>b DEF MutationFails, Pending
    <2> QED
      BY <1>10, <2>1, KeyUntouched DEF MutationFails
  <1>11. CASE ClearSession
    BY <1>11 DEF ClearSession, ResetQueryCache, CachedOK, KeyCurrent
  <1>12. ASSUME NEW a \in Accounts, PersistSession(a) PROVE CachedOK'
    BY <1>12 DEF PersistSession, ResetQueryCache, CachedOK, KeyCurrent
  <1>13. CASE UNCHANGED cacheVars
    BY <1>13, <1>a DEF cacheVars, CachedOK, KeyCurrent, Current, Pending
  <1> QED
    BY <1>1, <1>2, <1>3, <1>4, <1>5, <1>6, <1>7, <1>8, <1>9, <1>10, <1>11, <1>12, <1>13
    DEF CacheNext

(***************************************************************************)
(* The query cache: the theorems                                           *)
(***************************************************************************)

LEMMA CacheInvariance ==
  CacheSpec => []CacheInv
PROOF
  <1>1. CacheInit => CacheInv
    BY CacheBegins
  <1>2. CacheInv /\ [CacheNext]_cacheVars => CacheInv'
    BY TypeStep, OwnerStep, FreshStep DEF CacheInv
  <1> QED
    BY <1>1, <1>2, PTL DEF CacheSpec

\* Every variable keeps its type, for any number of accounts and changes.
THEOREM CacheTyped ==
  CacheSpec => []CacheTypeOK
PROOF
  BY CacheInvariance, PTL DEF CacheInv

\* What a screen shows without a refetch is the signed-in account's own, and nothing
\* is kept when nobody is signed in.
THEOREM OwnDataOnly ==
  CacheSpec => []FreshIsOwn
PROOF
  BY CacheInvariance, PTL DEF CacheInv

\* Data that is neither marked nor being fetched shows every change reported back.
THEOREM ChangesAreShown ==
  CacheSpec => []FreshShowsChanges
PROOF
  <1>1. CacheInv => FreshShowsChanges
    BY DEF CacheInv, FreshShowsChanges, FreshIsOwn, CachedOK, KeyCurrent, Current, Pending
  <1> QED
    BY <1>1, CacheInvariance, PTL
================================================================================
