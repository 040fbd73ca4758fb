------------------------------- MODULE SecureStore -------------------------------
(***************************************************************************)
(* The encrypted credential store and the app's boot (mobile/src/storage.ts *)
(* and App in mobile/App.tsx): a key in the Keychain, a file encrypted      *)
(* under it in the app's container, and credentials an older build may have *)
(* left in the plain store.                                                 *)
(*                                                                         *)
(* The app can be killed at any step, native calls can fail, the Keychain  *)
(* outlives a reinstall and a restored backup brings the file without the  *)
(* key.  A credential stands for the token, the refresh token and the user *)
(* together, which are written and moved side by side.                     *)
(***************************************************************************)
EXTENDS Naturals, FiniteSets

CONSTANTS
  StoreKeys,        (* Encryption keys that can be drawn.                     *)
  Boots,            (* Callers of initSecureStorage.                          *)
  MaxInstalls,      (* How many times the app is installed.                   *)
  NoKey             (* No key, no file, no handle.                            *)

Files == [key : StoreKeys, sentinel : BOOLEAN, cred : BOOLEAN]

ASSUME NoKeyIsNothing == NoKey \notin StoreKeys \cup Files
ASSUME InstalledOnce  == MaxInstalls \in Nat \ {0}

VARIABLES
  keychain,         (* The key the Keychain holds.                            *)
  file,             (* The MMKV file: its key, its sentinel, a credential.    *)
  plain,            (* A credential lies in the plain store.                  *)
  secureStorage,    (* The key the open instance encrypts under.              *)
  boot,             (* Where each run of initSecureStorageInner stands.       *)
  rekey,            (* Where rotateSecureStorageKey stands.                   *)
  install,          (* The current installation.                              *)
  drawnIn,          (* The installation a key was drawn in, 0 before.         *)
  owed              (* History: the learner signed in and nothing that may    *)
                    (* end a session has happened since.                      *)

storeVars == << keychain, file, plain, secureStorage, boot, rekey, install, drawnIn, owed >>

Idle == [at |-> "idle", key |-> NoKey, hadKey |-> FALSE]
File(k, ok, c) == [key |-> k, sentinel |-> ok, cred |-> c]

\* The app starts with nothing, or over the build that kept credentials in plain.
StoreInit ==
  /\ keychain = NoKey /\ file = NoKey /\ secureStorage = NoKey
  /\ plain \in BOOLEAN /\ owed = plain
  /\ boot = [b \in Boots |-> Idle] /\ rekey = Idle
  /\ install = 1 /\ drawnIn = [k \in StoreKeys |-> 0]

Ready == secureStorage # NoKey

\* A run of synchronous code that only a kill can cut.
Moving == \E b \in Boots : boot[b].at \in {"copy", "erase"}

KeyLeft == \E k \in StoreKeys : drawnIn[k] = 0
FreshKey == CHOOSE k \in StoreKeys : drawnIn[k] = 0

\* The sentinel comes back only from an intact file opened with its own key.
Opens(k) == file # NoKey /\ file.key = k /\ file.sentinel

\* initSecureStorage: one run at a time, none once the store is open.
MayBoot(b) == \A c \in Boots : boot[c].at = "idle"

Boot(b) ==
  /\ ~Ready /\ MayBoot(b)
  /\ boot' = [boot EXCEPT ![b] = [Idle EXCEPT !.at = "load"]]
  /\ UNCHANGED << keychain, file, plain, secureStorage, rekey, install, drawnIn, owed >>

\* createMMKV and the sentinel, once a key is at hand: keep the file, draw a key
\* first if the one held is stale, or start clean under the key just drawn.
StaleKeyKept(had) == "clean"
AfterMismatch(had) == IF had THEN "rotate" ELSE "clean"

Open(b, k, had) ==
  /\ boot' = [boot EXCEPT ![b] =
       [at |-> IF Opens(k) THEN "copy" ELSE AfterMismatch(had), key |-> k, hadKey |-> had]]
  /\ secureStorage' = IF Opens(k) THEN k ELSE secureStorage

LoadKey(b) ==
  /\ boot[b].at = "load"
  /\ \/ /\ keychain # NoKey
        /\ Open(b, keychain, TRUE)
     \/ /\ keychain = NoKey
        /\ boot' = [boot EXCEPT ![b].at = "draw"]
        /\ UNCHANGED secureStorage
  /\ UNCHANGED << keychain, file, plain, rekey, install, drawnIn, owed >>

\* freshKey: the new key is in the Keychain before anyone hears of it.
DrawKey(b) ==
  /\ boot[b].at \in {"draw", "rotate"} /\ KeyLeft
  /\ keychain' = FreshKey
  /\ drawnIn' = [drawnIn EXCEPT ![FreshKey] = install]
  /\ LET next == IF boot[b].at = "draw" THEN "drawn" ELSE "clean" IN
     boot' = [boot EXCEPT ![b] = [@ EXCEPT !.at = next, !.key = FreshKey]]
  /\ UNCHANGED << file, plain, secureStorage, rekey, install, owed >>

FirstOpen(b) ==
  /\ boot[b].at = "drawn"
  /\ Open(b, boot[b].key, FALSE)
  /\ UNCHANGED << keychain, file, plain, rekey, install, drawnIn, owed >>

\* recreateWith, and the instance committed.
Recreate(b) ==
  /\ boot[b].at = "clean"
  /\ file' = File(boot[b].key, TRUE, FALSE)
  /\ secureStorage' = boot[b].key
  /\ boot' = [boot EXCEPT ![b].at = "copy"]
  /\ UNCHANGED << keychain, plain, rekey, install, drawnIn, owed >>

\* The Keychain refuses, or the file cannot be created once deleted: init rejects,
\* nothing is committed and App offers to try again.
BootFails(b) ==
  /\ boot[b].at \in {"load", "draw", "rotate", "clean"}
  /\ file' = IF boot[b].at = "clean" THEN NoKey ELSE file
  /\ boot' = [boot EXCEPT ![b] = Idle]
  /\ UNCHANGED << keychain, plain, secureStorage, rekey, install, drawnIn, owed >>

\* migrateLegacyCredentials: copy what is missing, then erase the plain copy.
EraseFirst(b) ==
  /\ boot[b].at \in {"copy", "erase"}
  /\ plain' = FALSE
  /\ file' = [file EXCEPT !.cred = @ \/ (boot[b].at = "erase")]
  /\ boot' = [boot EXCEPT ![b] = IF @.at = "copy" THEN [@ EXCEPT !.at = "erase"] ELSE Idle]
  /\ UNCHANGED << keychain, secureStorage, rekey, install, drawnIn, owed >>

MigrateLegacyCredentials(b) ==
  /\ boot[b].at \in {"copy", "erase"}
  /\ file' = [file EXCEPT !.cred = @ \/ plain]
  /\ plain' = (plain /\ boot[b].at = "copy")
  /\ boot' = [boot EXCEPT ![b] = IF @.at = "copy" THEN [@ EXCEPT !.at = "erase"] ELSE Idle]
  /\ UNCHANGED << keychain, secureStorage, rekey, install, drawnIn, owed >>

\* The auth store writes and removes the session through the open instance.
StoreSession(signedIn) ==
  /\ Ready /\ ~Moving /\ file # NoKey
  /\ file' = [file EXCEPT !.cred = signedIn]
  /\ owed' = signedIn
  /\ UNCHANGED << keychain, plain, secureStorage, boot, rekey, install, drawnIn >>

\* rotateSecureStorageKey: the new key first, then the swap in one turn.
RotateStart ==
  /\ Ready /\ ~Moving /\ rekey = Idle /\ file # NoKey /\ KeyLeft
  /\ rekey' = [Idle EXCEPT !.at = "swap", !.key = FreshKey]
  /\ keychain' = FreshKey
  /\ drawnIn' = [drawnIn EXCEPT ![FreshKey] = install]
  /\ UNCHANGED << file, plain, secureStorage, boot, install, owed >>

RotateSwap ==
  /\ rekey.at = "swap" /\ ~Moving
  /\ \/ /\ file' = File(rekey.key, TRUE, file.cred)
        /\ secureStorage' = rekey.key
        /\ UNCHANGED owed
     \/ /\ file' = NoKey                   \* createMMKV throws: rejects half way
        /\ owed' = FALSE
        /\ UNCHANGED secureStorage
  /\ rekey' = Idle
  /\ UNCHANGED << keychain, plain, boot, install, drawnIn >>

\* The process dies.  recreateWith may have got as far as deleting the file or
\* creating it without its sentinel.
Kill ==
  /\ \E b \in Boots : boot[b].at = "clean" \/ Ready \/ boot[b].at # "idle"
  /\ file' \in {file} \cup
       UNION {{NoKey, File(boot[b].key, FALSE, FALSE)} : b \in {c \in Boots : boot[c].at = "clean"}}
  /\ secureStorage' = NoKey
  /\ boot' = [b \in Boots |-> Idle] /\ rekey' = Idle
  /\ owed' = (owed /\ rekey = Idle)
  /\ UNCHANGED << keychain, plain, install, drawnIn >>

NotRunning == ~Ready /\ \A b \in Boots : boot[b].at = "idle"

\* Uninstalling deletes the container; the Keychain item may survive.
Reinstall ==
  /\ NotRunning /\ install < MaxInstalls
  /\ install' = install + 1
  /\ file' = NoKey /\ plain' = FALSE /\ owed' = FALSE
  /\ keychain' \in {keychain, NoKey}
  /\ UNCHANGED << secureStorage, boot, rekey, drawnIn >>

\* A backup restored to another device brings the container, not the device's key.
RestoreBackup ==
  /\ NotRunning
  /\ keychain' = NoKey
  /\ owed' = (owed /\ plain)
  /\ UNCHANGED << file, plain, secureStorage, boot, rekey, install, drawnIn >>

BootStep(b) ==
  \/ Boot(b)
  \/ LoadKey(b)
  \/ DrawKey(b)
  \/ FirstOpen(b)
  \/ Recreate(b)
  \/ BootFails(b)
  \/ MigrateLegacyCredentials(b)

StoreNext ==
  \/ \E b \in Boots : BootStep(b)
  \/ \E signedIn \in BOOLEAN : StoreSession(signedIn)
  \/ RotateStart
  \/ RotateSwap
  \/ Kill
  \/ Reinstall
  \/ RestoreBackup

StoreSpec == StoreInit /\ [][StoreNext]_storeVars

StoreRuns == [at : {"idle", "load", "draw", "drawn", "rotate", "clean", "copy", "erase", "swap"},
              key : StoreKeys \cup {NoKey}, hadKey : BOOLEAN]

StoreTypeOK ==
  /\ keychain \in StoreKeys \cup {NoKey} /\ secureStorage \in StoreKeys \cup {NoKey}
  /\ file \in Files \cup {NoKey}
  /\ plain \in BOOLEAN /\ owed \in BOOLEAN
  /\ boot \in [Boots -> StoreRuns] /\ rekey \in StoreRuns
  /\ install \in 1 .. MaxInstalls
  /\ drawnIn \in [StoreKeys -> 0 .. MaxInstalls]

(***************************************************************************)
(* Properties                                                              *)
(***************************************************************************)

\* While the store is open and no re-key is under way, the file on disk is intact
\* and its key is the one in the Keychain, so the next boot can read what this one
\* writes: two overlapping boots, a failed boot tried again and a kill anywhere
\* must not leave the instance, the file and the Keychain on different keys.
HandleMatchesKeychain ==
  Ready /\ rekey = Idle /\ file # NoKey =>
    file.sentinel /\ file.key = keychain /\ secureStorage = keychain

\* initSecureStorage's promise: the store is never opened under a key that predates
\* this installation, though the Keychain may still hold one.
NeverReusesStaleKey == Ready => drawnIn[secureStorage] = install

\* A learner who signed in is still signed in at every later boot, through kills at
\* any step, failed boots, key rotations and the move out of the plain store; only
\* signing out, a reinstall, a lost device key or a broken re-key may end that.
CredentialsSurvive ==
  owed => \/ plain
          \/ file # NoKey /\ file.sentinel /\ file.cred
             /\ (file.key = keychain \/ rekey.at = "swap")
=============================================================================
