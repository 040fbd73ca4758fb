-------------------------------- MODULE QueryCache --------------------------------
(***************************************************************************)
(* What the screens read: the queries and mutations of                     *)
(* mobile/src/api/hooks.ts over the one client of queryClient.ts, emptied  *)
(* by the auth store at every boundary between accounts.                   *)
(*                                                                         *)
(* A key's data is an owner and a version, which every call raises that    *)
(* writes rows the key's endpoint reads.  React Query itself is modelled   *)
(* from the calls made to it: a mutation's onSuccess marks keys invalid, a *)
(* key on screen is fetched again at once, a key off screen keeps the mark *)
(* and a fetch of it already out goes on.                                  *)
(***************************************************************************)
EXTENDS Naturals

CONSTANTS
  Accounts,         (* Accounts that sign in on this device.                  *)
  Keys,             (* Query keys; a planet's detail and lesson lie under     *)
                    (* "planets" and are invalidated with it.                 *)
  Mutations,        (* The mutations looked at.                               *)
  MaxVersion,       (* How often the data behind a key changes.               *)
  Nobody            (* Nobody signed in, nothing cached or out.               *)

Jobs == [what : Mutations, owner : Accounts, at : {"sent", "served"}]
Fetches == [at : {"asked", "served"}, version : 0 .. MaxVersion]

ASSUME NobodyIsNothing == Nobody \notin Accounts \cup Jobs \cup Fetches
ASSUME VersionsCount   == MaxVersion \in Nat
ASSUME KnownMutations  ==
  Mutations \subseteq {"bump", "master", "complete", "produce", "review", "create",
                       "correction", "confirm", "talk", "correct", "finish", "listen"}

VARIABLES
  holder,          (* The account signed in.                                 *)
  version,          (* Per account and key: the data on the server.           *)
  cache,            (* Per key: [owner, version, stale] or Nobody.            *)
  fetch,            (* Per key: the fetch out, [at, version] or Nobody.       *)
  onScreen,         (* Keys some mounted screen reads.                        *)
  job,              (* The mutation out: [what, owner, at] or Nobody.         *)
  excused           (* History: keys changed by a call that did not report    *)
                    (* back or leaves them out, or raced by a fetch.          *)

cacheVars == << holder, version, cache, fetch, onScreen, job, excused >>

(***************************************************************************)
(* The calls: what each changes on the server, what its hook invalidates   *)
(***************************************************************************)

\* The rows a handler writes ("xp": the stats row and the badges earned)...
ProgressWrites ==
  [bump     |-> {"planetProgress", "xp"},
   master   |-> {"sentences", "planetProgress", "modules", "xp"},
   complete |-> {"modules"},
   produce  |-> {"structures", "modules"}]
CardWrites ==
  [review     |-> {"cards", "moduleCards", "reviews", "modules", "planetProgress", "xp"},
   create     |-> {"cards", "moduleCards"},
   correction |-> {"cards"},
   confirm    |-> {"cards", "planetProgress"}]
TalkWrites  == [talk |-> {"conversations"}, correct |-> {"corrections", "xp"}]
StoryWrites == [finish |-> {"stories"}, listen |-> {"stories"}]

Writes(m) ==
  CASE m \in DOMAIN ProgressWrites -> ProgressWrites[m]
    [] m \in DOMAIN CardWrites -> CardWrites[m]
    [] m \in DOMAIN TalkWrites -> TalkWrites[m]
    [] m \in DOMAIN StoryWrites -> StoryWrites[m]

\* ... and those a query is answered from.
Reads ==
  [planets       |-> {"planetProgress", "sentences", "modules", "structures", "moduleCards"},
   flashcards    |-> {"cards", "reviews"},
   gamification  |-> {"xp", "corrections", "cards", "reviews", "conversations", "sentences",
                      "modules"},
   conversations |-> {"conversations", "corrections"},
   stories       |-> {"modules", "stories"}]

Touches(m) == {k \in DOMAIN Reads : Reads[k] \cap Writes(m) # {}}

ProgressInvalidates ==
  [bump     |-> {"planets", "gamification"},
   master   |-> {"planets", "gamification"},
   complete |-> {"planets", "flashcards", "stories"},
   produce  |-> {"planets", "gamification"}]
CompleteKeepsPlanets == [ProgressInvalidates EXCEPT !.complete = {"flashcards", "stories"}]
StoryInvalidates == [finish |-> {"stories"}, listen |-> {}]
CardInvalidates ==
  [review |-> {"flashcards", "gamification"}, create |-> {"flashcards"},
   correction |-> {"flashcards"}, confirm |-> {"flashcards", "planets"}]
TalkInvalidates ==
  [talk |-> {"conversations"}, correct |-> {"conversations", "gamification"}]

OnProgressKeepingPlanets(m) == CompleteKeepsPlanets[m]
OnProgress(m) == ProgressInvalidates[m]

Invalidates(m) ==
  CASE m \in DOMAIN ProgressInvalidates -> OnProgress(m)
    [] m \in DOMAIN StoryInvalidates -> StoryInvalidates[m]
    [] m \in DOMAIN CardInvalidates -> CardInvalidates[m]
    [] m \in DOMAIN TalkInvalidates -> TalkInvalidates[m]

\* History: what the hooks leave out today of what their calls change.
Forgotten(m) ==
  CASE m \in {"master", "produce", "listen"} -> {"stories"}
    [] m \in {"complete", "correction", "confirm", "talk"} -> {"gamification"}
    [] m = "review" -> {"planets", "stories"}
    [] m = "create" -> {"planets", "gamification"}
    [] m \in {"bump", "correct", "finish"} -> {}

(***************************************************************************)
(* Queries                                                                 *)
(***************************************************************************)

CacheInit ==
  /\ holder = Nobody
  /\ version = [a \in Accounts |-> [k \in Keys |-> 0]]
  /\ cache = [k \in Keys |-> Nobody] /\ fetch = [k \in Keys |-> Nobody]
  /\ onScreen = {} /\ job = Nobody /\ excused = {}

Asked == [at |-> "asked", version |-> 0]

\* A screen that reads k mounts: data that is missing or stale is fetched.
UseQuery(k) ==
  /\ holder # Nobody /\ k \notin onScreen
  /\ onScreen' = onScreen \cup {k}
  /\ fetch' = IF fetch[k] = Nobody /\ (cache[k] = Nobody \/ cache[k].stale)
              THEN [fetch EXCEPT ![k] = Asked] ELSE fetch
  /\ UNCHANGED << holder, version, cache, job, excused >>

LeaveScreen(k) ==
  /\ k \in onScreen
  /\ onScreen' = onScreen \ {k}
  /\ UNCHANGED << holder, version, cache, fetch, job, excused >>

ServeFetch(k) ==
  /\ fetch[k] # Nobody /\ fetch[k].at = "asked"
  /\ fetch' = [fetch EXCEPT ![k] = [at |-> "served", version |-> version[holder][k]]]
  /\ excused' = excused \ {k}
  /\ UNCHANGED << holder, version, cache, onScreen, job >>

FetchArrives(k) ==
  /\ fetch[k] # Nobody /\ fetch[k].at = "served"
  /\ cache' = [cache EXCEPT ![k] = [owner |-> holder, version |-> fetch[k].version,
                                    stale |-> FALSE]]
  /\ fetch' = [fetch EXCEPT ![k] = Nobody]
  /\ UNCHANGED << holder, version, onScreen, job, excused >>

\* After its retry.  What was cached stays, and stays marked.
FetchFails(k) ==
  /\ fetch[k] # Nobody
  /\ fetch' = [fetch EXCEPT ![k] = Nobody]
  /\ UNCHANGED << holder, version, cache, onScreen, job, excused >>

\* staleTime has passed.
Ages(k) ==
  /\ cache[k] # Nobody
  /\ cache' = [cache EXCEPT ![k].stale = TRUE]
  /\ UNCHANGED << holder, version, fetch, onScreen, job, excused >>

(***************************************************************************)
(* Mutations                                                               *)
(***************************************************************************)

Mutate(m) ==
  /\ holder # Nobody /\ job = Nobody
  /\ job' = [what |-> m, owner |-> holder, at |-> "sent"]
  /\ UNCHANGED << holder, version, cache, fetch, onScreen, excused >>

ServeMutation ==
  /\ job # Nobody /\ job.at = "sent"
  /\ \A k \in Touches(job.what) \cap Keys : version[job.owner][k] < MaxVersion
  /\ version' = [version EXCEPT ![job.owner] =
       [k \in Keys |-> IF k \in Touches(job.what) THEN @[k] + 1 ELSE @[k]]]
  /\ job' = [job EXCEPT !.at = "served"]
  /\ UNCHANGED << holder, cache, fetch, onScreen, excused >>

\* bump merges the planet it is answered with into the detail already cached.
Merged(k, entry) ==
  IF job.what = "bump" /\ k = "planets" THEN [entry EXCEPT !.owner = job.owner] ELSE entry

\* invalidateQueries: a key on screen is fetched anew, and a fetch of it already
\* out dropped; but one that has no data yet joins its first fetch, whose answer
\* then counts as fresh.
FirstFetch(k) == cache[k] = Nobody /\ fetch[k] # Nobody

MutationSucceeds ==
  /\ job # Nobody /\ job.at = "served"
  /\ LET keys == Invalidates(job.what) \cap Keys IN
       /\ cache' = [k \in Keys |->
            IF k \in keys /\ cache[k] # Nobody
            THEN [Merged(k, cache[k]) EXCEPT !.stale = TRUE] ELSE cache[k]]
       /\ fetch' = [k \in Keys |->
            IF k \in keys \cap onScreen /\ ~FirstFetch(k) THEN Asked ELSE fetch[k]]
       /\ excused' = excused
            \cup (IF job.owner = holder THEN Forgotten(job.what) \cap Keys ELSE {})
            \cup {k \in keys : fetch[k] # Nobody /\ (k \notin onScreen \/ FirstFetch(k))}
  /\ job' = Nobody
  /\ UNCHANGED << holder, version, onScreen >>

MutationFails ==
  /\ job # Nobody
  /\ job' = Nobody
  /\ excused' = IF job.at = "served" THEN excused \cup (Touches(job.what) \cap Keys) ELSE excused
  /\ UNCHANGED << holder, version, cache, fetch, onScreen >>

(***************************************************************************)
(* Auth boundaries                                                         *)
(***************************************************************************)

\* clear(): every entry goes, and a fetch out answers to a query nobody holds.
Invalidated ==
  /\ cache' = [k \in Keys |-> IF cache[k] = Nobody THEN Nobody ELSE [cache[k] EXCEPT !.stale = TRUE]]
  /\ UNCHANGED fetch
ResetQueryCache ==
  /\ cache' = [k \in Keys |-> Nobody]
  /\ fetch' = [k \in Keys |-> Nobody]

ClearSession ==
  /\ holder # Nobody
  /\ holder' = Nobody /\ onScreen' = {} /\ excused' = {}
  /\ ResetQueryCache
  /\ UNCHANGED << version, job >>

PersistSession(a) ==
  /\ holder = Nobody
  /\ holder' = a
  /\ ResetQueryCache
  /\ excused' = {}
  /\ UNCHANGED << version, onScreen, job >>

CacheNext ==
  \/ \E k \in Keys : UseQuery(k)
  \/ \E k \in Keys : LeaveScreen(k)
  \/ \E k \in Keys : holder # Nobody /\ ServeFetch(k)
  \/ \E k \in Keys : holder # Nobody /\ FetchArrives(k)
  \/ \E k \in Keys : FetchFails(k)
  \/ \E k \in Keys : Ages(k)
  \/ \E m \in Mutations : Mutate(m)
  \/ ServeMutation
  \/ MutationSucceeds
  \/ MutationFails
  \/ ClearSession
  \/ \E a \in Accounts : PersistSession(a)

CacheSpec == CacheInit /\ [][CacheNext]_cacheVars

Entries == [owner : Accounts, version : 0 .. MaxVersion, stale : BOOLEAN]

CacheTypeOK ==
  /\ holder \in Accounts \cup {Nobody}
  /\ version \in [Accounts -> [Keys -> 0 .. MaxVersion]]
  /\ cache \in [Keys -> Entries \cup {Nobody}]
  /\ fetch \in [Keys -> Fetches \cup {Nobody}]
  /\ onScreen \subseteq Keys /\ excused \subseteq Keys
  /\ job \in Jobs \cup {Nobody}

(***************************************************************************)
(* Properties                                                              *)
(***************************************************************************)

\* Keys are per query, not per user: whatever the order of sign-outs, sign-ins and
\* late answers, data not marked for a refetch is the signed-in account's own, and
\* nothing at all is left behind when nobody is signed in.
FreshIsOwn ==
  \A k \in Keys :
    /\ cache[k] # Nobody => holder # Nobody
    /\ cache[k] # Nobody /\ ~cache[k].stale => cache[k].owner = holder

\* Data that is neither marked nor being fetched shows every change reported back:
\* between a mutation answered and the data it changed no screen is left behind.  Not
\* so for what the hooks forget (Forgotten), for a call whose answer was lost, and for
\* a fetch the invalidation lets go on: of a key off screen, or its first one.
FreshShowsChanges ==
  \A k \in Keys \ excused :
    /\ cache[k] # Nobody /\ ~cache[k].stale /\ fetch[k] = Nobody
    /\ job = Nobody \/ job.owner # holder \/ job.at = "sent"
    => cache[k].owner = holder /\ cache[k].version = version[holder][k]
=============================================================================
