----------------------------- MODULE RecordView -----------------------------
(***************************************************************************)
(* The workbench's VerifyCache (web/readmodel.py): a request takes the key *)
(* of a bundle, looks it up, verifies the bundle without the cache's lock  *)
(* and stores the result under the key it took.                            *)
(***************************************************************************)
EXTENDS Retests

CONSTANTS Viewed,     \* the bundles the workbench is asked for
          MaxMisses   \* how many look-ups may miss, as VerifyCache counts them

ASSUME ViewBounds == Viewed \subseteq Runs /\ MaxMisses \in Nat

VARIABLES
    cache,   \* cache[r]: the entry of r, or NoEntry
    misses,  \* results computed and stored
    view     \* the request in progress

viewVars == <<cache, misses, view>>

\* _cache_key: the manifest's digest and the files, by path, size and mtime.
KeyOf(r) == [manifest |-> manifest[r], files |-> disk[r]]

NoEntry == [key |-> None, verified |-> FALSE]
NoView  == [at |-> "idle", run |-> None, key |-> None, verified |-> FALSE]

ViewInit ==
    /\ cache = [r \in Viewed |-> NoEntry]
    /\ misses = 0
    /\ view = NoView

Cached(r) == cache[r].key # None /\ cache[r].key = KeyOf(r)

\* A hit answers from the entry and changes nothing.
LookUp(r) ==
    /\ view.at = "idle"
    /\ disk[r] # Empty
    /\ ~Cached(r)
    /\ misses < MaxMisses
    /\ view' = [at |-> "missed", run |-> r, key |-> KeyOf(r), verified |-> FALSE]
    /\ UNCHANGED <<retestsVars, cache, misses>>

VerifyViewed ==
    /\ view.at = "missed"
    /\ view' = [view EXCEPT !.at = "verified", !.verified = Verified(view.run)]
    /\ UNCHANGED <<retestsVars, cache, misses>>

\* Mutant: the key is taken when the result is stored.
StoreUnderNewKey ==
    /\ view.at = "verified"
    /\ cache' = [cache EXCEPT ![view.run] =
                    [key |-> KeyOf(view.run), verified |-> view.verified]]
    /\ misses' = misses + 1
    /\ view' = NoView
    /\ UNCHANGED retestsVars

Store ==
    /\ view.at = "verified"
    /\ cache' = [cache EXCEPT ![view.run] = [key |-> view.key, verified |-> view.verified]]
    /\ misses' = misses + 1
    /\ view' = NoView
    /\ UNCHANGED retestsVars

ViewStep == VerifyViewed \/ Store \/ \E r \in Viewed : LookUp(r)

RecordViewNext ==
    \/ RetestsNext /\ UNCHANGED viewVars
    \/ ViewStep

RecordViewSpec == RetestsInit /\ ViewInit /\ [][RecordViewNext]_<<retestsVars, viewVars>>

-----------------------------------------------------------------------------
(* What a key of a sealed bundle says, whatever happened since it was taken *)

Keys == [manifest : {"absent", "sealed"}, files : [Names -> Contents]]

\* A Run whose bundle was sealed once registers nothing any more.
KeyHolds(r, k) == k \in Keys /\ (k.manifest = "sealed" => stage[r] \in Closing)

OnRegistered(r, k) == k.manifest = "sealed" => k.files = registered[r]

\* The key that a request took shows the registered files or the bundle is
\* hurt; a result VERIFIED rules that out, also for the entry it becomes.
ViewInv ==
    /\ cache \in [Viewed -> [key : Keys \cup {None}, verified : BOOLEAN]]
    /\ misses \in Nat
    /\ view \in [at : {"idle", "missed", "verified"}, run : Viewed \cup {None},
                 key : Keys \cup {None}, verified : BOOLEAN]
    /\ view.at # "idle" => view.run \in Viewed /\ KeyHolds(view.run, view.key)
    /\ view.at = "missed" => OnRegistered(view.run, view.key) \/ view.run \in hurt
    /\ view.at = "verified" /\ view.verified => OnRegistered(view.run, view.key)
    /\ \A r \in Viewed :
          cache[r].key # None =>
              /\ KeyHolds(r, cache[r].key)
              /\ cache[r].verified => OnRegistered(r, cache[r].key)

-----------------------------------------------------------------------------
\* A result that the workbench serves as VERIFIED stands on the bundle's own
\* files as they are now, whatever happened while it was computed.  The one
\* exception: a look-up that raced with the seal stored VERIFIED under the key
\* of the unsealed directory, and the manifest is lost later.
CacheMatchesFiles ==
    \A r \in Viewed :
        Cached(r) /\ cache[r].verified /\ manifest[r] # "absent" => FilesMatch(r)

-----------------------------------------------------------------------------
(* What a document says and the code does not do *)

\* specs/005 FR-017: the integrity of a record is checked before it is shown.
CacheMatchesVerdict ==
    \A r \in Viewed : Cached(r) /\ cache[r].verified => Verified(r)
=============================================================================
