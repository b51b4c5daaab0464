---------------------------- MODULE SummaryCache ----------------------------
(***************************************************************************)
(* The in-memory cache of the dashboards' summaries                        *)
(* (services/api/src/util/cache.ts) under one key, with the routes that    *)
(* load it and those that write what it summarises and invalidate it. What *)
(* is summarised is its version.                                           *)
(***************************************************************************)
EXTENDS Handlers

CONSTANTS
  CacheTtl,    \* CACHE_TTL_SECONDS, in ticks
  MaxWrites,   \* bound on writes
  MaxClock     \* bound on the clock

ASSUME CacheAssumption ==
  CacheTtl \in Nat \ {0} /\ MaxWrites \in Nat /\ MaxClock \in Nat

VARIABLES
  clock,   \* Date.now()
  truth,   \* version of the rows that are summarised
  entry,   \* the Map's entry: value and expiresAt; read and overtaken are
           \* history: when it was loaded, and whether an invalidation came
           \* between its load and its storing
  cache,   \* per request: where its handler stands, and what it holds
  floor    \* history: the newest write that has been invalidated

cacheVars == <<clock, truth, entry, cache, floor>>

Entry == [there : BOOLEAN, value : 0 .. MaxWrites, expires : Nat, read : 0 .. MaxClock,
          overtaken : BOOLEAN]
NoEntry == [there |-> FALSE, value |-> 0, expires |-> 0, read |-> 0, overtaken |-> FALSE]
CacheHandler == [at : {"idle", "load", "store", "invalidate"}, now : 0 .. MaxClock,
                 value : 0 .. MaxWrites, read : 0 .. MaxClock, overtaken : BOOLEAN]
CacheIdle == [at |-> "idle", now |-> 0, value |-> 0, read |-> 0, overtaken |-> FALSE]

CacheTypeOK ==
  /\ clock \in 0 .. MaxClock
  /\ truth \in 0 .. MaxWrites
  /\ entry \in Entry
  /\ cache \in [Requests -> CacheHandler]
  /\ floor \in 0 .. MaxWrites

CacheInit ==
  /\ clock = 0
  /\ truth = 0
  /\ entry = NoEntry
  /\ cache = [r \in Requests |-> CacheIdle]
  /\ floor = 0

-----------------------------------------------------------------------------
Hit == entry.there /\ entry.expires > clock

\* cached: a hit is answered at once; a miss keeps the time it began at.
Cached(r) ==
  /\ cache[r].at = "idle"
  /\ ~Hit
  /\ cache' = [cache EXCEPT ![r] = [CacheIdle EXCEPT !.at = "load", !.now = clock]]
  /\ UNCHANGED <<clock, truth, entry, floor>>

\* await loader().
LoadSummary(r) ==
  /\ cache[r].at = "load"
  /\ cache' = [cache EXCEPT ![r] = [@ EXCEPT !.at = "store", !.value = truth, !.read = clock]]
  /\ UNCHANGED <<clock, truth, entry, floor>>

StoreSummary(r) ==
  /\ cache[r].at = "store"
  /\ entry' = [there |-> TRUE, value |-> cache[r].value, expires |-> cache[r].now + CacheTtl,
               read |-> cache[r].read, overtaken |-> cache[r].overtaken]
  /\ cache' = [cache EXCEPT ![r] = CacheIdle]
  /\ UNCHANGED <<clock, truth, floor>>

\* A statement changes what is summarised, and the route invalidates after it;
\* most writes (a payment, a webhook, a sync) invalidate nothing.
WriteRows(r, invalidates) ==
  /\ cache[r].at = "idle"
  /\ truth < MaxWrites
  /\ truth' = truth + 1
  /\ cache' = IF invalidates
              THEN [cache EXCEPT ![r] = [CacheIdle EXCEPT !.at = "invalidate", !.value = truth']]
              ELSE cache
  /\ UNCHANGED <<clock, entry, floor>>

\* Mutant: only entries that have expired are deleted.
InvalidateExpired(r) ==
  /\ cache[r].at = "invalidate"
  /\ entry' = IF Hit THEN entry ELSE NoEntry
  /\ floor' = IF cache[r].value > floor THEN cache[r].value ELSE floor
  /\ cache' = [q \in Requests |->
                 IF q = r THEN CacheIdle
                 ELSE [cache[q] EXCEPT !.overtaken = @ \/ cache[q].at = "store"]]
  /\ UNCHANGED <<clock, truth>>

\* invalidate: a load that is under way is not told.
Invalidate(r) ==
  /\ cache[r].at = "invalidate"
  /\ entry' = NoEntry
  /\ floor' = IF cache[r].value > floor THEN cache[r].value ELSE floor
  /\ cache' = [q \in Requests |->
                 IF q = r THEN CacheIdle
                 ELSE [cache[q] EXCEPT !.overtaken = @ \/ cache[q].at = "store"]]
  /\ UNCHANGED <<clock, truth>>

\* A load or a statement fails: nothing is stored, nothing invalidated.
CacheAbandon(r) ==
  /\ cache[r].at # "idle"
  /\ cache' = [cache EXCEPT ![r] = CacheIdle]
  /\ UNCHANGED <<clock, truth, entry, floor>>

CacheTick ==
  /\ clock < MaxClock
  /\ clock' = clock + 1
  /\ UNCHANGED <<truth, entry, cache, floor>>

CacheNext ==
  \/ \E r \in Requests :
       \/ Cached(r) \/ LoadSummary(r) \/ StoreSummary(r)
       \/ \E invalidates \in BOOLEAN : WriteRows(r, invalidates)
       \/ Invalidate(r) \/ CacheAbandon(r)
  \/ CacheTick

CacheSpec == CacheInit /\ [][CacheNext]_cacheVars

-----------------------------------------------------------------------------
(* Property.                                                               *)

\* A hit is no older than the time to live, however long its load took and
\* whichever of several loads was stored last; and it shows every write that
\* has been invalidated, unless the invalidation overtook its load.
HitIsRecent ==
  Hit =>
    /\ clock < entry.read + CacheTtl
    /\ ~entry.overtaken => entry.value >= floor
=============================================================================
