--------------------------- MODULE ServicesProofs ---------------------------
(***************************************************************************)
(* Theorems about the services of the backend, each for any requests in    *)
(* flight and any bounds: what the runs of Services check of their small   *)
(* instances.                                                              *)
(***************************************************************************)
EXTENDS Services, FiniteSetTheorems, TLAPS

-----------------------------------------------------------------------------
(* Whichever service serves, each takes steps of its own or none.          *)

THEOREM EachService ==
  Spec => /\ ReadSpec /\ OtpSpec /\ SupSpec /\ PaySpec
          /\ CacheSpec /\ OnbSpec /\ SocSpec
<1>1. Init => /\ ReadInit /\ OtpInit /\ SupInit /\ PayInit
              /\ CacheInit /\ OnbInit /\ SocInit
  BY DEF Init
<1>2. [Next]_<<serving, readVars, otpVars, supVars, payVars, cacheVars, onbVars, socVars>>
        => /\ [ReadNext]_readVars /\ [OtpNext]_otpVars /\ [SupNext]_supVars
           /\ [PayNext]_payVars /\ [CacheNext]_cacheVars /\ [OnbNext]_onbVars
           /\ [SocNext]_socVars
  BY DEF Next
<1> QED BY <1>1, <1>2, PTL DEF Spec, ReadSpec, OtpSpec, SupSpec, PaySpec, CacheSpec,
                               OnbSpec, SocSpec

\* What is within two finite sets counts no more than both.
LEMMA WithinTwo ==
  ASSUME NEW R, NEW S, NEW T, IsFiniteSet(S), IsFiniteSet(T), R \subseteq S \cup T
  PROVE  /\ IsFiniteSet(R) /\ Cardinality(R) \in Nat
         /\ Cardinality(R) <= Cardinality(S) + Cardinality(T)
<1>1. /\ IsFiniteSet(S \cup T)
      /\ Cardinality(S \cup T) = Cardinality(S) + Cardinality(T) - Cardinality(S \cap T)
  BY FS_Union
<1>2. IsFiniteSet(S \cap T)
  BY FS_Intersection
<1>3. /\ Cardinality(S) \in Nat /\ Cardinality(T) \in Nat
      /\ Cardinality(S \cap T) \in Nat /\ Cardinality(S \cup T) \in Nat
  BY <1>1, <1>2, FS_CardinalityType
<1>4. IsFiniteSet(R) /\ Cardinality(R) <= Cardinality(S \cup T)
  BY <1>1, FS_Subset
<1>5. Cardinality(R) \in Nat
  BY <1>4, FS_CardinalityType
<1> QED BY <1>1, <1>3, <1>4, <1>5

-----------------------------------------------------------------------------
(* SummaryCache. A value that is held or stored was read no earlier than   *)
(* its handler began, and shows every write that was invalidated, unless   *)
(* it was overtaken.                                                       *)

CacheInv ==
  /\ floor <= truth
  /\ entry.there => /\ entry.expires <= entry.read + CacheTtl
                    /\ ~entry.overtaken => entry.value >= floor
  /\ \A r \in Requests :
       /\ cache[r].at = "load" => cache[r].now <= clock
       /\ cache[r].at = "store" => /\ cache[r].now <= cache[r].read
                                   /\ ~cache[r].overtaken => cache[r].value >= floor
       /\ cache[r].at = "invalidate" => cache[r].value <= truth

\* A handler that is replaced leaves the others alone.
LEMMA CacheBecomes ==
  ASSUME CacheTypeOK, NEW r \in Requests, NEW state \in CacheHandler,
         cache' = [cache EXCEPT ![r] = state]
  PROVE  /\ cache' \in [Requests -> CacheHandler]
         /\ cache'[r] = state
         /\ \A q \in Requests \ {r} : cache'[q] = cache[q]
BY DEF CacheTypeOK

LEMMA CacheBegins ==
  /\ CacheIdle \in CacheHandler
  /\ CacheIdle.at = "idle"
  /\ CacheTypeOK =>
       /\ [CacheIdle EXCEPT !.at = "load", !.now = clock] \in CacheHandler
       /\ \A v \in 0 .. MaxWrites :
            [CacheIdle EXCEPT !.at = "invalidate", !.value = v] \in CacheHandler
<1>1. 0 \in 0 .. MaxClock /\ 0 \in 0 .. MaxWrites
  BY CacheAssumption
<1> QED BY <1>1 DEF CacheIdle, CacheHandler, CacheTypeOK

\* What each action makes of its handler and of the rest.
LEMMA CacheNextStep == CacheTypeOK /\ CacheInv /\ [CacheNext]_cacheVars => CacheTypeOK' /\ CacheInv'
<1> SUFFICES ASSUME CacheTypeOK, CacheInv, [CacheNext]_cacheVars
             PROVE  CacheTypeOK' /\ CacheInv'
  OBVIOUS
<1>0. CacheTtl \in Nat /\ MaxWrites \in Nat /\ MaxClock \in Nat
  BY CacheAssumption
<1>i. /\ clock \in Nat /\ clock <= MaxClock /\ truth \in Nat /\ floor \in Nat
      /\ entry.expires \in Nat /\ entry.read \in Nat /\ entry.value \in Nat
      /\ \A r \in Requests : /\ cache[r] \in CacheHandler
                             /\ cache[r].now \in 0 .. MaxClock /\ cache[r].read \in 0 .. MaxClock
                             /\ cache[r].value \in 0 .. MaxWrites
  BY <1>0 DEF CacheTypeOK, Entry, CacheHandler
<1>1. ASSUME NEW r \in Requests, Cached(r) PROVE CacheTypeOK' /\ CacheInv'
  <2>1. UNCHANGED <<clock, truth, entry, floor>>
    BY <1>1 DEF Cached
  <2>2. cache' = [cache EXCEPT ![r] = [CacheIdle EXCEPT !.at = "load", !.now = clock]]
    BY <1>1 DEF Cached
  <2>3. /\ cache' \in [Requests -> CacheHandler]
        /\ cache'[r].at = "load" /\ cache'[r].now = clock
        /\ \A q \in Requests \ {r} : cache'[q] = cache[q]
    BY <2>2, CacheBegins, CacheBecomes DEF CacheIdle
  <2> QED BY <2>1, <2>3, <1>i DEF CacheTypeOK, CacheInv
<1>2. ASSUME NEW r \in Requests, LoadSummary(r) PROVE CacheTypeOK' /\ CacheInv'
  <2>1. cache[r].at = "load" /\ UNCHANGED <<clock, truth, entry, floor>>
    BY <1>2 DEF LoadSummary
  <2>2. cache' = [cache EXCEPT ![r] =
                    [cache[r] EXCEPT !.at = "store", !.value = truth, !.read = clock]]
    BY <1>2, <1>i DEF LoadSummary
  <2>3. [cache[r] EXCEPT !.at = "store", !.value = truth, !.read = clock] \in CacheHandler
    BY <1>i DEF CacheHandler, CacheTypeOK
  <2>4. /\ cache' \in [Requests -> CacheHandler]
        /\ cache'[r].at = "store" /\ cache'[r].now = cache[r].now
        /\ cache'[r].read = clock /\ cache'[r].value = truth
        /\ \A q \in Requests \ {r} : cache'[q] = cache[q]
    BY <2>2, <2>3, <1>i, CacheBecomes DEF CacheHandler
  <2> QED BY <2>1, <2>4, <1>i DEF CacheTypeOK, CacheInv
<1>3. ASSUME NEW r \in Requests, StoreSummary(r) PROVE CacheTypeOK' /\ CacheInv'
  <2>1. cache[r].at = "store" /\ UNCHANGED <<clock, truth, floor>>
    BY <1>3 DEF StoreSummary
  <2>2. entry' = [there |-> TRUE, value |-> cache[r].value,
                  expires |-> cache[r].now + CacheTtl,
                  read |-> cache[r].read, overtaken |-> cache[r].overtaken]
    BY <1>3 DEF StoreSummary
  <2>3. entry' \in Entry
    BY <2>2, <1>0, <1>i DEF Entry, CacheHandler
  <2>4. /\ cache' \in [Requests -> CacheHandler]
        /\ cache'[r].at = "idle"
        /\ \A q \in Requests \ {r} : cache'[q] = cache[q]
    BY <1>3, CacheBegins, CacheBecomes DEF StoreSummary
  <2>5. /\ entry'.expires <= entry'.read + CacheTtl
        /\ ~entry'.overtaken => entry'.value >= floor
    BY <2>1, <2>2, <1>0, <1>i DEF CacheInv
  <2> QED BY <2>1, <2>3, <2>4, <2>5, <1>i DEF CacheTypeOK, CacheInv
<1>4. ASSUME NEW r \in Requests, NEW invalidates \in BOOLEAN, WriteRows(r, invalidates)
      PROVE  CacheTypeOK' /\ CacheInv'
  <2>1. truth' = truth + 1 /\ truth' \in 0 .. MaxWrites /\ UNCHANGED <<clock, entry, floor>>
    BY <1>4, <1>0, <1>i DEF WriteRows
  <2>2. CASE invalidates
    <3>1. cache' = [cache EXCEPT ![r] =
                      [CacheIdle EXCEPT !.at = "invalidate", !.value = truth']]
      BY <1>4, <2>2 DEF WriteRows
    <3>2. /\ cache' \in [Requests -> CacheHandler]
          /\ cache'[r].at = "invalidate" /\ cache'[r].value = truth'
          /\ \A q \in Requests \ {r} : cache'[q] = cache[q]
      BY <3>1, <2>1, CacheBegins, CacheBecomes DEF CacheIdle
    <3> QED BY <2>1, <3>2, <1>i DEF CacheTypeOK, CacheInv
  <2>3. CASE ~invalidates
    <3>1. cache' = cache
      BY <1>4, <2>3 DEF WriteRows
    <3> QED BY <2>1, <3>1, <1>i DEF CacheTypeOK, CacheInv
  <2> QED BY <2>2, <2>3
<1>5. ASSUME NEW r \in Requests, Invalidate(r) PROVE CacheTypeOK' /\ CacheInv'
  <2>1. /\ cache[r].at = "invalidate" /\ UNCHANGED <<clock, truth>>
        /\ entry' = NoEntry
        /\ floor' = IF cache[r].value > floor THEN cache[r].value ELSE floor
    BY <1>5 DEF Invalidate
  <2>2. floor' \in 0 .. MaxWrites /\ floor' <= truth
    <3>1. cache[r].value <= truth /\ floor <= truth
      BY <2>1 DEF CacheInv
    <3>2. cache[r].value \in 0 .. MaxWrites /\ floor \in 0 .. MaxWrites
      BY <1>i DEF CacheHandler, CacheTypeOK
    <3>3. floor' \in {cache[r].value, floor}
      BY <2>1
    <3> QED BY <3>1, <3>2, <3>3
  <2>3. entry' \in Entry /\ ~entry'.there
    BY <2>1, <1>0 DEF NoEntry, Entry
  <2>4. \A q \in Requests \ {r} :
          cache'[q] = [cache[q] EXCEPT !.overtaken = cache[q].overtaken \/ cache[q].at = "store"]
    BY <1>5, <1>i DEF Invalidate, CacheHandler
  <2>5. cache'[r] = CacheIdle /\ DOMAIN cache' = Requests
    BY <1>5 DEF Invalidate
  <2>6. \A q \in Requests \ {r} :
          /\ cache'[q] \in CacheHandler
          /\ cache'[q].at = cache[q].at /\ cache'[q].now = cache[q].now
          /\ cache'[q].value = cache[q].value /\ cache'[q].read = cache[q].read
          /\ cache[q].at = "store" => cache'[q].overtaken
    <3> TAKE q \in Requests \ {r}
    <3>1. cache[q] \in CacheHandler
      BY <1>i
    <3>2. cache'[q] = [cache[q] EXCEPT !.overtaken = cache[q].overtaken \/ cache[q].at = "store"]
      BY <2>4
    <3> QED BY <3>1, <3>2 DEF CacheHandler
  <2>7. cache' \in [Requests -> CacheHandler]
    <3>1. cache' = [q \in Requests |-> cache'[q]]
      BY <1>5 DEF Invalidate
    <3> QED BY <3>1, <2>5, <2>6, CacheBegins
  <2> QED BY <2>1, <2>2, <2>3, <2>5, <2>6, <2>7, <1>i, CacheBegins DEF CacheTypeOK, CacheInv
<1>6. ASSUME NEW r \in Requests, CacheAbandon(r) PROVE CacheTypeOK' /\ CacheInv'
  <2>1. UNCHANGED <<clock, truth, entry, floor>>
    BY <1>6 DEF CacheAbandon
  <2>2. /\ cache' \in [Requests -> CacheHandler]
        /\ cache'[r].at = "idle"
        /\ \A q \in Requests \ {r} : cache'[q] = cache[q]
    BY <1>6, CacheBegins, CacheBecomes DEF CacheAbandon
  <2> QED BY <2>1, <2>2, <1>i DEF CacheTypeOK, CacheInv
<1>7. CASE CacheTick
  <2>1. clock' \in 0 .. MaxClock /\ clock <= clock' /\ clock' \in Nat
        /\ UNCHANGED <<truth, entry, cache, floor>>
    BY <1>7, <1>0, <1>i DEF CacheTick
  <2>2. CacheTypeOK'
    BY <2>1 DEF CacheTypeOK
  <2>3. \A q \in Requests : cache[q].at = "load" => cache[q].now <= clock'
    BY <2>1, <1>i DEF CacheInv
  <2> QED BY <2>1, <2>2, <2>3 DEF CacheInv
<1>8. CASE UNCHANGED cacheVars
  BY <1>8 DEF cacheVars, CacheTypeOK, CacheInv
<1> QED
  BY <1>1, <1>2, <1>3, <1>4, <1>5, <1>6, <1>7, <1>8 DEF CacheNext

LEMMA CacheStarts == CacheInit => CacheTypeOK /\ CacheInv
<1> SUFFICES ASSUME CacheInit PROVE CacheTypeOK /\ CacheInv
  OBVIOUS
<1>1. entry \in Entry /\ ~entry.there
  BY CacheAssumption DEF CacheInit, NoEntry, Entry
<1>2. cache \in [Requests -> CacheHandler] /\ \A r \in Requests : cache[r].at = "idle"
  BY CacheBegins DEF CacheInit
<1>3. 0 \in 0 .. MaxClock /\ 0 \in 0 .. MaxWrites
  BY CacheAssumption
<1> QED BY <1>1, <1>2, <1>3 DEF CacheInit, CacheTypeOK, CacheInv

\* HitIsRecent, of any times to live, writes and loads: a hit was loaded less
\* than the time to live ago, and shows what was invalidated unless the
\* invalidation overtook its load.
THEOREM HitIsRecentHolds == Spec => []HitIsRecent
<1>1. CacheInit => CacheTypeOK /\ CacheInv
  BY CacheStarts
<1>2. CacheTypeOK /\ CacheInv => HitIsRecent
  <2> SUFFICES ASSUME CacheTypeOK, CacheInv, Hit
               PROVE  /\ clock < entry.read + CacheTtl
                      /\ ~entry.overtaken => entry.value >= floor
    BY DEF HitIsRecent
  <2>1. clock \in Int /\ entry.expires \in Int /\ entry.read \in Int /\ CacheTtl \in Int
    BY CacheAssumption DEF CacheTypeOK, Entry
  <2> QED BY <2>1 DEF CacheInv, Hit
<1>3. CacheSpec => []HitIsRecent
  BY <1>1, <1>2, CacheNextStep, PTL DEF CacheSpec
<1> QED BY <1>3, EachService, PTL

-----------------------------------------------------------------------------
(* Onboarding. While no updates overlapped, whoever holds or made a site   *)
(* is the only one at work, and the site is on its way into the request.   *)

Done == {"connected", "disconnected"}

\* Every site anybody knows was made.
Made ==
  /\ request.site # NoSite => siteOf[request.site] # "none"
  /\ \A r \in Requests :
       /\ onb[r].site # NoSite => siteOf[onb[r].site] # "none"
       /\ onb[r].at = "provision" => onb[r].site # NoSite
       /\ onb[r].at \in {"read", "start"} => onb[r].site = NoSite
       /\ onb[r].at \in {"start", "provision"} => onb[r].status = "delivered"

\* Request r knows the site the onboarding request has, or makes its first.
Knows(r) ==
  /\ onb[r].at \in {"start", "provision"} => request.site = NoSite
  /\ onb[r].at = "update" => request.site \in {NoSite, onb[r].site}

Linked(s) ==
  /\ request.site = s /\ request.delivered
  /\ siteOf[s] \in Done
     \/ \E r \in Requests : /\ onb[r].at \in {"event", "connect"}
                            /\ onb[r].site = s /\ onb[r].status = "delivered"
ToBeLinked(s) ==
  /\ request.site = NoSite
  /\ \E r \in Requests : /\ onb[r].at \in {"provision", "update"}
                         /\ onb[r].site = s /\ onb[r].status = "delivered"

OnbInv ==
  /\ Made
  /\ ~astray =>
       /\ \A q, r \in Requests : OnbBusy(q) /\ OnbBusy(r) => q = r
       /\ \A r \in Requests : Knows(r)
       /\ \A s \in Sites : siteOf[s] # "none" => Linked(s) \/ ToBeLinked(s)

LEMMA OnbBecomes ==
  ASSUME OnbTypeOK, NEW r \in Requests, NEW state \in OnbHandler,
         onb' = [onb EXCEPT ![r] = state]
  PROVE  /\ onb' \in [Requests -> OnbHandler]
         /\ onb'[r] = state
         /\ \A q \in Requests \ {r} : onb'[q] = onb[q]
BY DEF OnbTypeOK

LEMMA OnbMoves ==
  ASSUME OnbTypeOK, NEW r \in Requests, NEW step \in OnbSteps, OnbGoto(r, step)
  PROVE  /\ onb' \in [Requests -> OnbHandler]
         /\ onb'[r].at = step
         /\ onb'[r].site = onb[r].site /\ onb'[r].status = onb[r].status
         /\ \A q \in Requests \ {r} : onb'[q] = onb[q]
<1>1. onb[r] \in OnbHandler
  BY DEF OnbTypeOK
<1>2. [onb[r] EXCEPT !.at = step] \in OnbHandler
  BY <1>1 DEF OnbHandler
<1> QED BY <1>1, <1>2 DEF OnbTypeOK, OnbGoto, OnbHandler

LEMMA OnbEnds ==
  ASSUME OnbTypeOK, NEW r \in Requests, OnbEnd(r)
  PROVE  /\ onb' \in [Requests -> OnbHandler]
         /\ onb'[r].at = "idle" /\ onb'[r].site = NoSite
         /\ \A q \in Requests \ {r} : onb'[q] = onb[q]
<1>1. OnbIdle \in OnbHandler /\ OnbIdle.at = "idle" /\ OnbIdle.site = NoSite
  BY DEF OnbIdle, OnbHandler, OnbSteps, Undelivered
<1> QED BY <1>1, OnbBecomes DEF OnbEnd

\* While updates take turns, the one at work is alone with the sites.
LEMMA OnlyOne ==
  ASSUME OnbTypeOK, OnbInv, ~astray, NEW r \in Requests, OnbBusy(r)
  PROVE  \A q \in Requests \ {r} : onb[q].at = "idle"
BY DEF OnbInv, OnbBusy

LEMMA OnbNextStep == OnbTypeOK /\ OnbInv /\ [OnbNext]_onbVars => OnbTypeOK' /\ OnbInv'
<1> SUFFICES ASSUME OnbTypeOK, OnbInv, [OnbNext]_onbVars PROVE OnbTypeOK' /\ OnbInv'
  OBVIOUS
<1>0. NoSite \notin Sites /\ MaxUpdates \in Nat
  BY OnboardingAssumption
<1>i. /\ request \in [status : Undelivered \cup {"none", "delivered"},
                      site : Sites \cup {NoSite}, delivered : BOOLEAN]
      /\ siteOf \in [Sites -> {"none", "pending", "provisioning", "connected", "disconnected"}]
      /\ \A r \in Requests : /\ onb[r] \in OnbHandler
                             /\ onb[r].site \in Sites \cup {NoSite}
                             /\ onb[r].status \in Undelivered \cup {"delivered"}
      /\ updates \in 0 .. MaxUpdates /\ astray \in BOOLEAN
  BY DEF OnbTypeOK, OnbHandler
<1>1. CASE SubmitRequest
  <2>1. UNCHANGED <<siteOf, onb, updates, astray>>
    BY <1>1 DEF SubmitRequest
  <2>2. /\ request'.site = request.site /\ request'.delivered = request.delivered
        /\ request' \in [status : Undelivered \cup {"none", "delivered"},
                         site : Sites \cup {NoSite}, delivered : BOOLEAN]
    BY <1>1, <1>i DEF SubmitRequest, Undelivered
  <2> QED BY <2>1, <2>2 DEF OnbTypeOK, OnbInv, Made, Knows, Linked, ToBeLinked, OnbBusy
<1>2. ASSUME NEW r \in Requests, NEW status \in Undelivered \cup {"delivered"},
             NEW create \in BOOLEAN, BeginUpdate(r, status, create)
      PROVE  OnbTypeOK' /\ OnbInv'
  <2>1. UNCHANGED <<request, siteOf>> /\ updates' \in 0 .. MaxUpdates /\ astray' \in BOOLEAN
    BY <1>2, <1>0, <1>i DEF BeginUpdate
  <2>2. /\ onb' \in [Requests -> OnbHandler]
        /\ onb'[r].at = "read" /\ onb'[r].site = NoSite
        /\ \A q \in Requests \ {r} : onb'[q] = onb[q]
    <3>1. [at |-> "read", status |-> status, create |-> create, site |-> NoSite] \in OnbHandler
      BY DEF OnbHandler, OnbSteps
    <3> QED BY <1>2, <3>1, OnbBecomes DEF BeginUpdate
  <2>3. ~astray' => ~astray /\ \A q \in Requests : ~OnbBusy(q)
    BY <1>2 DEF BeginUpdate
  <2>4. Made'
    BY <2>1, <2>2 DEF OnbInv, Made
  <2>5. ASSUME ~astray'
        PROVE  /\ \A p, q \in Requests : OnbBusy(p)' /\ OnbBusy(q)' => p = q
               /\ \A q \in Requests : Knows(q)'
    BY <2>2, <2>3, <2>5 DEF OnbBusy, Knows
  <2>6. ASSUME ~astray', NEW s \in Sites, siteOf'[s] # "none"
        PROVE  Linked(s)'
    <3>1. Linked(s) \/ ToBeLinked(s)
      BY <2>1, <2>3, <2>6 DEF OnbInv
    <3>2. request.site = s /\ request.delivered /\ siteOf[s] \in Done
      BY <2>3, <2>6, <3>1 DEF Linked, ToBeLinked, OnbBusy
    <3> QED BY <2>1, <3>2 DEF Linked
  <2> QED BY <2>1, <2>2, <2>4, <2>5, <2>6 DEF OnbTypeOK, OnbInv
<1>3. ASSUME NEW r \in Requests, ReadRequest(r) PROVE OnbTypeOK' /\ OnbInv'
  <2>1. onb[r].at = "read" /\ UNCHANGED <<request, siteOf, updates, astray>>
    BY <1>3 DEF ReadRequest
  <2>2. PICK step \in {"start", "update"} :
          /\ onb' = [onb EXCEPT ![r] = [onb[r] EXCEPT !.site = request.site, !.at = step]]
          /\ step = "start" => onb[r].status = "delivered" /\ request.site = NoSite
    BY <1>3, <1>i DEF ReadRequest
  <2>3. [onb[r] EXCEPT !.site = request.site, !.at = step] \in OnbHandler
    BY <1>i DEF OnbHandler, OnbSteps
  <2>4. /\ onb' \in [Requests -> OnbHandler]
        /\ onb'[r].at = step /\ onb'[r].site = request.site
        /\ onb'[r].status = onb[r].status
        /\ \A q \in Requests \ {r} : onb'[q] = onb[q]
    BY <2>2, <2>3, <1>i, OnbBecomes DEF OnbHandler
  <2>5. Made'
    BY <2>1, <2>2, <2>4 DEF OnbInv, Made
  <2>6. ASSUME ~astray
        PROVE  /\ \A p, q \in Requests : OnbBusy(p)' /\ OnbBusy(q)' => p = q
               /\ \A q \in Requests : Knows(q)'
               /\ \A s \in Sites : siteOf'[s] # "none" => Linked(s)'
    <3>1. \A q \in Requests \ {r} : onb[q].at = "idle"
      BY <2>1, <2>6, OnlyOne DEF OnbBusy
    <3>2. \A s \in Sites : siteOf[s] # "none" =>
            request.site = s /\ request.delivered /\ siteOf[s] \in Done
      BY <2>1, <2>6, <3>1 DEF OnbInv, Linked, ToBeLinked
    <3> QED BY <2>1, <2>2, <2>4, <3>1, <3>2 DEF OnbBusy, Knows, Linked
  <2> QED BY <2>1, <2>4, <2>5, <2>6, <1>i DEF OnbTypeOK, OnbInv
<1>4. ASSUME NEW r \in Requests, StartSite(r) PROVE OnbTypeOK' /\ OnbInv'
  <2>1. onb[r].at = "start" /\ UNCHANGED <<request, updates, astray>>
    BY <1>4 DEF StartSite
  <2>2. PICK s \in Sites :
          /\ siteOf[s] = "none" /\ siteOf' = [siteOf EXCEPT ![s] = "pending"]
          /\ onb' = [onb EXCEPT ![r] = [onb[r] EXCEPT !.at = "provision", !.site = s]]
    BY <1>4, <1>i DEF StartSite
  <2>3. [onb[r] EXCEPT !.at = "provision", !.site = s] \in OnbHandler
    BY <1>i DEF OnbHandler, OnbSteps
  <2>4. /\ onb' \in [Requests -> OnbHandler]
        /\ onb'[r].at = "provision" /\ onb'[r].site = s
        /\ onb'[r].status = onb[r].status
        /\ \A q \in Requests \ {r} : onb'[q] = onb[q]
    BY <2>2, <2>3, <1>i, OnbBecomes DEF OnbHandler
  <2>5. /\ siteOf' \in [Sites -> {"none", "pending", "provisioning", "connected", "disconnected"}]
        /\ siteOf'[s] # "none" /\ \A t \in Sites \ {s} : siteOf'[t] = siteOf[t]
    BY <2>2, <1>i
  <2>6. Made'
    BY <2>1, <2>4, <2>5, <1>0, <1>i DEF OnbInv, Made
  <2>7. ASSUME ~astray
        PROVE  /\ \A p, q \in Requests : OnbBusy(p)' /\ OnbBusy(q)' => p = q
               /\ \A q \in Requests : Knows(q)'
               /\ \A t \in Sites : siteOf'[t] # "none" => ToBeLinked(t)'
    <3>1. \A q \in Requests \ {r} : onb[q].at = "idle"
      BY <2>1, <2>7, OnlyOne DEF OnbBusy
    <3>2. request.site = NoSite
      BY <2>1, <2>7 DEF OnbInv, Knows
    <3>3. onb[r].status = "delivered"
      BY <2>1 DEF OnbInv, Made
    <3>4. \A t \in Sites : siteOf[t] = "none"
      BY <2>1, <2>7, <3>1, <3>2, <1>0 DEF OnbInv, Linked, ToBeLinked
    <3> QED BY <2>1, <2>4, <2>5, <3>1, <3>2, <3>3, <3>4 DEF OnbBusy, Knows, ToBeLinked
  <2> QED BY <2>1, <2>4, <2>5, <2>6, <2>7, <1>i DEF OnbTypeOK, OnbInv
<1>5. ASSUME NEW r \in Requests, ProvisionSite(r) PROVE OnbTypeOK' /\ OnbInv'
  <2>1. /\ onb[r].at = "provision" /\ UNCHANGED <<request, updates, astray>>
        /\ siteOf' = [siteOf EXCEPT ![onb[r].site] = "provisioning"]
    BY <1>5 DEF ProvisionSite
  <2>2. /\ onb' \in [Requests -> OnbHandler]
        /\ onb'[r].at = "update" /\ onb'[r].site = onb[r].site
        /\ onb'[r].status = onb[r].status
        /\ \A q \in Requests \ {r} : onb'[q] = onb[q]
    BY <1>5, OnbMoves DEF ProvisionSite, OnbSteps
  <2>3. onb[r].site \in Sites
    BY <2>1, <1>i DEF OnbInv, Made
  <2>4. /\ siteOf' \in [Sites -> {"none", "pending", "provisioning", "connected", "disconnected"}]
        /\ siteOf'[onb[r].site] = "provisioning"
        /\ \A t \in Sites \ {onb[r].site} : siteOf'[t] = siteOf[t]
    BY <2>1, <2>3, <1>i
  <2>5. Made'
    BY <2>1, <2>2, <2>3, <2>4, <1>0, <1>i DEF OnbInv, Made
  <2>6. ASSUME ~astray
        PROVE  /\ \A p, q \in Requests : OnbBusy(p)' /\ OnbBusy(q)' => p = q
               /\ \A q \in Requests : Knows(q)'
               /\ \A t \in Sites : siteOf'[t] # "none" => ToBeLinked(t)'
    <3>1. \A q \in Requests \ {r} : onb[q].at = "idle"
      BY <2>1, <2>6, OnlyOne DEF OnbBusy
    <3>2. request.site = NoSite /\ onb[r].status = "delivered"
      BY <2>1, <2>6 DEF OnbInv, Knows, Made
    <3>3. \A t \in Sites : siteOf[t] # "none" => t = onb[r].site
      BY <2>1, <2>6, <3>1, <3>2, <1>0 DEF OnbInv, Linked, ToBeLinked
    <3> QED BY <2>1, <2>2, <2>4, <3>1, <3>2, <3>3 DEF OnbBusy, Knows, ToBeLinked
  <2> QED BY <2>1, <2>2, <2>4, <2>5, <2>6, <1>i DEF OnbTypeOK, OnbInv
<1>6. ASSUME NEW r \in Requests, UpdateRequest(r) PROVE OnbTypeOK' /\ OnbInv'
  <2>1. /\ onb[r].at = "update" /\ UNCHANGED <<siteOf, updates, astray>>
        /\ request' = [status |-> onb[r].status,
                       site |-> IF onb[r].site = NoSite THEN request.site ELSE onb[r].site,
                       delivered |-> request.delivered \/ onb[r].status = "delivered"]
    BY <1>6 DEF UpdateRequest
  <2>2. /\ onb' \in [Requests -> OnbHandler]
        /\ onb'[r].at = "event" /\ onb'[r].site = onb[r].site
        /\ onb'[r].status = onb[r].status
        /\ \A q \in Requests \ {r} : onb'[q] = onb[q]
    BY <1>6, OnbMoves DEF UpdateRequest, OnbSteps
  <2>3. request' \in [status : Undelivered \cup {"none", "delivered"},
                      site : Sites \cup {NoSite}, delivered : BOOLEAN]
    BY <2>1, <1>i
  <2>4. Made'
    BY <2>1, <2>2, <1>i DEF OnbInv, Made
  <2>5. ASSUME ~astray
        PROVE  /\ \A p, q \in Requests : OnbBusy(p)' /\ OnbBusy(q)' => p = q
               /\ \A q \in Requests : Knows(q)'
    <3>1. \A q \in Requests \ {r} : onb[q].at = "idle"
      BY <2>1, <2>5, OnlyOne DEF OnbBusy
    <3> QED BY <2>1, <2>2, <3>1 DEF OnbBusy, Knows
  <2>6. ASSUME ~astray, NEW s \in Sites, siteOf[s] # "none"
        PROVE  Linked(s)'
    <3>1. \A q \in Requests \ {r} : onb[q].at = "idle"
      BY <2>1, <2>6, OnlyOne DEF OnbBusy
    <3>2. request.site \in {NoSite, onb[r].site}
      BY <2>1, <2>6 DEF OnbInv, Knows
    <3>3. CASE Linked(s)
      <4>1. request.site = s /\ request.delivered /\ siteOf[s] \in Done
        BY <2>1, <3>1, <3>3 DEF Linked
      <4>2. onb[r].site = s
        BY <3>2, <4>1, <1>0
      <4>3. request'.site = s /\ request'.delivered
        BY <2>1, <4>1, <4>2, <1>0
      <4> QED BY <2>1, <4>1, <4>3 DEF Linked
    <3>4. CASE ToBeLinked(s)
      <4>1. onb[r].site = s /\ onb[r].status = "delivered"
        BY <3>1, <3>4 DEF ToBeLinked
      <4>2. request'.site = s /\ request'.delivered
        BY <2>1, <4>1, <1>0
      <4> QED BY <2>1, <2>2, <4>1, <4>2 DEF Linked
    <3> QED BY <2>6, <3>3, <3>4 DEF OnbInv
  <2> QED BY <2>1, <2>2, <2>3, <2>4, <2>5, <2>6, <1>i DEF OnbTypeOK, OnbInv
<1>7. ASSUME NEW r \in Requests, RecordStatus(r) PROVE OnbTypeOK' /\ OnbInv'
  <2>1. onb[r].at = "event" /\ UNCHANGED <<request, siteOf, updates, astray>>
    BY <1>7 DEF RecordStatus
  <2>2. /\ onb' \in [Requests -> OnbHandler]
        /\ \/ /\ onb'[r].at = "connect"
              /\ onb'[r].site = onb[r].site /\ onb'[r].status = onb[r].status
           \/ /\ onb'[r].at = "idle" /\ onb'[r].site = NoSite
              /\ ~(onb[r].status = "delivered" /\ onb[r].site # NoSite)
        /\ \A q \in Requests \ {r} : onb'[q] = onb[q]
    BY <1>7, OnbMoves, OnbEnds DEF RecordStatus, OnbSteps
  <2>3. Made'
    BY <2>1, <2>2 DEF OnbInv, Made
  <2>4. ASSUME ~astray
        PROVE  /\ \A p, q \in Requests : OnbBusy(p)' /\ OnbBusy(q)' => p = q
               /\ \A q \in Requests : Knows(q)'
               /\ \A s \in Sites : siteOf'[s] # "none" => Linked(s)'
    <3>1. \A q \in Requests \ {r} : onb[q].at = "idle"
      BY <2>1, <2>4, OnlyOne DEF OnbBusy
    <3>2. \A s \in Sites : siteOf[s] # "none" => Linked(s)
      BY <2>1, <2>4, <3>1 DEF OnbInv, ToBeLinked
    <3>3. ASSUME NEW s \in Sites, siteOf[s] # "none" PROVE Linked(s)'
      BY <2>1, <2>2, <3>1, <3>2, <3>3, <1>0 DEF Linked
    <3> QED BY <2>1, <2>2, <3>1, <3>3 DEF OnbBusy, Knows
  <2> QED BY <2>1, <2>2, <2>3, <2>4, <1>i DEF OnbTypeOK, OnbInv
<1>8. ASSUME NEW r \in Requests, ConnectSite(r) PROVE OnbTypeOK' /\ OnbInv'
  <2>1. /\ onb[r].at = "connect" /\ UNCHANGED <<request, updates, astray>>
        /\ siteOf' = [siteOf EXCEPT ![onb[r].site] = "connected"]
    BY <1>8 DEF ConnectSite
  <2>2. /\ onb' \in [Requests -> OnbHandler]
        /\ onb'[r].at = "idle" /\ onb'[r].site = NoSite
        /\ \A q \in Requests \ {r} : onb'[q] = onb[q]
    BY <1>8, OnbEnds DEF ConnectSite
  <2>3. /\ siteOf' \in [Sites -> {"none", "pending", "provisioning", "connected", "disconnected"}]
        /\ \A s \in Sites : siteOf'[s] = IF s = onb[r].site THEN "connected" ELSE siteOf[s]
    BY <2>1, <1>i
  <2>4. Made'
    BY <2>1, <2>2, <2>3, <1>i DEF OnbInv, Made
  <2>5. ASSUME ~astray
        PROVE  /\ \A p, q \in Requests : OnbBusy(p)' /\ OnbBusy(q)' => p = q
               /\ \A q \in Requests : Knows(q)'
               /\ \A s \in Sites : siteOf'[s] # "none" => Linked(s)'
    <3>1. \A q \in Requests \ {r} : onb[q].at = "idle"
      BY <2>1, <2>5, OnlyOne DEF OnbBusy
    <3>2. \A s \in Sites : siteOf'[s] # "none" => siteOf[s] # "none"
      BY <2>3, <1>0, <1>i DEF OnbInv, Made
    <3>3. \A s \in Sites : siteOf[s] # "none" => Linked(s)
      BY <2>1, <2>5, <3>1 DEF OnbInv, ToBeLinked
    <3>4. ASSUME NEW s \in Sites, siteOf'[s] # "none" PROVE Linked(s)'
      <4>1. siteOf'[s] \in Done
        BY <2>1, <2>3, <3>1, <3>2, <3>3, <3>4 DEF Linked, Done
      <4> QED BY <2>1, <3>2, <3>3, <3>4, <4>1 DEF Linked
    <3> QED BY <2>1, <2>2, <3>1, <3>4 DEF OnbBusy, Knows
  <2> QED BY <2>1, <2>2, <2>3, <2>4, <2>5, <1>i DEF OnbTypeOK, OnbInv
<1>9. ASSUME NEW r \in Requests, OnbAbandon(r) PROVE OnbTypeOK' /\ OnbInv'
  <2>1. /\ OnbBusy(r) /\ UNCHANGED <<request, siteOf, updates>>
        /\ astray' = (astray \/ onb[r].at \notin {"read", "start"})
    BY <1>9 DEF OnbAbandon
  <2>2. /\ onb' \in [Requests -> OnbHandler]
        /\ onb'[r].at = "idle" /\ onb'[r].site = NoSite
        /\ \A q \in Requests \ {r} : onb'[q] = onb[q]
    BY <1>9, OnbEnds DEF OnbAbandon
  <2>3. OnbTypeOK' /\ Made'
    BY <2>1, <2>2, <1>i DEF OnbTypeOK, OnbInv, Made
  <2>4. ASSUME ~astray'
        PROVE  /\ \A p, q \in Requests : OnbBusy(p)' /\ OnbBusy(q)' => p = q
               /\ \A q \in Requests : Knows(q)'
               /\ \A s \in Sites : siteOf'[s] # "none" => Linked(s)' \/ ToBeLinked(s)'
    <3>1. ~astray /\ onb[r].at \in {"read", "start"}
      BY <2>1, <2>4
    <3>2. \A q \in Requests : onb'[q].at = "idle"
      BY <2>1, <2>2, <3>1, OnlyOne
    <3>3. \A s \in Sites : (Linked(s) => Linked(s)') /\ ~ToBeLinked(s)
      BY <2>1, <2>2, <3>1, OnlyOne DEF Linked, ToBeLinked
    <3> QED BY <2>1, <3>1, <3>2, <3>3 DEF OnbInv, OnbBusy, Knows
  <2> QED BY <2>3, <2>4 DEF OnbInv
<1>10. ASSUME NEW s \in Sites, ChangeSite(s) PROVE OnbTypeOK' /\ OnbInv'
  <2>1. UNCHANGED <<request, onb, astray>> /\ updates' \in 0 .. MaxUpdates
        /\ siteOf[s] # "none"
    BY <1>10, <1>0, <1>i DEF ChangeSite
  <2>2. /\ siteOf' \in [Sites -> {"none", "pending", "provisioning", "connected", "disconnected"}]
        /\ siteOf'[s] \in Done /\ \A t \in Sites \ {s} : siteOf'[t] = siteOf[t]
    BY <1>10, <1>i DEF ChangeSite, Done
  <2>3. Made'
    BY <2>1, <2>2, <1>i DEF OnbInv, Made, Done
  <2>4. \A t \in Sites : /\ siteOf'[t] # "none" => siteOf[t] # "none"
                         /\ Linked(t) => Linked(t)'
                         /\ ToBeLinked(t) => ToBeLinked(t)'
    BY <2>1, <2>2 DEF Linked, ToBeLinked
  <2>5. /\ \A q \in Requests : Knows(q)' = Knows(q) /\ OnbBusy(q)' = OnbBusy(q)
    BY <2>1 DEF Knows, OnbBusy
  <2> QED BY <2>1, <2>2, <2>3, <2>4, <2>5, <1>i DEF OnbTypeOK, OnbInv
<1>11. CASE UNCHANGED onbVars
  BY <1>11 DEF onbVars, OnbTypeOK, OnbInv, Made, Knows, Linked, ToBeLinked, OnbBusy
<1> QED
  BY <1>1, <1>2, <1>3, <1>4, <1>5, <1>6, <1>7, <1>8, <1>9, <1>10, <1>11 DEF OnbNext

LEMMA OnbStarts == OnbInit => OnbTypeOK /\ OnbInv
<1> SUFFICES ASSUME OnbInit PROVE OnbTypeOK /\ OnbInv
  OBVIOUS
<1>1. OnbIdle \in OnbHandler /\ OnbIdle.at = "idle" /\ OnbIdle.site = NoSite
  BY DEF OnbIdle, OnbHandler, OnbSteps, Undelivered
<1>2. 0 \in 0 .. MaxUpdates
  BY OnboardingAssumption
<1>3. OnbTypeOK
  BY <1>1, <1>2 DEF OnbInit, OnbTypeOK
<1> QED BY <1>1, <1>3 DEF OnbInit, OnbInv, Made, Knows, OnbBusy

\* OneSiteEach, of any administrators and sites: updates that take turns and
\* end make one site for a request, link it and deliver it.
THEOREM OneSiteEachHolds == Spec => []OneSiteEach
<1>1. OnbInit => OnbTypeOK /\ OnbInv
  BY OnbStarts
<1>2. OnbInv => OneSiteEach
  BY DEF OnbInv, OneSiteEach, Linked, ToBeLinked, OnbBusy, Done
<1>3. OnbSpec => []OneSiteEach
  BY <1>1, <1>2, OnbNextStep, PTL DEF OnbSpec
<1> QED BY <1>3, EachService, PTL

-----------------------------------------------------------------------------
(* SocialPublish. While workers take turns, what a worker holds is the     *)
(* newest post, and so is the record, but for the moment it is replaced.   *)

Consistent ==
  /\ post.id = newest
  /\ post.id # NoJob => job[post.job].post = post.id

Worker(j) ==
  /\ worker[j].at = "post" => worker[j].post = newest
  /\ worker[j].at \in {"finish", "record"} => worker[j].post = newest /\ newest # NoJob
  /\ worker[j].at = "record" => job[j].post = newest
  /\ worker[j].at # "fail"

SocInv ==
  /\ post.id # NoJob => post.job \in Jobs
  /\ ~entangled =>
       /\ ~doubled
       /\ \A j, k \in Jobs : worker[j].at # "idle" /\ worker[k].at # "idle" => j = k
       /\ \A j \in Jobs : Worker(j)
       /\ (\A j \in Jobs : worker[j].at \notin {"finish", "record"}) => Consistent

LEMMA WorkerMoves ==
  ASSUME SocTypeOK, NEW j \in Jobs, NEW step \in WorkerSteps, WorkerGoto(j, step)
  PROVE  /\ worker' \in [Jobs -> [at : WorkerSteps, post : Post]]
         /\ worker'[j].at = step /\ worker'[j].post = worker[j].post
         /\ \A k \in Jobs \ {j} : worker'[k] = worker[k]
<1>1. worker[j] \in [at : WorkerSteps, post : Post]
  BY DEF SocTypeOK
<1>2. [worker[j] EXCEPT !.at = step] \in [at : WorkerSteps, post : Post]
  BY <1>1
<1> QED BY <1>1, <1>2 DEF SocTypeOK, WorkerGoto

LEMMA WorkerBecomes ==
  ASSUME SocTypeOK, NEW j \in Jobs, NEW step \in WorkerSteps, NEW p \in Post,
         worker' = [worker EXCEPT ![j] = [at |-> step, post |-> p]]
  PROVE  /\ worker' \in [Jobs -> [at : WorkerSteps, post : Post]]
         /\ worker'[j].at = step /\ worker'[j].post = p
         /\ \A k \in Jobs \ {j} : worker'[k] = worker[k]
<1>1. [at |-> step, post |-> p] \in [at : WorkerSteps, post : Post]
  OBVIOUS
<1> QED BY <1>1 DEF SocTypeOK

\* Jobs of other workers, and the post a job knows.
LEMMA JobStatus ==
  ASSUME SocTypeOK, NEW j \in Jobs, NEW status \in Ended \cup {"none", "queued", "running"},
         job' = [job EXCEPT ![j] = [job[j] EXCEPT !.status = status]]
  PROVE  /\ job' \in [Jobs -> [status : Ended \cup {"none", "queued", "running"},
                               update : BOOLEAN, post : Post]]
         /\ \A k \in Jobs : job'[k].post = job[k].post
<1>1. job[j] \in [status : Ended \cup {"none", "queued", "running"}, update : BOOLEAN,
                  post : Post]
  BY DEF SocTypeOK
<1>2. [job[j] EXCEPT !.status = status]
        \in [status : Ended \cup {"none", "queued", "running"}, update : BOOLEAN, post : Post]
  BY <1>1
<1> QED BY <1>1, <1>2 DEF SocTypeOK

\* While workers take turns, the others are idle.
LEMMA OneWorker ==
  ASSUME SocInv, ~entangled, NEW j \in Jobs, worker[j].at # "idle"
  PROVE  \A k \in Jobs \ {j} : worker[k].at = "idle"
BY DEF SocInv

\* Requests leave posts and workers alone, but for the job they insert.
LEMMA SocRequest ==
  ASSUME SocTypeOK, SocInv, NEW r \in Requests,
         \/ CreateChannel(r) \/ ReadChannel(r, "connect") \/ ReadChannel(r, "revoke")
         \/ MarkConnected(r) \/ MarkRevoked(r) \/ FindChannel(r) \/ SocAbandon(r)
  PROVE  SocTypeOK' /\ SocInv'
<1>1. UNCHANGED <<editable, job, post, worker, newest, doubled, entangled>>
  BY DEF CreateChannel, ReadChannel, MarkConnected, MarkRevoked, FindChannel, SocAbandon, Posts
<1>2. channel' \in {"none", "pending", "connected", "revoked"}
  BY DEF CreateChannel, ReadChannel, MarkConnected, MarkRevoked, FindChannel, SocAbandon,
         SocTypeOK
<1>3. \E step \in SocialSteps : social' = [social EXCEPT ![r] = step]
  BY DEF CreateChannel, ReadChannel, MarkConnected, MarkRevoked, FindChannel, SocAbandon,
         SocGoto, SocialSteps
<1>4. social' \in [Requests -> SocialSteps]
  BY <1>3 DEF SocTypeOK
<1> QED BY <1>1, <1>2, <1>4 DEF SocTypeOK, SocInv, Worker, Consistent

LEMMA SocNextStep == SocTypeOK /\ SocInv /\ [SocNext]_socVars => SocTypeOK' /\ SocInv'
<1> SUFFICES ASSUME SocTypeOK, SocInv, [SocNext]_socVars PROVE SocTypeOK' /\ SocInv'
  OBVIOUS
<1>0. NoJob \notin Jobs
  BY SocialAssumption
<1>i. /\ post \in [id : Post, job : Post] /\ newest \in Post
      /\ doubled \in BOOLEAN /\ entangled \in BOOLEAN
      /\ \A j \in Jobs : /\ worker[j] \in [at : WorkerSteps, post : Post]
                         /\ job[j] \in [status : Ended \cup {"none", "queued", "running"},
                                        update : BOOLEAN, post : Post]
                         /\ j \in Post
  BY DEF SocTypeOK, Post
<1>1. ASSUME NEW r \in Requests, NEW j \in Jobs, NEW update \in BOOLEAN,
             InsertJob(r, j, update)
      PROVE  SocTypeOK' /\ SocInv'
  <2>1. UNCHANGED <<channel, editable, post, newest, doubled>> /\ entangled' \in BOOLEAN
    BY <1>1, <1>i DEF InsertJob
  <2>2. social' \in [Requests -> SocialSteps]
    BY <1>1 DEF InsertJob, SocGoto, SocTypeOK, SocialSteps
  <2>3. /\ job' \in [Jobs -> [status : Ended \cup {"none", "queued", "running"},
                              update : BOOLEAN, post : Post]]
        /\ \A k \in Jobs : job'[k].post = job[k].post
    <3>1. job' = [job EXCEPT ![j] = [job[j] EXCEPT !.status = "queued", !.update = update]]
      BY <1>1 DEF InsertJob
    <3>2. [job[j] EXCEPT !.status = "queued", !.update = update]
            \in [status : Ended \cup {"none", "queued", "running"}, update : BOOLEAN, post : Post]
      <4>1. job[j] \in [status : Ended \cup {"none", "queued", "running"}, update : BOOLEAN, post : Post]
        BY <1>i
      <4> QED BY <4>1
    <3> QED BY <3>1, <3>2, <1>i DEF SocTypeOK
  <2>4. /\ worker' \in [Jobs -> [at : WorkerSteps, post : Post]]
        /\ worker'[j].at = "start"
        /\ \A k \in Jobs \ {j} : worker'[k] = worker[k]
    <3>1. WorkerGoto(j, "start")
      BY <1>1 DEF InsertJob, WorkerGoto
    <3> QED BY <3>1, WorkerMoves DEF WorkerSteps
  <2>5. ~entangled' => ~entangled /\ \A k \in Jobs : worker[k].at = "idle"
    BY <1>1 DEF InsertJob
  <2>6. Consistent => Consistent'
    BY <2>1, <2>3 DEF Consistent, SocInv
  <2>7. SocInv'
    BY <2>1, <2>4, <2>5, <2>6 DEF SocInv, Worker
  <2>8. SocTypeOK'
    BY <2>1, <2>2, <2>3, <2>4 DEF SocTypeOK
  <2> QED BY <2>7, <2>8
<1>2. ASSUME NEW j \in Jobs, StartJob(j) PROVE SocTypeOK' /\ SocInv'
  <2>1. /\ worker[j].at = "start"
        /\ UNCHANGED <<channel, editable, post, social, newest, doubled, entangled>>
    BY <1>2 DEF StartJob
  <2>2. /\ job' \in [Jobs -> [status : Ended \cup {"none", "queued", "running"},
                              update : BOOLEAN, post : Post]]
        /\ \A k \in Jobs : job'[k].post = job[k].post
    <3>1. job' = [job EXCEPT ![j] = [job[j] EXCEPT !.status = "running"]]
      BY <1>2, <1>i DEF StartJob, SocTypeOK
    <3> QED BY <3>1, JobStatus
  <2>3. /\ worker' \in [Jobs -> [at : WorkerSteps, post : Post]]
        /\ worker'[j].at = "find"
        /\ \A k \in Jobs \ {j} : worker'[k] = worker[k]
    BY <1>2, WorkerMoves DEF StartJob, WorkerSteps
  <2>4. Consistent => Consistent'
    BY <2>1, <2>2 DEF Consistent, SocInv
  <2>5. ~entangled => \A k \in Jobs \ {j} : worker[k].at = "idle"
    BY <2>1, OneWorker
  <2>6. ~entangled => \A k \in Jobs : Worker(k)'
    BY <2>1, <2>3, <2>5 DEF Worker
  <2>7. SocInv'
    BY <2>1, <2>3, <2>4, <2>5, <2>6 DEF SocInv
  <2> QED BY <2>1, <2>2, <2>3, <2>7 DEF SocTypeOK
<1>3. ASSUME NEW j \in Jobs, FindPost(j) PROVE SocTypeOK' /\ SocInv'
  <2>1. /\ worker[j].at = "find"
        /\ UNCHANGED <<channel, editable, job, post, social, newest, doubled, entangled>>
    BY <1>3 DEF FindPost
  <2>2. /\ worker' \in [Jobs -> [at : WorkerSteps, post : Post]]
        /\ worker'[j].at = "post" /\ worker'[j].post = post.id
        /\ \A k \in Jobs \ {j} : worker'[k] = worker[k]
    BY <1>3, <1>i, WorkerBecomes DEF FindPost, WorkerSteps
  <2>3. ~entangled => \A k \in Jobs \ {j} : worker[k].at = "idle"
    BY <2>1, OneWorker
  <2>4. ~entangled => Consistent
    BY <2>1, <2>3 DEF SocInv
  <2>5. Consistent' = Consistent
    BY <2>1 DEF Consistent
  <2>6. SocInv'
    BY <2>1, <2>2, <2>3, <2>4, <2>5 DEF SocInv, Worker, Consistent
  <2> QED BY <2>1, <2>2, <2>6 DEF SocTypeOK
<1>4. ASSUME NEW j \in Jobs, PostProduct(j) PROVE SocTypeOK' /\ SocInv'
  <2>1. worker[j].at = "post" /\ UNCHANGED <<channel, editable, job, post, social, entangled>>
    BY <1>4 DEF PostProduct
  <2>2. ~entangled => \A k \in Jobs \ {j} : worker[k].at = "idle"
    BY <2>1, OneWorker
  <2>3. ~entangled => worker[j].post = newest
    BY <2>1 DEF SocInv, Worker
  <2>4. CASE job[j].update /\ worker[j].post # NoJob
    <3>1. UNCHANGED <<newest, doubled>> /\ WorkerGoto(j, "finish")
      BY <1>4, <2>4 DEF PostProduct
    <3>2. /\ worker' \in [Jobs -> [at : WorkerSteps, post : Post]]
          /\ worker'[j].at = "finish" /\ worker'[j].post = worker[j].post
          /\ \A k \in Jobs \ {j} : worker'[k] = worker[k]
      BY <3>1, WorkerMoves DEF WorkerSteps
    <3>3. SocInv'
      BY <2>1, <2>2, <2>3, <2>4, <3>1, <3>2 DEF SocInv, Worker
    <3> QED BY <2>1, <3>1, <3>2, <3>3 DEF SocTypeOK
  <2>5. CASE ~(job[j].update /\ worker[j].post # NoJob)
    <3>1. /\ worker' = [worker EXCEPT ![j] = [at |-> "finish", post |-> j]]
          /\ newest' = j
          /\ doubled' = (doubled \/ (job[j].update /\ newest # NoJob))
      BY <1>4, <2>5 DEF PostProduct
    <3>2. /\ worker' \in [Jobs -> [at : WorkerSteps, post : Post]]
          /\ worker'[j].at = "finish" /\ worker'[j].post = j
          /\ \A k \in Jobs \ {j} : worker'[k] = worker[k]
      BY <3>1, <1>i, WorkerBecomes DEF WorkerSteps
    <3>3. ~entangled => doubled' = doubled
      BY <2>3, <2>5, <3>1, <1>i
    <3>4. SocInv'
      BY <2>1, <2>2, <3>1, <3>2, <3>3, <1>0 DEF SocInv, Worker
    <3>5. doubled' \in BOOLEAN /\ newest' \in Post
      BY <3>1, <1>i
    <3> QED BY <2>1, <3>2, <3>4, <3>5 DEF SocTypeOK
  <2> QED BY <2>4, <2>5
<1>5. ASSUME NEW j \in Jobs, FinishJob(j) PROVE SocTypeOK' /\ SocInv'
  <2>1. /\ worker[j].at = "finish"
        /\ UNCHANGED <<channel, editable, post, social, newest, doubled, entangled>>
    BY <1>5 DEF FinishJob
  <2>2. /\ job' \in [Jobs -> [status : Ended \cup {"none", "queued", "running"},
                              update : BOOLEAN, post : Post]]
        /\ job'[j].post = worker[j].post
    <3>1. PICK status \in {"published", "edit_not_supported"} :
            job' = [job EXCEPT ![j] = [job[j] EXCEPT !.status = status, !.post = worker[j].post]]
      BY <1>5, <1>i DEF FinishJob, SocTypeOK
    <3>2. [job[j] EXCEPT !.status = status, !.post = worker[j].post]
            \in [status : Ended \cup {"none", "queued", "running"}, update : BOOLEAN, post : Post]
      <4>1. job[j] \in [status : Ended \cup {"none", "queued", "running"}, update : BOOLEAN, post : Post]
        BY <1>i
      <4>2. status \in Ended /\ worker[j].post \in Post
        BY <1>i DEF Ended
      <4> QED BY <4>1, <4>2
    <3> QED BY <3>1, <3>2, <1>i DEF SocTypeOK
  <2>3. /\ worker' \in [Jobs -> [at : WorkerSteps, post : Post]]
        /\ worker'[j].at = "record" /\ worker'[j].post = worker[j].post
        /\ \A k \in Jobs \ {j} : worker'[k] = worker[k]
    BY <1>5, WorkerMoves DEF FinishJob, WorkerSteps
  <2>4. ~entangled => \A k \in Jobs \ {j} : worker[k].at = "idle"
    BY <2>1, OneWorker
  <2>5. SocInv'
    BY <2>1, <2>2, <2>3, <2>4 DEF SocInv, Worker
  <2> QED BY <2>1, <2>2, <2>3, <2>5 DEF SocTypeOK
<1>6. ASSUME NEW j \in Jobs, RecordPost(j) PROVE SocTypeOK' /\ SocInv'
  <2>1. /\ worker[j].at = "record" /\ post' = [id |-> worker[j].post, job |-> j]
        /\ UNCHANGED <<channel, editable, job, social, newest, doubled, entangled>>
    BY <1>6 DEF RecordPost
  <2>2. /\ worker' \in [Jobs -> [at : WorkerSteps, post : Post]]
        /\ worker'[j].at = "log"
        /\ \A k \in Jobs \ {j} : worker'[k] = worker[k]
    BY <1>6, WorkerMoves DEF RecordPost, WorkerSteps
  <2>3. ~entangled => \A k \in Jobs \ {j} : worker[k].at = "idle"
    BY <2>1, OneWorker
  <2>4. post' \in [id : Post, job : Post]
    BY <2>1, <1>i
  <2>5. ~entangled => Consistent'
    BY <2>1 DEF SocInv, Worker, Consistent
  <2>6. SocInv'
    BY <2>1, <2>2, <2>3, <2>5 DEF SocInv, Worker
  <2> QED BY <2>1, <2>2, <2>4, <2>6 DEF SocTypeOK
<1>7. ASSUME NEW j \in Jobs, LogPost(j) PROVE SocTypeOK' /\ SocInv'
  <2>1. /\ worker[j].at = "log"
        /\ UNCHANGED <<channel, editable, job, post, social, newest, doubled, entangled>>
    BY <1>7 DEF LogPost
  <2>2. /\ worker' \in [Jobs -> [at : WorkerSteps, post : Post]]
        /\ worker'[j].at = "idle"
        /\ \A k \in Jobs \ {j} : worker'[k] = worker[k]
    BY <1>7, WorkerMoves DEF LogPost, WorkerSteps
  <2>3. ~entangled => \A k \in Jobs \ {j} : worker[k].at = "idle"
    BY <2>1, OneWorker
  <2>4. Consistent' = Consistent
    BY <2>1 DEF Consistent
  <2>5. SocInv'
    BY <2>1, <2>2, <2>3, <2>4 DEF SocInv, Worker
  <2> QED BY <2>1, <2>2, <2>5 DEF SocTypeOK
<1>8. ASSUME NEW j \in Jobs, WorkerFails(j) \/ WorkerDies(j) PROVE SocTypeOK' /\ SocInv'
  <2>1. /\ entangled' = TRUE
        /\ UNCHANGED <<channel, editable, job, post, social, newest, doubled>>
    BY <1>8 DEF WorkerFails, WorkerDies
  <2>2. worker' \in [Jobs -> [at : WorkerSteps, post : Post]]
    BY <1>8, WorkerMoves DEF WorkerFails, WorkerDies, WorkerSteps
  <2> QED BY <2>1, <2>2 DEF SocTypeOK, SocInv
<1>9. ASSUME NEW j \in Jobs, FailJob(j) PROVE SocTypeOK' /\ SocInv'
  <2>1. /\ worker[j].at = "fail"
        /\ UNCHANGED <<channel, editable, post, social, newest, doubled, entangled>>
    BY <1>9 DEF FailJob
  <2>2. entangled
    BY <2>1 DEF SocInv, Worker
  <2>3. worker' \in [Jobs -> [at : WorkerSteps, post : Post]]
    BY <1>9, WorkerMoves DEF FailJob, WorkerSteps
  <2>4. job' \in [Jobs -> [status : Ended \cup {"none", "queued", "running"},
                           update : BOOLEAN, post : Post]]
    <3>1. job' = [job EXCEPT ![j] = [job[j] EXCEPT !.status = "failed"]]
      BY <1>9, <1>i DEF FailJob, SocTypeOK
    <3> QED BY <3>1, JobStatus DEF Ended
  <2> QED BY <2>1, <2>2, <2>3, <2>4 DEF SocTypeOK, SocInv
<1>10. CASE UNCHANGED socVars
  BY <1>10 DEF socVars, SocTypeOK, SocInv, Worker, Consistent
<1> QED
  BY <1>1, <1>2, <1>3, <1>4, <1>5, <1>6, <1>7, <1>8, <1>9, <1>10, SocRequest DEF SocNext

LEMMA SocStarts == SocInit => SocTypeOK /\ SocInv
<1> SUFFICES ASSUME SocInit PROVE SocTypeOK /\ SocInv
  OBVIOUS
<1>1. SocTypeOK
  BY DEF SocInit, SocTypeOK, WorkerSteps, SocialSteps, Post
<1>2. post.id = NoJob /\ newest = NoJob /\ ~doubled /\ \A j \in Jobs : worker[j].at = "idle"
  BY DEF SocInit
<1> QED BY <1>1, <1>2 DEF SocInv, Worker, Consistent

\* EditsKeepThePost, of any jobs and requests: workers that take turns never
\* post a posted product again for an update, and leave the record at the
\* newest post, whatever becomes of the channel meanwhile.
THEOREM EditsKeepThePostHolds == Spec => []EditsKeepThePost
<1>1. SocInit => SocTypeOK /\ SocInv
  BY SocStarts
<1>2. SocInv => EditsKeepThePost
  BY DEF SocInv, EditsKeepThePost, Consistent
<1>3. SocSpec => []EditsKeepThePost
  BY <1>1, <1>2, SocNextStep, PTL DEF SocSpec
<1> QED BY <1>3, EachService, PTL

-----------------------------------------------------------------------------
(* Support. The counter of a side and what the side has been shown come to *)
(* the messages written to it, but for posts between their two statements; *)
(* who opens the thread in peace takes what it read for what there is.     *)

SupNat ==
  /\ ticket \in BOOLEAN
  /\ unread \in [Sides -> Nat]
  /\ arrived \in [Sides -> Nat]
  /\ shown \in [Sides -> Nat]
  /\ muddled \in [Sides -> BOOLEAN]
  /\ sup \in [Requests -> [at : SupSteps, side : Sides, got : Nat]]

Counting(s) == {q \in Requests : sup[q].at = "count" /\ sup[q].side = s}
Creating(s) == {q \in Requests : sup[q].at = "first" /\ sup[q].side = s}
Showing(q, s) == sup[q].at = "show" /\ sup[q].side = s

Truthful(s) ==
  ~muddled[s] =>
    /\ \A q, r \in Requests : Opening(q, s) /\ (Opening(r, s) \/ Posting(r, s)) => q = r
    /\ \A r \in Requests : sup[r].at \in {"reset", "show"} /\ sup[r].side = s
                             => sup[r].got = arrived[s]
    /\ \A r \in Requests : Showing(r, s) => unread[s] = 0
    /\ (\A q \in Requests : ~Showing(q, s)) =>
         unread[s] + shown[s] + Cardinality(Counting(s))
           = arrived[s] + Cardinality(Creating(s))

SupInv ==
  /\ ~ticket => /\ \A r \in Requests : sup[r].at = "idle"
                /\ \A s \in Sides : unread[s] = 0 /\ arrived[s] = 0 /\ shown[s] = 0
  /\ \A r \in Requests :
       /\ sup[r].at = "first" => sup[r].side = "admin"
       /\ sup[r].at \in {"reset", "show"} => sup[r].got <= arrived[sup[r].side]
  /\ \A s \in Sides : shown[s] <= arrived[s]
  /\ \A s \in Sides : Truthful(s)

LEMMA SupBecomes ==
  ASSUME SupNat, NEW r \in Requests,
         NEW state \in [at : SupSteps, side : Sides, got : Nat],
         sup' = [sup EXCEPT ![r] = state]
  PROVE  /\ sup' \in [Requests -> [at : SupSteps, side : Sides, got : Nat]]
         /\ sup'[r] = state
         /\ \A q \in Requests \ {r} : sup'[q] = sup[q]
BY DEF SupNat

LEMMA SupMoves ==
  ASSUME SupNat, NEW r \in Requests, NEW step \in SupSteps, SupGoto(r, step)
  PROVE  /\ sup' \in [Requests -> [at : SupSteps, side : Sides, got : Nat]]
         /\ sup'[r].at = step
         /\ sup'[r].side = sup[r].side /\ sup'[r].got = sup[r].got
         /\ \A q \in Requests \ {r} : sup'[q] = sup[q]
<1>1. sup[r] \in [at : SupSteps, side : Sides, got : Nat]
  BY DEF SupNat
<1>2. [sup[r] EXCEPT !.at = step] \in [at : SupSteps, side : Sides, got : Nat]
  BY <1>1
<1> QED BY <1>1, <1>2 DEF SupNat, SupGoto

LEMMA SupIdles ==
  /\ SupIdle \in [at : SupSteps, side : Sides, got : Nat]
  /\ SupIdle.at = "idle" /\ SupIdle.side = "admin"
  /\ \A step \in SupSteps, s \in Sides :
       [SupIdle EXCEPT !.at = step, !.side = s] \in [at : SupSteps, side : Sides, got : Nat]
BY DEF SupIdle, SupSteps, Sides

LEMMA SupEnds ==
  ASSUME SupNat, NEW r \in Requests, SupEnd(r)
  PROVE  /\ sup' \in [Requests -> [at : SupSteps, side : Sides, got : Nat]]
         /\ sup'[r].at = "idle"
         /\ \A q \in Requests \ {r} : sup'[q] = sup[q]
BY SupIdles, SupBecomes DEF SupEnd

\* The requests that are counted are finitely many.
LEMMA SupCounts ==
  ASSUME NEW s
  PROVE  /\ IsFiniteSet(Counting(s)) /\ Cardinality(Counting(s)) \in Nat
         /\ IsFiniteSet(Creating(s)) /\ Cardinality(Creating(s)) \in Nat
<1>1. Counting(s) \in SUBSET Requests /\ Creating(s) \in SUBSET Requests
  BY DEF Counting, Creating
<1> QED BY <1>1, RequestsAssumption, FS_Subset, FS_CardinalityType

\* A request has no part in the other side's counter.
LEMMA Aside ==
  ASSUME NEW r \in Requests, NEW s \in Sides,
         \A q \in Requests \ {r} : sup'[q] = sup[q],
         ~Posting(r, s), ~Opening(r, s), ~Posting(r, s)', ~Opening(r, s)',
         unread'[s] = unread[s], arrived'[s] = arrived[s], shown'[s] = shown[s],
         muddled'[s] = muddled[s], Truthful(s)
  PROVE  Truthful(s)'
<1>1. Counting(s)' = Counting(s) /\ Creating(s)' = Creating(s)
  BY DEF Counting, Creating, Posting
<1>2. \A q \in Requests : /\ Opening(q, s)' <=> Opening(q, s)
                          /\ Posting(q, s)' <=> Posting(q, s)
                          /\ Showing(q, s)' <=> Showing(q, s)
  BY DEF Opening, Posting, Showing
<1>3. \A q \in Requests : sup'[q].at \in {"reset", "show"} /\ sup'[q].side = s
                            => sup'[q] = sup[q]
  BY DEF Opening
<1> QED BY <1>1, <1>2, <1>3 DEF Truthful

LEMMA SupNextStep == SupNat /\ SupInv /\ [SupNext]_supVars => SupNat' /\ SupInv'
<1> SUFFICES ASSUME SupNat, SupInv, [SupNext]_supVars PROVE SupNat' /\ SupInv'
  OBVIOUS
<1>i. /\ \A s \in Sides : unread[s] \in Nat /\ arrived[s] \in Nat /\ shown[s] \in Nat
      /\ \A r \in Requests : sup[r].side \in Sides /\ sup[r].got \in Nat
      /\ "admin" \in Sides
  BY DEF SupNat, Sides
<1>1. ASSUME NEW r \in Requests, CreateTicket(r) PROVE SupNat' /\ SupInv'
  <2>1. /\ ~ticket /\ ticket' = TRUE /\ UNCHANGED <<arrived, shown, muddled>>
        /\ unread' = [unread EXCEPT !["admin"] = 1]
        /\ sup' = [sup EXCEPT ![r] = [SupIdle EXCEPT !.at = "first"]]
    BY <1>1 DEF CreateTicket
  <2>2. /\ \A q \in Requests : sup[q].at = "idle"
        /\ \A s \in Sides : unread[s] = 0 /\ arrived[s] = 0 /\ shown[s] = 0
    BY <2>1 DEF SupInv
  <2>3. /\ sup' \in [Requests -> [at : SupSteps, side : Sides, got : Nat]]
        /\ sup'[r].at = "first" /\ sup'[r].side = "admin"
        /\ \A q \in Requests \ {r} : sup'[q] = sup[q]
    <3>1. [SupIdle EXCEPT !.at = "first"] \in [at : SupSteps, side : Sides, got : Nat]
      BY DEF SupIdle, SupSteps, Sides
    <3> QED BY <2>1, <3>1, SupBecomes DEF SupIdle
  <2>4. unread' \in [Sides -> Nat] /\ unread'["admin"] = 1
        /\ \A s \in Sides : s # "admin" => unread'[s] = unread[s]
    BY <2>1, <1>i DEF SupNat
  <2>5. \A s \in Sides : Counting(s)' = {} /\ Creating(s)' = IF s = "admin" THEN {r} ELSE {}
    BY <2>2, <2>3 DEF Counting, Creating
  <2>6. \A s \in Sides : /\ Cardinality(Counting(s)') = 0
                         /\ Cardinality(Creating(s)') = IF s = "admin" THEN 1 ELSE 0
    BY <2>5, FS_EmptySet, FS_Singleton
  <2>7. ASSUME NEW s \in Sides PROVE Truthful(s)'
    <3>1. \A q \in Requests : ~Opening(q, s)' /\ ~Showing(q, s)'
                              /\ sup'[q].at \notin {"reset", "show"}
      BY <2>2, <2>3 DEF Opening, Showing
    <3>2. unread'[s] + shown'[s] + Cardinality(Counting(s)')
            = arrived'[s] + Cardinality(Creating(s)')
      BY <2>1, <2>2, <2>4, <2>6
    <3> QED BY <3>1, <3>2 DEF Truthful
  <2>8. SupNat'
    BY <2>1, <2>3, <2>4 DEF SupNat
  <2> QED BY <2>1, <2>2, <2>3, <2>7, <2>8 DEF SupInv
<1>2. ASSUME NEW r \in Requests, FirstMessage(r) PROVE SupNat' /\ SupInv'
  <2>1. /\ sup[r].at = "first" /\ UNCHANGED <<ticket, unread, shown, muddled>>
        /\ arrived' = [arrived EXCEPT !["admin"] = @ + 1]
    BY <1>2 DEF FirstMessage
  <2>2. /\ sup' \in [Requests -> [at : SupSteps, side : Sides, got : Nat]]
        /\ sup'[r].at = "idle"
        /\ \A q \in Requests \ {r} : sup'[q] = sup[q]
    BY <1>2, SupEnds DEF FirstMessage
  <2>3. /\ arrived' \in [Sides -> Nat] /\ arrived'["admin"] = arrived["admin"] + 1
        /\ \A s \in Sides : s # "admin" => arrived'[s] = arrived[s]
    BY <2>1, <1>i DEF SupNat
  <2>4. sup[r].side = "admin" /\ ticket
    BY <2>1 DEF SupInv
  <2>5. ASSUME NEW s \in Sides, s # "admin" PROVE Truthful(s)'
    BY <2>1, <2>2, <2>3, <2>4, <2>5, Aside DEF SupInv, Posting, Opening
  <2>6. Truthful("admin")'
    <3> DEFINE s == "admin"
    <3>1. SUFFICES ASSUME ~muddled[s] PROVE Truthful(s)'
      BY <2>1 DEF Truthful
    <3>2. \A q \in Requests : ~Opening(q, s)
      <4>1. Posting(r, s) /\ ~Opening(r, s)
        BY <2>1, <2>4 DEF Posting, Opening
      <4>2. Truthful(s)
        BY <1>i DEF SupInv
      <4> QED BY <3>1, <4>1, <4>2 DEF Truthful
    <3>3. \A q \in Requests : ~Opening(q, s)'
      BY <2>2, <3>2 DEF Opening
    <3>4. Counting(s)' = Counting(s) /\ Creating(s)' = Creating(s) \ {r} /\ r \in Creating(s)
      BY <2>1, <2>2, <2>4 DEF Counting, Creating
    <3>5. Cardinality(Creating(s)') = Cardinality(Creating(s)) - 1
      BY <3>4, SupCounts, FS_RemoveElement
    <3>6. unread[s] + shown[s] + Cardinality(Counting(s))
            = arrived[s] + Cardinality(Creating(s))
      BY <3>1, <3>2, <1>i DEF SupInv, Truthful, Opening, Showing
    <3>7. unread'[s] + shown'[s] + Cardinality(Counting(s)')
            = arrived'[s] + Cardinality(Creating(s)')
      BY <2>1, <2>3, <3>4, <3>5, <3>6, SupCounts, <1>i
    <3> QED BY <3>3, <3>7 DEF Truthful, Opening, Showing
  <2>7. SupNat'
    BY <2>1, <2>2, <2>3 DEF SupNat
  <2>8. \A s \in Sides : arrived[s] <= arrived'[s]
    BY <2>3, <1>i
  <2>9. \A q \in Requests : /\ sup'[q].at = "first" => sup'[q].side = "admin"
                            /\ sup'[q].at \in {"reset", "show"} => sup'[q].got <= arrived'[sup'[q].side]
    BY <2>2, <2>3, <2>8, <1>i DEF SupInv
  <2>10. \A s \in Sides : shown'[s] <= arrived'[s]
    BY <2>1, <2>3, <2>8, <1>i DEF SupInv
  <2> QED BY <2>1, <2>4, <2>5, <2>6, <2>7, <2>9, <2>10 DEF SupInv
<1>3. ASSUME NEW r \in Requests, NEW s \in Sides, AddMessage(r, s) PROVE SupNat' /\ SupInv'
  <2>1. /\ ticket /\ sup[r].at = "idle" /\ UNCHANGED <<ticket, unread, arrived, shown>>
        /\ sup' = [sup EXCEPT ![r] = [SupIdle EXCEPT !.at = "insert", !.side = s]]
        /\ muddled' = [muddled EXCEPT ![s] = @ \/ \E q \in Requests : Opening(q, s)]
    BY <1>3 DEF AddMessage
  <2>2. /\ sup' \in [Requests -> [at : SupSteps, side : Sides, got : Nat]]
        /\ sup'[r].at = "insert" /\ sup'[r].side = s
        /\ \A q \in Requests \ {r} : sup'[q] = sup[q]
    <3>1. "insert" \in SupSteps
      BY DEF SupSteps
    <3> QED BY <2>1, <3>1, SupIdles, SupBecomes DEF SupIdle
  <2>3. /\ muddled' \in [Sides -> BOOLEAN]
        /\ muddled'[s] = (muddled[s] \/ \E q \in Requests : Opening(q, s))
        /\ \A t \in Sides : t # s => muddled'[t] = muddled[t]
    BY <2>1 DEF SupNat
  <2>4. ASSUME NEW t \in Sides, t # s PROVE Truthful(t)'
    BY <2>1, <2>2, <2>3, <2>4, Aside DEF SupInv, Posting, Opening
  <2>5. Truthful(s)'
    <3>1. SUFFICES ASSUME ~muddled[s], \A q \in Requests : ~Opening(q, s) PROVE Truthful(s)'
      BY <2>3 DEF Truthful
    <3>2. \A q \in Requests : ~Opening(q, s)'
      BY <2>2, <3>1 DEF Opening
    <3>3. Counting(s)' = Counting(s) /\ Creating(s)' = Creating(s)
      BY <2>1, <2>2 DEF Counting, Creating
    <3> QED BY <2>1, <3>1, <3>2, <3>3 DEF SupInv, Truthful, Opening, Showing
  <2>6. \A q \in Requests : /\ sup'[q].at = "first" => sup'[q].side = "admin"
                            /\ sup'[q].at \in {"reset", "show"} => sup'[q].got <= arrived'[sup'[q].side]
    BY <2>1, <2>2 DEF SupInv
  <2>7. SupNat'
    BY <2>1, <2>2, <2>3 DEF SupNat
  <2> QED BY <2>1, <2>4, <2>5, <2>6, <2>7 DEF SupInv
<1>4. ASSUME NEW r \in Requests, InsertMessage(r) PROVE SupNat' /\ SupInv'
  <2>0. PICK s \in Sides : sup[r].side = s
    BY <1>i
  <2>1. /\ sup[r].at = "insert" /\ UNCHANGED <<ticket, unread, shown, muddled>>
        /\ arrived' = [arrived EXCEPT ![s] = @ + 1]
    BY <1>4, <2>0 DEF InsertMessage
  <2>2. /\ sup' \in [Requests -> [at : SupSteps, side : Sides, got : Nat]]
        /\ sup'[r].at = "count" /\ sup'[r].side = s
        /\ \A q \in Requests \ {r} : sup'[q] = sup[q]
    BY <1>4, <2>0, SupMoves DEF InsertMessage, SupSteps
  <2>3. /\ arrived' \in [Sides -> Nat] /\ arrived'[s] = arrived[s] + 1
        /\ \A t \in Sides : t # s => arrived'[t] = arrived[t]
    BY <2>1, <1>i DEF SupNat
  <2>4. ticket
    BY <2>1 DEF SupInv
  <2>5. ASSUME NEW t \in Sides, t # s PROVE Truthful(t)'
    BY <2>0, <2>1, <2>2, <2>3, <2>5, Aside DEF SupInv, Posting, Opening
  <2>6. Truthful(s)'
    <3>1. SUFFICES ASSUME ~muddled[s] PROVE Truthful(s)'
      BY <2>1 DEF Truthful
    <3>2. \A q \in Requests : ~Opening(q, s)
      <4>1. Posting(r, s) /\ ~Opening(r, s)
        BY <2>0, <2>1 DEF Posting, Opening
      <4> QED BY <3>1, <4>1 DEF SupInv, Truthful
    <3>3. \A q \in Requests : ~Opening(q, s)'
      BY <2>2, <3>2 DEF Opening
    <3>4. Counting(s)' = Counting(s) \cup {r} /\ r \notin Counting(s) /\ Creating(s)' = Creating(s)
      BY <2>1, <2>2 DEF Counting, Creating
    <3>5. Cardinality(Counting(s)') = Cardinality(Counting(s)) + 1
      BY <3>4, SupCounts, FS_AddElement
    <3>6. unread[s] + shown[s] + Cardinality(Counting(s))
            = arrived[s] + Cardinality(Creating(s))
      BY <3>1, <3>2 DEF SupInv, Truthful, Opening, Showing
    <3>7. unread'[s] + shown'[s] + Cardinality(Counting(s)')
            = arrived'[s] + Cardinality(Creating(s)')
      BY <2>1, <2>3, <3>4, <3>5, <3>6, SupCounts, <1>i
    <3> QED BY <3>3, <3>7 DEF Truthful, Opening, Showing
  <2>7. SupNat'
    BY <2>1, <2>2, <2>3 DEF SupNat
  <2>8. \A t \in Sides : arrived[t] <= arrived'[t]
    BY <2>3, <1>i
  <2>9. \A q \in Requests : /\ sup'[q].at = "first" => sup'[q].side = "admin"
                            /\ sup'[q].at \in {"reset", "show"} => sup'[q].got <= arrived'[sup'[q].side]
    BY <2>2, <2>3, <2>8, <1>i DEF SupInv
  <2>10. \A t \in Sides : shown'[t] <= arrived'[t]
    BY <2>1, <2>3, <2>8, <1>i DEF SupInv
  <2> QED BY <2>1, <2>4, <2>5, <2>6, <2>7, <2>9, <2>10 DEF SupInv
<1>5. ASSUME NEW r \in Requests, CountMessage(r) PROVE SupNat' /\ SupInv'
  <2>0. PICK s \in Sides : sup[r].side = s
    BY <1>i
  <2>1. /\ sup[r].at = "count" /\ UNCHANGED <<ticket, arrived, shown, muddled>>
        /\ unread' = [unread EXCEPT ![s] = @ + 1]
    BY <1>5, <2>0 DEF CountMessage
  <2>2. /\ sup' \in [Requests -> [at : SupSteps, side : Sides, got : Nat]]
        /\ sup'[r].at = "idle"
        /\ \A q \in Requests \ {r} : sup'[q] = sup[q]
    BY <1>5, SupEnds DEF CountMessage
  <2>3. /\ unread' \in [Sides -> Nat] /\ unread'[s] = unread[s] + 1
        /\ \A t \in Sides : t # s => unread'[t] = unread[t]
    BY <2>1, <1>i DEF SupNat
  <2>4. ticket
    BY <2>1 DEF SupInv
  <2>5. ASSUME NEW t \in Sides, t # s PROVE Truthful(t)'
    BY <2>0, <2>1, <2>2, <2>3, <2>5, Aside DEF SupInv, Posting, Opening
  <2>6. Truthful(s)'
    <3>1. SUFFICES ASSUME ~muddled[s] PROVE Truthful(s)'
      BY <2>1 DEF Truthful
    <3>2. \A q \in Requests : ~Opening(q, s)
      <4>1. Posting(r, s) /\ ~Opening(r, s)
        BY <2>0, <2>1 DEF Posting, Opening
      <4> QED BY <3>1, <4>1 DEF SupInv, Truthful
    <3>3. \A q \in Requests : ~Opening(q, s)'
      BY <2>2, <3>2 DEF Opening
    <3>4. Counting(s)' = Counting(s) \ {r} /\ r \in Counting(s) /\ Creating(s)' = Creating(s)
      BY <2>0, <2>1, <2>2 DEF Counting, Creating
    <3>5. Cardinality(Counting(s)') = Cardinality(Counting(s)) - 1
      BY <3>4, SupCounts, FS_RemoveElement
    <3>6. unread[s] + shown[s] + Cardinality(Counting(s))
            = arrived[s] + Cardinality(Creating(s))
      BY <3>1, <3>2 DEF SupInv, Truthful, Opening, Showing
    <3>7. unread'[s] + shown'[s] + Cardinality(Counting(s)')
            = arrived'[s] + Cardinality(Creating(s)')
      BY <2>1, <2>3, <3>4, <3>5, <3>6, SupCounts, <1>i
    <3> QED BY <3>3, <3>7 DEF Truthful, Opening, Showing
  <2>7. SupNat'
    BY <2>1, <2>2, <2>3 DEF SupNat
  <2>8. \A q \in Requests : /\ sup'[q].at = "first" => sup'[q].side = "admin"
                            /\ sup'[q].at \in {"reset", "show"} => sup'[q].got <= arrived'[sup'[q].side]
    BY <2>1, <2>2 DEF SupInv
  <2> QED BY <2>1, <2>4, <2>5, <2>6, <2>7, <2>8 DEF SupInv
<1>6. ASSUME NEW r \in Requests, NEW s \in Sides, OpenThread(r, s) PROVE SupNat' /\ SupInv'
  <2>1. /\ ticket /\ sup[r].at = "idle" /\ UNCHANGED <<ticket, unread, arrived, shown>>
        /\ sup' = [sup EXCEPT ![r] = [SupIdle EXCEPT !.at = "messages", !.side = s]]
        /\ muddled' = [muddled EXCEPT ![s] = @ \/ On(s) # {}]
    BY <1>6 DEF OpenThread
  <2>2. /\ sup' \in [Requests -> [at : SupSteps, side : Sides, got : Nat]]
        /\ sup'[r].at = "messages" /\ sup'[r].side = s
        /\ \A q \in Requests \ {r} : sup'[q] = sup[q]
    <3>1. "messages" \in SupSteps
      BY DEF SupSteps
    <3> QED BY <2>1, <3>1, SupIdles, SupBecomes DEF SupIdle
  <2>3. /\ muddled' \in [Sides -> BOOLEAN]
        /\ muddled'[s] = (muddled[s] \/ On(s) # {})
        /\ \A t \in Sides : t # s => muddled'[t] = muddled[t]
    BY <2>1 DEF SupNat
  <2>4. ASSUME NEW t \in Sides, t # s PROVE Truthful(t)'
    BY <2>1, <2>2, <2>3, <2>4, Aside DEF SupInv, Posting, Opening
  <2>5. Truthful(s)'
    <3>1. SUFFICES ASSUME ~muddled[s], \A q \in Requests : ~Opening(q, s) /\ ~Posting(q, s)
                   PROVE  Truthful(s)'
      BY <2>3 DEF Truthful, On
    <3>2. \A q \in Requests : /\ q # r => ~Opening(q, s)' /\ ~Posting(q, s)'
                              /\ ~Showing(q, s)'
                              /\ ~(sup'[q].at \in {"reset", "show"} /\ sup'[q].side = s)
      BY <2>2, <3>1 DEF Opening, Posting, Showing
    <3>3. Counting(s)' = Counting(s) /\ Creating(s)' = Creating(s)
      BY <2>1, <2>2 DEF Counting, Creating
    <3>4. unread[s] + shown[s] + Cardinality(Counting(s))
            = arrived[s] + Cardinality(Creating(s))
      BY <3>1 DEF SupInv, Truthful, Opening, Showing
    <3> QED BY <2>1, <3>2, <3>3, <3>4 DEF Truthful
  <2>6. \A q \in Requests : /\ sup'[q].at = "first" => sup'[q].side = "admin"
                            /\ sup'[q].at \in {"reset", "show"} => sup'[q].got <= arrived'[sup'[q].side]
    BY <2>1, <2>2 DEF SupInv
  <2>7. SupNat'
    BY <2>1, <2>2, <2>3 DEF SupNat
  <2> QED BY <2>1, <2>4, <2>5, <2>6, <2>7 DEF SupInv
<1>7. ASSUME NEW r \in Requests, GetMessages(r) PROVE SupNat' /\ SupInv'
  <2>0. PICK s \in Sides : sup[r].side = s
    BY <1>i
  <2>1. /\ sup[r].at = "messages" /\ UNCHANGED <<ticket, unread, arrived, shown, muddled>>
        /\ sup' = [sup EXCEPT ![r] = [sup[r] EXCEPT !.at = "reset", !.got = arrived[s]]]
    BY <1>7, <2>0 DEF GetMessages, SupNat
  <2>2. /\ sup' \in [Requests -> [at : SupSteps, side : Sides, got : Nat]]
        /\ sup'[r].at = "reset" /\ sup'[r].side = s /\ sup'[r].got = arrived[s]
        /\ \A q \in Requests \ {r} : sup'[q] = sup[q]
    <3>1. sup[r] \in [at : SupSteps, side : Sides, got : Nat]
      BY DEF SupNat
    <3>2. [sup[r] EXCEPT !.at = "reset", !.got = arrived[s]]
            \in [at : SupSteps, side : Sides, got : Nat]
      BY <3>1, <1>i DEF SupSteps
    <3> QED BY <2>0, <2>1, <3>1, <3>2, SupBecomes
  <2>3. ticket
    BY <2>1 DEF SupInv
  <2>4. ASSUME NEW t \in Sides, t # s PROVE Truthful(t)'
    BY <2>0, <2>1, <2>2, <2>4, Aside DEF SupInv, Posting, Opening
  <2>5. Truthful(s)'
    <3>1. SUFFICES ASSUME ~muddled[s] PROVE Truthful(s)'
      BY <2>1 DEF Truthful
    <3>2. \A q \in Requests : q # r => ~Opening(q, s) /\ ~Posting(q, s)
      <4>1. Opening(r, s)
        BY <2>0, <2>1 DEF Opening
      <4> QED BY <3>1, <4>1 DEF SupInv, Truthful
    <3>3. \A q \in Requests : /\ q # r => ~Opening(q, s)' /\ ~Posting(q, s)'
                              /\ ~Showing(q, s)'
                              /\ ~Showing(q, s)
      BY <2>1, <2>2, <3>2 DEF Opening, Posting, Showing
    <3>4. Counting(s)' = Counting(s) /\ Creating(s)' = Creating(s)
      BY <2>1, <2>2 DEF Counting, Creating
    <3>5. unread[s] + shown[s] + Cardinality(Counting(s))
            = arrived[s] + Cardinality(Creating(s))
      BY <3>1, <3>3 DEF SupInv, Truthful
    <3>6. \A q \in Requests : sup'[q].at \in {"reset", "show"} /\ sup'[q].side = s => q = r
      BY <3>3 DEF Opening
    <3> QED BY <2>1, <2>2, <3>3, <3>4, <3>5, <3>6 DEF Truthful
  <2>6. \A q \in Requests : /\ sup'[q].at = "first" => sup'[q].side = "admin"
                            /\ sup'[q].at \in {"reset", "show"} => sup'[q].got <= arrived'[sup'[q].side]
    BY <2>1, <2>2, <1>i DEF SupInv
  <2>7. SupNat'
    BY <2>1, <2>2 DEF SupNat
  <2> QED BY <2>1, <2>3, <2>4, <2>5, <2>6, <2>7 DEF SupInv
<1>8. ASSUME NEW r \in Requests, MarkRead(r) PROVE SupNat' /\ SupInv'
  <2>0. PICK s \in Sides : sup[r].side = s
    BY <1>i
  <2>1. /\ sup[r].at = "reset" /\ UNCHANGED <<ticket, arrived, shown, muddled>>
        /\ unread' = [unread EXCEPT ![s] = 0]
    BY <1>8, <2>0 DEF MarkRead
  <2>2. /\ sup' \in [Requests -> [at : SupSteps, side : Sides, got : Nat]]
        /\ sup'[r].at = "show" /\ sup'[r].side = s /\ sup'[r].got = sup[r].got
        /\ \A q \in Requests \ {r} : sup'[q] = sup[q]
    BY <1>8, <2>0, SupMoves DEF MarkRead, SupSteps
  <2>3. /\ unread' \in [Sides -> Nat] /\ unread'[s] = 0
        /\ \A t \in Sides : t # s => unread'[t] = unread[t]
    BY <2>1 DEF SupNat
  <2>4. ticket
    BY <2>1 DEF SupInv
  <2>5. ASSUME NEW t \in Sides, t # s PROVE Truthful(t)'
    BY <2>0, <2>1, <2>2, <2>3, <2>5, Aside DEF SupInv, Posting, Opening
  <2>6. Truthful(s)'
    <3>1. SUFFICES ASSUME ~muddled[s] PROVE Truthful(s)'
      BY <2>1 DEF Truthful
    <3>2. \A q \in Requests : q # r => ~Opening(q, s) /\ ~Posting(q, s)
      <4>1. Opening(r, s)
        BY <2>0, <2>1 DEF Opening
      <4> QED BY <3>1, <4>1 DEF SupInv, Truthful
    <3>3. \A q \in Requests : q # r => ~Opening(q, s)' /\ ~Posting(q, s)'
      BY <2>2, <3>2 DEF Opening, Posting
    <3>4. sup'[r].got = arrived[s]
      BY <2>0, <2>1, <2>2, <3>1 DEF SupInv, Truthful
    <3>5. Showing(r, s)'
      BY <2>2 DEF Showing
    <3>6. \A q \in Requests : sup'[q].at \in {"reset", "show"} /\ sup'[q].side = s => q = r
      BY <3>3 DEF Opening
    <3> QED BY <2>1, <2>3, <3>3, <3>4, <3>5, <3>6 DEF Truthful
  <2>7. \A q \in Requests : /\ sup'[q].at = "first" => sup'[q].side = "admin"
                            /\ sup'[q].at \in {"reset", "show"} => sup'[q].got <= arrived'[sup'[q].side]
    BY <2>0, <2>1, <2>2 DEF SupInv
  <2>8. SupNat'
    BY <2>1, <2>2, <2>3 DEF SupNat
  <2> QED BY <2>1, <2>4, <2>5, <2>6, <2>7, <2>8 DEF SupInv
<1>9. ASSUME NEW r \in Requests, ShowThread(r) PROVE SupNat' /\ SupInv'
  <2>0. PICK s \in Sides : sup[r].side = s
    BY <1>i
  <2>1. /\ sup[r].at = "show" /\ UNCHANGED <<ticket, unread, arrived>>
        /\ shown' = [shown EXCEPT ![s] = IF sup[r].got > shown[s] THEN sup[r].got ELSE shown[s]]
        /\ muddled' = [muddled EXCEPT ![s] =
                         muddled[s] /\ ~(On(s) = {r} /\ unread[s] = 0 /\ sup[r].got = arrived[s])]
    BY <1>9, <2>0 DEF ShowThread, SupNat
  <2>2. /\ sup' \in [Requests -> [at : SupSteps, side : Sides, got : Nat]]
        /\ sup'[r].at = "idle"
        /\ \A q \in Requests \ {r} : sup'[q] = sup[q]
    BY <1>9, SupEnds DEF ShowThread
  <2>3. /\ shown' \in [Sides -> Nat]
        /\ shown'[s] = IF sup[r].got > shown[s] THEN sup[r].got ELSE shown[s]
        /\ \A t \in Sides : t # s => shown'[t] = shown[t]
    BY <2>1, <1>i DEF SupNat
  <2>4. /\ muddled' \in [Sides -> BOOLEAN]
        /\ ~muddled'[s] => \/ ~muddled[s]
                           \/ On(s) = {r} /\ unread[s] = 0 /\ sup[r].got = arrived[s]
        /\ \A t \in Sides : t # s => muddled'[t] = muddled[t]
    BY <2>1 DEF SupNat
  <2>5. ticket
    BY <2>1 DEF SupInv
  <2>6. sup[r].got <= arrived[s] /\ shown[s] <= arrived[s]
    BY <2>0, <2>1 DEF SupInv
  <2>7. ASSUME NEW t \in Sides, t # s PROVE Truthful(t)'
    BY <2>0, <2>1, <2>2, <2>3, <2>4, <2>7, Aside DEF SupInv, Posting, Opening
  <2>8. Truthful(s)'
    <3>1. SUFFICES ASSUME ~muddled'[s] PROVE Truthful(s)'
      BY DEF Truthful
    <3>2. /\ \A q \in Requests : q # r => ~Opening(q, s) /\ ~Posting(q, s)
          /\ unread[s] = 0 /\ sup[r].got = arrived[s]
      <4>1. CASE ~muddled[s]
        <5>1. Opening(r, s) /\ Showing(r, s)
          BY <2>0, <2>1 DEF Opening, Showing
        <5> QED BY <2>0, <2>1, <4>1, <5>1 DEF SupInv, Truthful
      <4>2. CASE On(s) = {r} /\ unread[s] = 0 /\ sup[r].got = arrived[s]
        BY <4>2 DEF On
      <4> QED BY <2>4, <3>1, <4>1, <4>2
    <3>3. \A q \in Requests : ~Opening(q, s)' /\ ~Posting(q, s)'
      BY <2>2, <3>2 DEF Opening, Posting
    <3>4. Counting(s)' = {} /\ Creating(s)' = {}
      BY <3>3 DEF Counting, Creating, Posting
    <3>5. Cardinality(Counting(s)') = 0 /\ Cardinality(Creating(s)') = 0
      BY <3>4, FS_EmptySet
    <3>6. shown'[s] = arrived[s]
      BY <2>3, <2>6, <3>2, <1>i
    <3>7. unread'[s] + shown'[s] + Cardinality(Counting(s)')
            = arrived'[s] + Cardinality(Creating(s)')
      BY <2>1, <3>2, <3>5, <3>6, <1>i
    <3> QED BY <3>3, <3>7 DEF Truthful, Opening, Showing
  <2>9. \A t \in Sides : shown'[t] <= arrived'[t]
    BY <2>1, <2>3, <2>6, <1>i DEF SupInv
  <2>10. \A q \in Requests : /\ sup'[q].at = "first" => sup'[q].side = "admin"
                             /\ sup'[q].at \in {"reset", "show"} => sup'[q].got <= arrived'[sup'[q].side]
    BY <2>1, <2>2 DEF SupInv
  <2>11. SupNat'
    BY <2>1, <2>2, <2>3, <2>4 DEF SupNat
  <2> QED BY <2>1, <2>5, <2>7, <2>8, <2>9, <2>10, <2>11 DEF SupInv
<1>10. ASSUME NEW r \in Requests, SupAbandon(r) PROVE SupNat' /\ SupInv'
  <2>0. PICK s \in Sides : sup[r].side = s
    BY <1>i
  <2>1. /\ sup[r].at # "idle" /\ UNCHANGED <<ticket, unread, arrived, shown>>
        /\ muddled' = [muddled EXCEPT ![s] = TRUE]
    BY <1>10, <2>0 DEF SupAbandon
  <2>2. /\ sup' \in [Requests -> [at : SupSteps, side : Sides, got : Nat]]
        /\ sup'[r].at = "idle"
        /\ \A q \in Requests \ {r} : sup'[q] = sup[q]
    BY <1>10, SupEnds DEF SupAbandon
  <2>3. /\ muddled' \in [Sides -> BOOLEAN] /\ muddled'[s]
        /\ \A t \in Sides : t # s => muddled'[t] = muddled[t]
    BY <2>1 DEF SupNat
  <2>4. ticket
    BY <2>1 DEF SupInv
  <2>5. ASSUME NEW t \in Sides, t # s PROVE Truthful(t)'
    BY <2>0, <2>1, <2>2, <2>3, <2>5, Aside DEF SupInv, Posting, Opening
  <2>6. Truthful(s)'
    BY <2>3 DEF Truthful
  <2>7. \A q \in Requests : /\ sup'[q].at = "first" => sup'[q].side = "admin"
                            /\ sup'[q].at \in {"reset", "show"} => sup'[q].got <= arrived'[sup'[q].side]
    BY <2>1, <2>2 DEF SupInv
  <2>8. SupNat'
    BY <2>1, <2>2, <2>3 DEF SupNat
  <2> QED BY <2>1, <2>4, <2>5, <2>6, <2>7, <2>8 DEF SupInv
<1>11. CASE UNCHANGED supVars
  <2>1. \A s \in Sides : Truthful(s)' = Truthful(s)
    BY <1>11 DEF supVars, Truthful, Counting, Creating, Opening, Posting, Showing
  <2> QED BY <1>11, <2>1 DEF supVars, SupNat, SupInv
<1> QED
  BY <1>1, <1>2, <1>3, <1>4, <1>5, <1>6, <1>7, <1>8, <1>9, <1>10, <1>11 DEF SupNext

LEMMA SupStarts == SupInit => SupNat /\ SupInv
<1> SUFFICES ASSUME SupInit PROVE SupNat /\ SupInv
  OBVIOUS
<1>1. SupNat
  BY SupIdles DEF SupInit, SupNat
<1>2. /\ \A r \in Requests : sup[r].at = "idle"
      /\ \A s \in Sides : unread[s] = 0 /\ arrived[s] = 0 /\ shown[s] = 0
  BY SupIdles DEF SupInit
<1>3. ASSUME NEW s \in Sides PROVE Truthful(s)
  <2>1. Counting(s) = {} /\ Creating(s) = {}
    BY <1>2 DEF Counting, Creating
  <2>2. Cardinality(Counting(s)) = 0 /\ Cardinality(Creating(s)) = 0
    BY <2>1, FS_EmptySet
  <2> QED BY <1>2, <2>2 DEF Truthful, Opening, Posting, Showing
<1> QED BY <1>1, <1>2, <1>3 DEF SupInv

\* UnreadIsTruthful, of any messages and openings: unless a post and an
\* opening overlapped, a side's counter is the number of messages it has not
\* been shown.
THEOREM UnreadIsTruthfulHolds == Spec => []UnreadIsTruthful
<1>1. SupInit => SupNat /\ SupInv
  BY SupStarts
<1>2. SupNat /\ SupInv => UnreadIsTruthful
  <2> SUFFICES ASSUME SupNat, SupInv, NEW s \in Sides, On(s) = {}, ~muddled[s]
               PROVE  unread[s] + shown[s] = arrived[s]
    BY DEF UnreadIsTruthful
  <2>1. \A q \in Requests : ~Posting(q, s) /\ ~Opening(q, s)
    BY DEF On
  <2>2. Counting(s) = {} /\ Creating(s) = {} /\ \A q \in Requests : ~Showing(q, s)
    BY <2>1 DEF Counting, Creating, Posting, Opening, Showing
  <2>3. Cardinality(Counting(s)) = 0 /\ Cardinality(Creating(s)) = 0
    BY <2>2, FS_EmptySet
  <2>4. unread[s] + shown[s] + Cardinality(Counting(s)) = arrived[s] + Cardinality(Creating(s))
    BY <2>2 DEF SupInv, Truthful
  <2>5. unread[s] \in Nat /\ shown[s] \in Nat /\ arrived[s] \in Nat
    BY DEF SupNat
  <2> QED BY <2>3, <2>4, <2>5
<1>3. SupSpec => []UnreadIsTruthful
  BY <1>1, <1>2, SupNextStep, PTL DEF SupSpec
<1> QED BY <1>3, EachService, PTL

\* Messages on the way have room kept for them.
Arriving(s) == {q \in Requests : sup[q].at \in {"first", "insert"} /\ sup[q].side = s}
SupRoom ==
  /\ \A r \in Requests : sup[r].got <= MaxMessages
  /\ \A s \in Sides : arrived[s] + Cardinality(Arriving(s)) <= MaxMessages

LEMMA ArrivingCounts ==
  ASSUME NEW s
  PROVE  IsFiniteSet(Arriving(s)) /\ Cardinality(Arriving(s)) \in Nat
<1>1. Arriving(s) \in SUBSET Requests
  BY DEF Arriving
<1> QED BY <1>1, RequestsAssumption, FS_Subset, FS_CardinalityType

\* No message comes, and nobody new is on the way.
LEMMA RoomIsKept ==
  ASSUME SupRoom, arrived' = arrived, SupNat,
         \A s \in Sides : Arriving(s)' \subseteq Arriving(s),
         \A q \in Requests : sup'[q].got <= MaxMessages
  PROVE  SupRoom'
<1>1. ASSUME NEW s \in Sides
      PROVE  arrived'[s] + Cardinality(Arriving(s)') <= MaxMessages
  <2>1. IsFiniteSet(Arriving(s)') /\ Cardinality(Arriving(s)') <= Cardinality(Arriving(s))
    BY ArrivingCounts, FS_Subset
  <2>2. /\ Cardinality(Arriving(s)') \in Nat /\ Cardinality(Arriving(s)) \in Nat
        /\ arrived[s] \in Nat /\ MaxMessages \in Nat
    BY <2>1, ArrivingCounts, FS_CardinalityType, SupportAssumption DEF SupNat
  <2>3. arrived[s] + Cardinality(Arriving(s)) <= MaxMessages
    BY DEF SupRoom
  <2> QED BY <2>1, <2>2, <2>3
<1> QED BY <1>1 DEF SupRoom

\* A message that comes leaves the ones on the way.
LEMMA RoomIsTaken ==
  ASSUME SupNat, SupRoom, NEW r \in Requests,
         FirstMessage(r) \/ InsertMessage(r), sup[r].side \in Sides,
         arrived' = [arrived EXCEPT ![sup[r].side] = @ + 1],
         sup'[r].at \notin {"first", "insert"}, sup'[r].got <= MaxMessages,
         \A q \in Requests \ {r} : sup'[q] = sup[q]
  PROVE  SupRoom'
<1>1. sup[r].at \in {"first", "insert"}
  BY DEF FirstMessage, InsertMessage
<1>2. ASSUME NEW s \in Sides
      PROVE  arrived'[s] + Cardinality(Arriving(s)') <= MaxMessages
  <2>1. Arriving(s)' = Arriving(s) \ {r}
    BY DEF Arriving
  <2>2. r \in Arriving(s) <=> s = sup[r].side
    BY <1>1 DEF Arriving
  <2>3. Cardinality(Arriving(s) \ {r})
          = IF r \in Arriving(s) THEN Cardinality(Arriving(s)) - 1 ELSE Cardinality(Arriving(s))
    BY ArrivingCounts, FS_RemoveElement
  <2>4. arrived'[s] = IF s = sup[r].side THEN arrived[s] + 1 ELSE arrived[s]
    BY DEF SupNat
  <2>5. arrived[s] + Cardinality(Arriving(s)) <= MaxMessages
    BY DEF SupRoom
  <2>6. arrived[s] \in Nat /\ Cardinality(Arriving(s)) \in Nat /\ MaxMessages \in Nat
    BY ArrivingCounts, SupportAssumption DEF SupNat
  <2>7. Cardinality(Arriving(s)') = Cardinality(Arriving(s) \ {r})
    BY <2>1
  <2> QED BY <2>2, <2>3, <2>4, <2>5, <2>6, <2>7
<1>3. \A q \in Requests : sup'[q].got <= MaxMessages
  BY DEF SupRoom
<1> QED BY <1>2, <1>3 DEF SupRoom

LEMMA SupRoomStep == SupNat /\ SupInv /\ SupRoom /\ [SupNext]_supVars => SupRoom'
<1> SUFFICES ASSUME SupNat, SupInv, SupRoom, [SupNext]_supVars PROVE SupRoom'
  OBVIOUS
<1>i. /\ SupIdle \in [at : SupSteps, side : Sides, got : Nat] /\ SupIdle.at = "idle"
      /\ SupIdle.got = 0
  BY SupIdles DEF SupIdle
<1>t. /\ \A q \in Requests : sup[q] \in [at : SupSteps, side : Sides, got : Nat]
      /\ SupIdle \in [at : SupSteps, side : Sides, got : Nat]
      /\ MaxMessages \in Nat /\ SupIdle.got <= MaxMessages /\ SupIdle.at = "idle"
  BY <1>i, SupportAssumption DEF SupNat
<1>e. \A s \in Sides : arrived[s] \in Nat /\ arrived[s] <= MaxMessages
  BY <1>t, ArrivingCounts DEF SupNat, SupRoom
\* The requests that post nothing from here on.
<1>1. ASSUME NEW r \in Requests, NEW state \in [at : SupSteps, side : Sides, got : Nat],
             sup' = [sup EXCEPT ![r] = state], arrived' = arrived,
             state.at \notin {"first", "insert"}, state.got <= MaxMessages
      PROVE  SupRoom'
  <2>1. sup'[r] = state /\ \A q \in Requests \ {r} : sup'[q] = sup[q]
    BY <1>1 DEF SupNat
  <2>2. \A s \in Sides : Arriving(s)' \subseteq Arriving(s)
    BY <1>1, <2>1 DEF Arriving
  <2>3. \A q \in Requests : sup'[q].got <= MaxMessages
    BY <1>1, <2>1 DEF SupRoom
  <2> QED BY <1>1, <2>2, <2>3, RoomIsKept
<1>2. ASSUME NEW r \in Requests, CountMessage(r) \/ ShowThread(r) \/ SupAbandon(r)
      PROVE  SupRoom'
  <2>1. sup' = [sup EXCEPT ![r] = SupIdle] /\ arrived' = arrived
    BY <1>2 DEF CountMessage, ShowThread, SupAbandon, SupEnd
  <2> QED BY <1>1, <1>t, <2>1
<1>3. ASSUME NEW r \in Requests, MarkRead(r) PROVE SupRoom'
  <2>1. sup' = [sup EXCEPT ![r] = [sup[r] EXCEPT !.at = "show"]] /\ arrived' = arrived
    BY <1>3 DEF MarkRead, SupGoto, SupNat
  <2>2. [sup[r] EXCEPT !.at = "show"] \in [at : SupSteps, side : Sides, got : Nat]
    BY <1>t DEF SupSteps
  <2>3. [sup[r] EXCEPT !.at = "show"].got = sup[r].got /\ [sup[r] EXCEPT !.at = "show"].at = "show"
    BY <1>t
  <2> QED BY <1>1, <2>1, <2>2, <2>3 DEF SupRoom
<1>4. ASSUME NEW r \in Requests, GetMessages(r) PROVE SupRoom'
  <2> DEFINE state == [sup[r] EXCEPT !.at = "reset", !.got = arrived[sup[r].side]]
  <2>1. sup' = [sup EXCEPT ![r] = state] /\ arrived' = arrived
    BY <1>4 DEF GetMessages, SupNat
  <2>2. sup[r].side \in Sides
    BY <1>t
  <2>3. /\ state \in [at : SupSteps, side : Sides, got : Nat]
        /\ state.at = "reset" /\ state.got = arrived[sup[r].side]
    BY <1>t, <1>e, <2>2 DEF SupSteps
  <2> HIDE DEF state
  <2> QED BY <1>1, <1>e, <2>1, <2>2, <2>3
<1>5. ASSUME NEW r \in Requests, NEW s \in Sides, OpenThread(r, s) PROVE SupRoom'
  <2> DEFINE state == [SupIdle EXCEPT !.at = "messages", !.side = s]
  <2>1. sup' = [sup EXCEPT ![r] = state] /\ arrived' = arrived
    BY <1>5 DEF OpenThread
  <2>2. /\ state \in [at : SupSteps, side : Sides, got : Nat]
        /\ state.at = "messages" /\ state.got = SupIdle.got
    BY DEF SupIdle, SupSteps
  <2> HIDE DEF state
  <2> QED BY <1>1, <1>t, <2>1, <2>2
<1>6. ASSUME NEW r \in Requests, FirstMessage(r) PROVE SupRoom'
  <2>1. /\ sup[r].at = "first" /\ sup' = [sup EXCEPT ![r] = SupIdle]
        /\ arrived' = [arrived EXCEPT !["admin"] = @ + 1]
    BY <1>6 DEF FirstMessage, SupEnd
  <2>2. sup[r].side = "admin"
    BY <2>1 DEF SupInv
  <2>3. /\ sup'[r].at \notin {"first", "insert"} /\ sup'[r].got <= MaxMessages
        /\ \A q \in Requests \ {r} : sup'[q] = sup[q]
    BY <1>t, <2>1 DEF SupNat
  <2>4. /\ sup[r].side \in Sides
        /\ arrived' = [arrived EXCEPT ![sup[r].side] = @ + 1]
    BY <2>1, <2>2 DEF Sides
  <2> QED BY <1>6, <2>3, <2>4, RoomIsTaken
<1>7. ASSUME NEW r \in Requests, InsertMessage(r) PROVE SupRoom'
  <2>1. /\ sup' = [sup EXCEPT ![r] = [sup[r] EXCEPT !.at = "count"]]
        /\ arrived' = [arrived EXCEPT ![sup[r].side] = @ + 1]
    BY <1>7 DEF InsertMessage, SupGoto, SupNat
  <2>2. /\ sup'[r].at = "count" /\ sup'[r].got = sup[r].got
        /\ \A q \in Requests \ {r} : sup'[q] = sup[q]
    BY <1>t, <2>1 DEF SupNat
  <2>3. sup[r].got <= MaxMessages
    BY DEF SupRoom
  <2> QED BY <1>7, <1>t, <2>1, <2>2, <2>3, RoomIsTaken
<1>8. ASSUME NEW r \in Requests, CreateTicket(r) PROVE SupRoom'
  <2>1. /\ ~ticket /\ MaxMessages > 0 /\ arrived' = arrived
        /\ sup' = [sup EXCEPT ![r] = [SupIdle EXCEPT !.at = "first"]]
    BY <1>8 DEF CreateTicket
  <2>2. /\ \A q \in Requests : sup[q].at = "idle"
        /\ \A s \in Sides : arrived[s] = 0
    BY <2>1 DEF SupInv
  <2>3. sup'[r].got = 0 /\ \A q \in Requests \ {r} : sup'[q] = sup[q]
    BY <2>1 DEF SupIdle, SupNat
  <2>4. ASSUME NEW s \in Sides PROVE arrived'[s] + Cardinality(Arriving(s)') <= MaxMessages
    <3>1. Arriving(s)' \subseteq {r}
      BY <2>2, <2>3 DEF Arriving
    <3>2. IsFiniteSet({r}) /\ Cardinality({r}) = 1
      BY FS_Singleton
    <3>3. IsFiniteSet(Arriving(s)') /\ Cardinality(Arriving(s)') <= 1
      BY <3>1, <3>2, FS_Subset
    <3>4. Cardinality(Arriving(s)') \in Nat
      BY <3>3, FS_CardinalityType
    <3> QED BY <1>t, <2>1, <2>2, <3>3, <3>4
  <2>5. \A q \in Requests : sup'[q].got <= MaxMessages
    BY <1>t, <2>3 DEF SupRoom
  <2> QED BY <2>4, <2>5 DEF SupRoom
<1>9. ASSUME NEW r \in Requests, NEW s \in Sides, AddMessage(r, s) PROVE SupRoom'
  <2> DEFINE First == {q \in Requests : sup[q].at = "first"}
             Second == {q \in Requests : sup[q].at = "insert" /\ sup[q].side = s}
  <2>1. /\ arrived' = arrived
        /\ arrived[s] + Cardinality(Second) + Cardinality(First) < MaxMessages
        /\ sup' = [sup EXCEPT ![r] = [SupIdle EXCEPT !.at = "insert", !.side = s]]
    BY <1>9 DEF AddMessage, Posted
  <2>2. /\ sup'[r].at = "insert" /\ sup'[r].side = s /\ sup'[r].got = 0
        /\ \A q \in Requests \ {r} : sup'[q] = sup[q]
    BY <2>1 DEF SupIdle, SupNat
  <2>3. IsFiniteSet(Second) /\ IsFiniteSet(First)
    BY RequestsAssumption, FS_Subset
  <2>4. Cardinality(Arriving(s)) <= Cardinality(Second) + Cardinality(First)
    <3>1. Arriving(s) \subseteq Second \cup First
      BY DEF Arriving
    <3> HIDE DEF First, Second
    <3> QED BY <2>3, <3>1, WithinTwo
  <2>5. Cardinality(Second) \in Nat /\ Cardinality(First) \in Nat
    BY <2>3, FS_CardinalityType
  <2>6. arrived'[s] + Cardinality(Arriving(s)') <= MaxMessages
    <3>1. Arriving(s)' \subseteq Arriving(s) \cup {r}
      BY <2>2 DEF Arriving
    <3>2. IsFiniteSet({r}) /\ Cardinality({r}) = 1
      BY FS_Singleton
    <3>3. /\ Cardinality(Arriving(s)') \in Nat
          /\ Cardinality(Arriving(s)') <= Cardinality(Arriving(s)) + Cardinality({r})
      BY <3>1, <3>2, ArrivingCounts, WithinTwo
    <3> HIDE DEF First, Second
    <3> QED BY <1>t, <1>e, <2>1, <2>4, <2>5, <3>2, <3>3, ArrivingCounts
  <2>7. ASSUME NEW z \in Sides, z # s
        PROVE  arrived'[z] + Cardinality(Arriving(z)') <= MaxMessages
    <3>1. r \notin Arriving(z)' /\ \A q \in Requests \ {r} : q \in Arriving(z)' <=> q \in Arriving(z)
      BY <2>2, <2>7 DEF Arriving
    <3>2. Arriving(z)' \subseteq Arriving(z)
      BY <3>1 DEF Arriving
    <3>3. IsFiniteSet(Arriving(z)') /\ Cardinality(Arriving(z)') <= Cardinality(Arriving(z))
      BY <3>2, ArrivingCounts, FS_Subset
    <3>4. Cardinality(Arriving(z)') \in Nat
      BY <3>3, FS_CardinalityType
    <3>5. arrived[z] + Cardinality(Arriving(z)) <= MaxMessages
      BY DEF SupRoom
    <3> QED BY <1>t, <1>e, <2>1, <3>3, <3>4, <3>5, ArrivingCounts
  <2>8. \A q \in Requests : sup'[q].got <= MaxMessages
    BY <1>t, <2>2 DEF SupRoom
  <2> QED BY <2>6, <2>7, <2>8 DEF SupRoom
<1>10. CASE UNCHANGED supVars
  BY <1>10 DEF supVars, SupRoom, Arriving
<1> QED
  BY <1>2, <1>3, <1>4, <1>5, <1>6, <1>7, <1>8, <1>9, <1>10 DEF SupNext

LEMMA SupTypes == SupSpec => []SupTypeOK
<1>1. SupInit => SupRoom
  <2> SUFFICES ASSUME SupInit PROVE SupRoom
    OBVIOUS
  <2>1. \A r \in Requests : sup[r].got = 0 /\ sup[r].at = "idle"
    BY DEF SupInit, SupIdle
  <2>2. ASSUME NEW s \in Sides PROVE arrived[s] = 0 /\ Cardinality(Arriving(s)) = 0
    <3>1. Arriving(s) = {}
      BY <2>1 DEF Arriving
    <3> QED BY <3>1, FS_EmptySet DEF SupInit
  <2> QED BY <2>1, <2>2, SupportAssumption DEF SupRoom
<1>2. SupNat /\ SupInv /\ SupRoom => SupTypeOK
  <2> SUFFICES ASSUME SupNat, SupInv, SupRoom PROVE SupTypeOK
    OBVIOUS
  <2>1. \A s \in Sides : arrived[s] \in 0 .. MaxMessages /\ shown[s] \in 0 .. MaxMessages
    BY ArrivingCounts, SupportAssumption DEF SupNat, SupInv, SupRoom
  <2>2. \A r \in Requests : sup[r].got \in 0 .. MaxMessages
    BY SupportAssumption DEF SupNat, SupRoom
  <2>3. \A r \in Requests : sup[r] \in SupHandler
    BY <2>2 DEF SupNat, SupHandler
  <2> QED BY <2>1, <2>3 DEF SupNat, SupTypeOK
<1> QED BY <1>1, <1>2, SupStarts, SupNextStep, SupRoomStep, PTL DEF SupSpec

-----------------------------------------------------------------------------
(* Payout. What is claimed, with what a request is about to claim, is      *)
(* within what was earned; a payment moves commissions, it earns none.     *)

Earned == {c \in Commissions : commission[c] \in {"approved", "paid"}}
ClaimUnits ==
  {x \in {o \in PayoutIds : payout[o].status \in Claiming} \X (Amounts \ {0}) :
     x[2] <= payout[x[1]].amount}

PayInv ==
  ~contended /\ ~revived =>
    /\ \A q, r \in Requests : pay[q].at = "insert" /\ pay[r].at = "insert" => q = r
    /\ Cardinality(ClaimUnits) <= Cardinality(Earned)
    /\ \A r \in Requests : pay[r].at = "insert" =>
         Cardinality(ClaimUnits) + pay[r].amount <= Cardinality(Earned)

LEMMA AmountsFinite == IsFiniteSet(Amounts) /\ Amounts \subseteq Nat /\ 0 \in Amounts
<1>1. Cardinality(Commissions) \in Nat
  BY PayoutAssumption, FS_CardinalityType
<1> QED BY <1>1, FS_Interval DEF Amounts

LEMMA PayCounts ==
  /\ IsFiniteSet(Earned) /\ Cardinality(Earned) \in Nat
  /\ IsFiniteSet(ClaimUnits) /\ Cardinality(ClaimUnits) \in Nat
<1>1. IsFiniteSet(PayoutIds \X Amounts)
  BY AmountsFinite, PayoutAssumption, FS_Product
<1>2. ClaimUnits \in SUBSET (PayoutIds \X Amounts) /\ Earned \in SUBSET Commissions
  BY DEF ClaimUnits, Earned
<1> QED BY <1>1, <1>2, PayoutAssumption, FS_Subset, FS_CardinalityType

\* What the property speaks of.
LEMMA EarnedIsSum ==
  OfStatus("approved") + OfStatus("paid") = Cardinality(Earned)
<1> DEFINE A == {c \in Commissions : commission[c] = "approved"}
           P == {c \in Commissions : commission[c] = "paid"}
<1>1. A \in SUBSET Commissions /\ P \in SUBSET Commissions
  OBVIOUS
<1>2. IsFiniteSet(A) /\ IsFiniteSet(P)
  BY <1>1, PayoutAssumption, FS_Subset
<1>3. A \cap P = {} /\ A \cup P = Earned
  BY DEF Earned
<1>4. Cardinality(A \cup P) = Cardinality(A) + Cardinality(P) - Cardinality(A \cap P)
  BY <1>2, FS_Union
<1>5. Cardinality(A \cap P) = 0
  BY <1>3, FS_EmptySet
<1>6. Cardinality(A) \in Nat /\ Cardinality(P) \in Nat
  BY <1>2, FS_CardinalityType
<1>7. Cardinality(A \cup P) = Cardinality(A) + Cardinality(P)
  <2> HIDE DEF A, P
  <2> QED BY <1>4, <1>5, <1>6
<1>8. Cardinality(Earned) = Cardinality(A \cup P)
  BY <1>3
<1>9. OfStatus("approved") = Cardinality(A) /\ OfStatus("paid") = Cardinality(P)
  BY DEF OfStatus
<1> HIDE DEF A, P
<1> QED BY <1>7, <1>8, <1>9

LEMMA ClaimsAreUnits == Claims = Cardinality(ClaimUnits)
BY DEF Claims, Amount, ClaimUnits

LEMMA PayBecomes ==
  ASSUME PayTypeOK, NEW r \in Requests, NEW state \in PayHandler,
         pay' = [pay EXCEPT ![r] = state]
  PROVE  /\ pay' \in [Requests -> PayHandler]
         /\ pay'[r] = state
         /\ \A q \in Requests \ {r} : pay'[q] = pay[q]
BY DEF PayTypeOK

LEMMA PayIdles ==
  /\ PayIdle \in PayHandler /\ PayIdle.at = "idle"
  /\ [PayIdle EXCEPT !.at = "settle"] \in PayHandler
  /\ [PayIdle EXCEPT !.at = "settle"].at = "settle"
  /\ [PayIdle EXCEPT !.at = "idle"] \in PayHandler
  /\ [PayIdle EXCEPT !.at = "idle"].at = "idle"
BY AmountsFinite DEF PayIdle, PayHandler

\* Claims only go, earnings only come, and nobody begins to claim.
LEMMA PayShrinks ==
  ASSUME PayTypeOK, PayInv, contended \/ revived => contended' \/ revived',
         ClaimUnits' \subseteq ClaimUnits, Earned \subseteq Earned',
         \A q \in Requests : pay'[q].at = "insert" => pay'[q] = pay[q]
  PROVE  PayInv'
<1>1. /\ Cardinality(ClaimUnits') \in Nat
      /\ Cardinality(ClaimUnits') <= Cardinality(ClaimUnits)
  BY PayCounts, FS_Subset, FS_CardinalityType
<1>2. Earned' \in SUBSET Commissions
  BY DEF Earned
<1>3. Cardinality(Earned') \in Nat /\ Cardinality(Earned) <= Cardinality(Earned')
  BY <1>2, PayCounts, PayoutAssumption, FS_Subset, FS_CardinalityType
<1>4. \A q \in Requests : pay[q].amount \in Nat
  BY AmountsFinite DEF PayTypeOK, PayHandler
<1> QED BY <1>1, <1>3, <1>4, PayCounts DEF PayInv

\* What a request finds it may claim was earned and is not claimed.
LEMMA BalanceIsWithinEarned ==
  ASSUME NEW amount \in Amounts, amount > 0, amount <= AvailableBalance
  PROVE  Cardinality(ClaimUnits) + amount <= Cardinality(Earned)
<1>1. {c \in Commissions : commission[c] = "approved"} \in SUBSET Earned
  BY DEF Earned
<1>2. OfStatus("approved") <= Cardinality(Earned) /\ OfStatus("approved") \in Nat
  BY <1>1, PayCounts, FS_Subset, FS_CardinalityType DEF OfStatus
<1>3. amount \in Nat
  BY AmountsFinite
<1> QED BY <1>2, <1>3, ClaimsAreUnits, PayCounts DEF AvailableBalance

\* A column of units.
LEMMA Units ==
  ASSUME NEW x, NEW n \in Nat
  PROVE  IsFiniteSet({x} \X (1 .. n)) /\ Cardinality({x} \X (1 .. n)) = n
<1>1. IsFiniteSet({x}) /\ Cardinality({x}) = 1
  BY FS_Singleton
<1>2. IsFiniteSet(1 .. n) /\ Cardinality(1 .. n) = n
  BY FS_Interval
<1>3. /\ IsFiniteSet({x} \X (1 .. n))
      /\ Cardinality({x} \X (1 .. n)) = Cardinality({x}) * Cardinality(1 .. n)
  BY <1>1, <1>2, FS_Product
<1> QED BY <1>1, <1>2, <1>3

\* A payout claims what its request has asked for.
LEMMA InsertionClaims ==
  ASSUME PayTypeOK, NEW r \in Requests, NEW o \in PayoutIds, InsertPayout(r, o)
  PROVE  /\ Cardinality(ClaimUnits') \in Nat
         /\ Cardinality(ClaimUnits') <= Cardinality(ClaimUnits) + pay[r].amount
<1>1. PICK amount \in Amounts : pay[r].amount = amount
  BY DEF PayTypeOK, PayHandler
<1>2. payout' = [payout EXCEPT ![o] = [status |-> "requested", amount |-> amount]]
  BY <1>1 DEF InsertPayout
<1>3. /\ payout'[o].status = "requested" /\ payout'[o].amount = amount
      /\ \A p \in PayoutIds \ {o} : payout'[p] = payout[p]
  BY <1>2 DEF PayTypeOK
<1>4. amount \in Nat /\ amount <= Cardinality(Commissions) /\ Cardinality(Commissions) \in Nat
  BY PayoutAssumption, FS_CardinalityType DEF Amounts
<1>5. ASSUME NEW p \in PayoutIds, NEW n \in Amounts \ {0},
             payout'[p].status \in Claiming, n <= payout'[p].amount
      PROVE  <<p, n>> \in ClaimUnits \cup ({o} \X (1 .. amount))
  <2>1. CASE p = o
    <3>1. n \in 1 .. amount
      BY <1>3, <1>4, <1>5, <2>1 DEF Amounts
    <3> QED BY <2>1, <3>1
  <2>2. CASE p # o
    BY <1>3, <1>5, <2>2 DEF ClaimUnits
  <2> QED BY <2>1, <2>2
<1>6. ASSUME NEW x \in ClaimUnits'
      PROVE  x \in ClaimUnits \cup ({o} \X (1 .. amount))
  <2>1. PICK p \in PayoutIds, n \in Amounts \ {0} :
          x = <<p, n>> /\ payout'[p].status \in Claiming /\ n <= payout'[p].amount
    BY <1>6 DEF ClaimUnits
  <2> QED BY <1>5, <2>1
<1>7. ClaimUnits' \subseteq ClaimUnits \cup ({o} \X (1 .. amount))
  BY <1>6
<1>8. IsFiniteSet({o} \X (1 .. amount)) /\ Cardinality({o} \X (1 .. amount)) = amount
  BY <1>4, Units
<1>9. /\ Cardinality(ClaimUnits') \in Nat
      /\ Cardinality(ClaimUnits') <= Cardinality(ClaimUnits) + Cardinality({o} \X (1 .. amount))
  BY <1>7, <1>8, PayCounts, WithinTwo
<1> QED BY <1>1, <1>8, <1>9

\* An administrator adds no claim, unless it takes up a rejected payout.
LEMMA DecisionClaims ==
  ASSUME PayTypeOK, NEW r \in Requests, NEW o \in PayoutIds,
         NEW status \in {"approved", "rejected", "paid"}, DecidePayout(r, o, status),
         payout[o].status = "rejected" => status = "rejected"
  PROVE  ClaimUnits' \subseteq ClaimUnits
<1>1. payout[o].status # "none" /\ payout' = [payout EXCEPT ![o].status = status]
  BY DEF DecidePayout
<1>2. /\ payout'[o].status = status /\ payout'[o].amount = payout[o].amount
      /\ \A p \in PayoutIds \ {o} : payout'[p] = payout[p]
  BY <1>1 DEF PayTypeOK
<1>3. payout'[o].status \in Claiming => payout[o].status \in Claiming
  BY <1>1, <1>2 DEF Claiming, PayTypeOK
<1>4. ASSUME NEW x \in ClaimUnits' PROVE x \in ClaimUnits
  <2>1. PICK p \in PayoutIds, n \in Amounts \ {0} :
          x = <<p, n>> /\ payout'[p].status \in Claiming /\ n <= payout'[p].amount
    BY <1>4 DEF ClaimUnits
  <2>2. payout[p].status \in Claiming /\ n <= payout[p].amount
    BY <1>2, <1>3, <2>1
  <2> QED BY <2>1, <2>2 DEF ClaimUnits
<1> QED BY <1>4

LEMMA PayNextStep == PayTypeOK /\ PayInv /\ [PayNext]_payVars => PayTypeOK' /\ PayInv'
<1> SUFFICES ASSUME PayTypeOK, PayInv, [PayNext]_payVars PROVE PayTypeOK' /\ PayInv'
  OBVIOUS
<1>i. /\ \A r \in Requests : pay[r] \in PayHandler /\ pay[r].amount \in Amounts
      /\ \A o \in PayoutIds : payout[o].amount \in Amounts
  BY DEF PayTypeOK, PayHandler
<1>1. ASSUME NEW c \in Commissions, Earn(c) \/ Approve(c) PROVE PayTypeOK' /\ PayInv'
  <2>1. /\ UNCHANGED <<payout, pay, decisions, contended, revived>>
        /\ \/ commission[c] = "none" /\ commission' = [commission EXCEPT ![c] = "pending"]
           \/ commission[c] = "pending" /\ commission' = [commission EXCEPT ![c] = "approved"]
    BY <1>1 DEF Earn, Approve
  <2>2. commission' \in [Commissions -> {"none", "pending", "approved", "paid"}]
    BY <2>1 DEF PayTypeOK
  <2>3. Earned \subseteq Earned'
    BY <2>1 DEF Earned, PayTypeOK
  <2>4. ClaimUnits' = ClaimUnits
    BY <2>1 DEF ClaimUnits
  <2> QED BY <2>1, <2>2, <2>3, <2>4, PayShrinks DEF PayTypeOK
<1>2. ASSUME NEW r \in Requests, NEW amount \in Amounts, AskPayout(r, amount)
      PROVE  PayTypeOK' /\ PayInv'
  <2>1. /\ amount > 0 /\ amount <= AvailableBalance
        /\ pay' = [pay EXCEPT ![r] = [at |-> "insert", amount |-> amount]]
        /\ contended' = (contended \/ \E q \in Requests : pay[q].at = "insert")
        /\ UNCHANGED <<commission, payout, decisions, revived>>
    BY <1>2 DEF AskPayout
  <2>2. /\ pay' \in [Requests -> PayHandler]
        /\ pay'[r].at = "insert" /\ pay'[r].amount = amount
        /\ \A q \in Requests \ {r} : pay'[q] = pay[q]
    <3>1. [at |-> "insert", amount |-> amount] \in PayHandler
      BY DEF PayHandler
    <3> QED BY <2>1, <3>1, PayBecomes
  <2>3. ClaimUnits' = ClaimUnits /\ Earned' = Earned
    BY <2>1 DEF ClaimUnits, Earned
  <2>6. Cardinality(ClaimUnits) + amount <= Cardinality(Earned)
    BY <2>1, BalanceIsWithinEarned
  <2>7. ~contended' => ~contended /\ \A q \in Requests : pay[q].at # "insert"
    BY <2>1
  <2>8. PayInv'
    BY <2>1, <2>2, <2>3, <2>6, <2>7 DEF PayInv
  <2>9. contended' \in BOOLEAN
    BY <2>1 DEF PayTypeOK
  <2> QED BY <2>1, <2>2, <2>8, <2>9 DEF PayTypeOK
<1>3. ASSUME NEW r \in Requests, NEW o \in PayoutIds, InsertPayout(r, o)
      PROVE  PayTypeOK' /\ PayInv'
  <2>0. PICK amount \in Amounts : pay[r].amount = amount
    BY <1>i
  <2>1. /\ pay[r].at = "insert" /\ payout[o].status = "none"
        /\ payout' = [payout EXCEPT ![o] = [status |-> "requested", amount |-> amount]]
        /\ pay' = [pay EXCEPT ![r] = PayIdle]
        /\ UNCHANGED <<commission, decisions, contended, revived>>
    BY <1>3, <2>0 DEF InsertPayout
  <2>2. /\ pay' \in [Requests -> PayHandler]
        /\ pay'[r].at = "idle"
        /\ \A q \in Requests \ {r} : pay'[q] = pay[q]
    BY <2>1, PayIdles, PayBecomes
  <2>3. /\ payout' \in [PayoutIds -> [status : Claiming \cup {"none", "rejected"}, amount : Amounts]]
        /\ payout'[o].status = "requested" /\ payout'[o].amount = amount
        /\ \A p \in PayoutIds \ {o} : payout'[p] = payout[p]
    <3>1. [status |-> "requested", amount |-> amount]
            \in [status : Claiming \cup {"none", "rejected"}, amount : Amounts]
      BY DEF Claiming
    <3> QED BY <2>1, <3>1 DEF PayTypeOK
  <2>4. amount \in Nat
    BY AmountsFinite
  <2>9. Cardinality(ClaimUnits') \in Nat /\ Cardinality(ClaimUnits') <= Cardinality(ClaimUnits) + amount
    BY <1>3, <2>0, InsertionClaims
  <2>10. Earned' = Earned
    BY <2>1 DEF Earned
  <2>11. PayInv'
    <3>1. SUFFICES ASSUME ~contended, ~revived PROVE PayInv'
      BY <2>1 DEF PayInv
    <3>2. \A q \in Requests : pay'[q].at # "insert"
      BY <2>1, <2>2, <3>1 DEF PayInv
    <3>3. Cardinality(ClaimUnits) + amount <= Cardinality(Earned)
      BY <2>0, <2>1, <3>1 DEF PayInv
    <3>4. Cardinality(ClaimUnits') <= Cardinality(Earned')
      BY <2>4, <2>9, <2>10, <3>3, PayCounts
    <3> QED BY <3>2, <3>4 DEF PayInv
  <2> QED BY <2>1, <2>2, <2>3, <2>11 DEF PayTypeOK
<1>4. ASSUME NEW r \in Requests, NEW o \in PayoutIds,
             NEW status \in {"approved", "rejected", "paid"}, DecidePayout(r, o, status)
      PROVE  PayTypeOK' /\ PayInv'
  <2>1. /\ payout[o].status # "none"
        /\ payout' = [payout EXCEPT ![o].status = status]
        /\ revived' = (revived \/ (payout[o].status = "rejected" /\ status # "rejected"))
        /\ UNCHANGED <<commission, contended>>
    BY <1>4 DEF DecidePayout
  <2>2. decisions' \in 0 .. MaxDecisions
    BY <1>4, PayoutAssumption DEF DecidePayout, PayTypeOK
  <2>3. /\ pay' \in [Requests -> PayHandler]
        /\ pay'[r].at # "insert"
        /\ \A q \in Requests \ {r} : pay'[q] = pay[q]
    <3>1. CASE status = "paid"
      <4>1. pay' = [pay EXCEPT ![r] = [PayIdle EXCEPT !.at = "settle"]]
        BY <1>4, <3>1 DEF DecidePayout
      <4> QED BY <4>1, PayIdles, PayBecomes
    <3>2. CASE status # "paid"
      <4>1. pay' = [pay EXCEPT ![r] = [PayIdle EXCEPT !.at = "idle"]]
        BY <1>4, <3>2 DEF DecidePayout
      <4> QED BY <4>1, PayIdles, PayBecomes
    <3> QED BY <3>1, <3>2
  <2>4. /\ payout' \in [PayoutIds -> [status : Claiming \cup {"none", "rejected"}, amount : Amounts]]
        /\ payout'[o].status = status /\ payout'[o].amount = payout[o].amount
        /\ \A p \in PayoutIds \ {o} : payout'[p] = payout[p]
    <3>1. payout' = [payout EXCEPT ![o] = [payout[o] EXCEPT !.status = status]]
      BY <2>1 DEF PayTypeOK
    <3>2. payout[o] \in [status : Claiming \cup {"none", "rejected"}, amount : Amounts]
      BY DEF PayTypeOK
    <3>3. [payout[o] EXCEPT !.status = status]
            \in [status : Claiming \cup {"none", "rejected"}, amount : Amounts]
      BY <3>2 DEF Claiming
    <3> QED BY <3>1, <3>2, <3>3 DEF PayTypeOK
  <2>5. Earned' = Earned
    BY <2>1 DEF Earned
  <2>6. contended' \in BOOLEAN /\ revived' \in BOOLEAN /\ (revived => revived')
    BY <2>1 DEF PayTypeOK
  <2>7. PayInv'
    <3>1. CASE revived'
      BY <3>1 DEF PayInv
    <3>2. CASE ~revived'
      <4>2. ClaimUnits' \subseteq ClaimUnits
        BY <1>4, <2>1, <3>2, DecisionClaims
      <4> QED BY <2>1, <2>3, <2>5, <2>6, <4>2, PayShrinks
    <3> QED BY <3>1, <3>2
  <2>8. commission' = commission
    BY <2>1
  <2> QED BY <2>2, <2>3, <2>4, <2>6, <2>7, <2>8 DEF PayTypeOK
<1>5. ASSUME NEW r \in Requests, SettleCommissions(r) PROVE PayTypeOK' /\ PayInv'
  <2>1. /\ UNCHANGED <<payout, decisions, contended, revived>>
        /\ commission' = [c \in Commissions |->
                            IF commission[c] = "approved" THEN "paid" ELSE commission[c]]
        /\ pay' = [pay EXCEPT ![r] = PayIdle]
    BY <1>5 DEF SettleCommissions
  <2>2. /\ pay' \in [Requests -> PayHandler]
        /\ pay'[r].at = "idle"
        /\ \A q \in Requests \ {r} : pay'[q] = pay[q]
    BY <2>1, PayIdles, PayBecomes
  <2>3. commission' \in [Commissions -> {"none", "pending", "approved", "paid"}]
    BY <2>1 DEF PayTypeOK
  <2>4. Earned' = Earned
    BY <2>1 DEF Earned
  <2>5. ClaimUnits' = ClaimUnits
    BY <2>1 DEF ClaimUnits
  <2>6. PayInv'
    BY <2>1, <2>2, <2>4, <2>5, PayShrinks
  <2> QED BY <2>1, <2>2, <2>3, <2>6 DEF PayTypeOK
<1>6. ASSUME NEW r \in Requests, PayAbandon(r) PROVE PayTypeOK' /\ PayInv'
  <2>1. UNCHANGED <<commission, payout, decisions, contended, revived>>
        /\ pay' = [pay EXCEPT ![r] = PayIdle]
    BY <1>6 DEF PayAbandon
  <2>2. /\ pay' \in [Requests -> PayHandler]
        /\ pay'[r].at = "idle"
        /\ \A q \in Requests \ {r} : pay'[q] = pay[q]
    BY <2>1, PayIdles, PayBecomes
  <2>3. Earned' = Earned /\ ClaimUnits' = ClaimUnits
    BY <2>1 DEF Earned, ClaimUnits
  <2>4. PayInv'
    BY <2>1, <2>2, <2>3, PayShrinks
  <2> QED BY <2>1, <2>2, <2>4 DEF PayTypeOK
<1>7. CASE UNCHANGED payVars
  <2>1. UNCHANGED <<commission, payout, pay, decisions, contended, revived>>
    BY <1>7 DEF payVars
  <2>2. Earned' = Earned /\ ClaimUnits' = ClaimUnits
    BY <2>1 DEF Earned, ClaimUnits
  <2> QED BY <2>1, <2>2, PayShrinks DEF PayTypeOK
<1> QED
  BY <1>1, <1>2, <1>3, <1>4, <1>5, <1>6, <1>7 DEF PayNext

LEMMA PayStarts == PayInit => PayTypeOK /\ PayInv
<1> SUFFICES ASSUME PayInit PROVE PayTypeOK /\ PayInv
  OBVIOUS
<1>1. PayTypeOK
  <2>1. 0 \in 0 .. MaxDecisions
    BY PayoutAssumption
  <2>2. payout \in [PayoutIds -> [status : Claiming \cup {"none", "rejected"}, amount : Amounts]]
    BY AmountsFinite DEF PayInit
  <2> QED BY <2>1, <2>2, PayIdles DEF PayInit, PayTypeOK
<1>2. ClaimUnits = {}
  BY DEF PayInit, ClaimUnits, Claiming
<1>3. Cardinality(ClaimUnits) = 0
  BY <1>2, FS_EmptySet
<1>4. \A r \in Requests : pay[r].at = "idle"
  BY PayIdles DEF PayInit
<1> QED BY <1>1, <1>3, <1>4, PayCounts DEF PayInv

\* How far requests that overlap may overdraw: each claims what was earned, at
\* most, so that claims and what is about to be claimed stay within as many
\* times what was earned as there are requests in flight.
PendingUnits ==
  {x \in Requests \X (Amounts \ {0}) : pay[x[1]].at = "insert" /\ x[2] <= pay[x[1]].amount}
OverdrawInv ==
  /\ \A r \in Requests : pay[r].at = "insert" => pay[r].amount <= Cardinality(Earned)
  /\ Cardinality(ClaimUnits) + Cardinality(PendingUnits)
       <= Cardinality(Requests) * Cardinality(Earned)

LEMMA PendingFinite == IsFiniteSet(PendingUnits) /\ Cardinality(PendingUnits) \in Nat
<1>1. IsFiniteSet(Requests \X Amounts)
  BY AmountsFinite, RequestsAssumption, FS_Product
<1>2. PendingUnits \in SUBSET (Requests \X Amounts)
  BY DEF PendingUnits
<1> QED BY <1>1, <1>2, FS_Subset, FS_CardinalityType

\* Claims and requests that only go, earnings that only come.
LEMMA OverdrawShrinks ==
  ASSUME PayTypeOK, OverdrawInv,
         ClaimUnits' \subseteq ClaimUnits, Earned \subseteq Earned',
         \A q \in Requests : pay'[q].at = "insert" => pay'[q] = pay[q]
  PROVE  OverdrawInv'
<1>1. PendingUnits' \subseteq PendingUnits
  <2>1. ASSUME NEW x \in PendingUnits' PROVE x \in PendingUnits
    <3>1. PICK q \in Requests, n \in Amounts \ {0} :
            x = <<q, n>> /\ pay'[q].at = "insert" /\ n <= pay'[q].amount
      BY <2>1 DEF PendingUnits
    <3> QED BY <3>1 DEF PendingUnits
  <2> QED BY <2>1
<1>2. /\ Cardinality(ClaimUnits') \in Nat
      /\ Cardinality(ClaimUnits') <= Cardinality(ClaimUnits)
  BY PayCounts, FS_Subset, FS_CardinalityType
<1>3. /\ Cardinality(PendingUnits') \in Nat
      /\ Cardinality(PendingUnits') <= Cardinality(PendingUnits)
  BY <1>1, PendingFinite, FS_Subset, FS_CardinalityType
<1>4. Earned' \in SUBSET Commissions
  BY DEF Earned
<1>5. Cardinality(Earned') \in Nat /\ Cardinality(Earned) <= Cardinality(Earned')
  BY <1>4, PayCounts, PayoutAssumption, FS_Subset, FS_CardinalityType
<1>6. Cardinality(Requests) \in Nat
  BY RequestsAssumption, FS_CardinalityType
<1>7. \A n, e, f \in Nat : e <= f => n * e <= n * f /\ n * e \in Nat /\ n * f \in Nat
  OBVIOUS
<1>8. /\ Cardinality(Requests) * Cardinality(Earned)
           <= Cardinality(Requests) * Cardinality(Earned')
      /\ Cardinality(Requests) * Cardinality(Earned) \in Nat
      /\ Cardinality(Requests) * Cardinality(Earned') \in Nat
  BY <1>5, <1>6, <1>7, PayCounts
<1>9. \A q \in Requests : pay[q].amount \in Nat
  BY AmountsFinite DEF PayTypeOK, PayHandler
<1>10. \A q \in Requests : pay'[q].at = "insert" => pay'[q].amount <= Cardinality(Earned')
  BY <1>5, <1>9, PayCounts DEF OverdrawInv
<1>11. Cardinality(ClaimUnits') + Cardinality(PendingUnits')
         <= Cardinality(Requests) * Cardinality(Earned')
  BY <1>2, <1>3, <1>8, PayCounts, PendingFinite DEF OverdrawInv
<1> QED BY <1>10, <1>11 DEF OverdrawInv

\* A request that asks adds its own to what the others are about to claim.
LEMMA OverdrawAsked ==
  ASSUME PayTypeOK, OverdrawInv, NEW r \in Requests, NEW amount \in Amounts,
         AskPayout(r, amount)
  PROVE  OverdrawInv'
<1> DEFINE n == Cardinality(Requests)
           e == Cardinality(Earned)
           Others == (Requests \ {r}) \X (1 .. e)
<1>1. /\ amount > 0 /\ amount <= AvailableBalance /\ amount \in Nat
      /\ pay' = [pay EXCEPT ![r] = [at |-> "insert", amount |-> amount]]
      /\ UNCHANGED <<commission, payout>>
  BY AmountsFinite DEF AskPayout
<1>2. pay'[r].amount = amount /\ \A q \in Requests \ {r} : pay'[q] = pay[q]
  BY <1>1 DEF PayTypeOK
<1>3. ClaimUnits' = ClaimUnits /\ Earned' = Earned
  BY <1>1 DEF ClaimUnits, Earned
<1>4. Cardinality(ClaimUnits) + amount <= e
  BY <1>1, BalanceIsWithinEarned
<1>5. e \in Nat /\ n \in Nat /\ Cardinality(ClaimUnits) \in Nat
  BY PayCounts, RequestsAssumption, FS_CardinalityType
<1>6. \A q \in Requests : pay'[q].at = "insert" => pay'[q].amount <= e
  BY <1>1, <1>2, <1>4, <1>5 DEF OverdrawInv
<1>7. PendingUnits' \subseteq Others \cup ({r} \X (1 .. amount))
  <2>1. ASSUME NEW x \in PendingUnits' PROVE x \in Others \cup ({r} \X (1 .. amount))
    <3>1. PICK q \in Requests, u \in Amounts \ {0} :
            x = <<q, u>> /\ pay'[q].at = "insert" /\ u <= pay'[q].amount
      BY <2>1 DEF PendingUnits
    <3>2. u \in Nat /\ u >= 1
      BY AmountsFinite
    <3>3. CASE q = r
      <4>1. u \in 1 .. amount
        BY <1>1, <1>2, <3>1, <3>2, <3>3
      <4> QED BY <3>1, <3>3, <4>1
    <3>4. CASE q # r
      <4>1. pay[q].amount \in Nat
        BY AmountsFinite DEF PayTypeOK, PayHandler
      <4>2. pay'[q].amount = pay[q].amount /\ pay[q].amount <= e
        BY <1>2, <3>1, <3>4 DEF OverdrawInv
      <4>3. u \in 1 .. e
        BY <1>5, <3>1, <3>2, <4>1, <4>2
      <4> QED BY <3>1, <3>4, <4>3
    <3> QED BY <3>3, <3>4
  <2> QED BY <2>1
<1>8. IsFiniteSet(Others) /\ Cardinality(Others) = (n - 1) * e
  <2>1. IsFiniteSet(Requests \ {r}) /\ Cardinality(Requests \ {r}) = n - 1
    BY RequestsAssumption, FS_RemoveElement
  <2>2. IsFiniteSet(1 .. e) /\ Cardinality(1 .. e) = e
    BY <1>5, FS_Interval
  <2>3. /\ IsFiniteSet(Others)
        /\ Cardinality(Others) = Cardinality(Requests \ {r}) * Cardinality(1 .. e)
    <3> HIDE DEF e
    <3> QED BY <2>1, <2>2, FS_Product
  <2> HIDE DEF n, e, Others
  <2> QED BY <2>1, <2>2, <2>3
<1>9. Cardinality(PendingUnits') \in Nat /\ Cardinality(PendingUnits') <= (n - 1) * e + amount
  <2> DEFINE Own == {r} \X (1 .. amount)
  <2>1. IsFiniteSet(Own) /\ Cardinality(Own) = amount
    BY <1>1, Units
  <2> HIDE DEF n, e, Others, Own
  <2>2. PendingUnits' \subseteq Others \cup Own
    BY <1>7 DEF Own
  <2>3. /\ Cardinality(PendingUnits') \in Nat
        /\ Cardinality(PendingUnits') <= Cardinality(Others) + Cardinality(Own)
    BY <1>8, <2>1, <2>2, WithinTwo
  <2> QED BY <1>8, <2>1, <2>3
<1>10. (n - 1) * e \in Int /\ n * e = (n - 1) * e + e
  <2>1. \A i, j \in Int : (i - 1) * j \in Int /\ i * j = (i - 1) * j + j
    OBVIOUS
  <2> QED BY <1>5, <2>1
<1>11. Cardinality(ClaimUnits) + Cardinality(PendingUnits') <= n * e
  <2> HIDE DEF n, e
  <2> QED BY <1>1, <1>4, <1>5, <1>9, <1>10
<1> QED BY <1>3, <1>6, <1>11 DEF OverdrawInv

\* A request that inserts its payout moves its units.
LEMMA OverdrawInserted ==
  ASSUME PayTypeOK, OverdrawInv, NEW r \in Requests, NEW o \in PayoutIds, InsertPayout(r, o)
  PROVE  OverdrawInv'
<1>1. PICK amount \in Amounts : pay[r].amount = amount
  BY DEF PayTypeOK, PayHandler
<1>2. /\ pay[r].at = "insert" /\ pay' = [pay EXCEPT ![r] = PayIdle] /\ UNCHANGED commission
  BY DEF InsertPayout
<1>3. pay'[r].at = "idle" /\ \A q \in Requests \ {r} : pay'[q] = pay[q]
  BY <1>2, PayIdles, PayBecomes
<1>4. Earned' = Earned
  BY <1>2 DEF Earned
<1>5. amount \in Nat /\ 1 .. amount \subseteq Amounts \ {0}
  <2>1. Cardinality(Commissions) \in Nat
    BY PayoutAssumption, FS_CardinalityType
  <2> QED BY <2>1 DEF Amounts
<1>6. {r} \X (1 .. amount) \subseteq PendingUnits
  BY <1>1, <1>2, <1>5 DEF PendingUnits
<1>7. PendingUnits' \subseteq PendingUnits \ ({r} \X (1 .. amount))
  <2>1. ASSUME NEW x \in PendingUnits'
        PROVE  x \in PendingUnits \ ({r} \X (1 .. amount))
    <3>1. PICK q \in Requests, u \in Amounts \ {0} :
            x = <<q, u>> /\ pay'[q].at = "insert" /\ u <= pay'[q].amount
      BY <2>1 DEF PendingUnits
    <3>2. q # r
      BY <1>3, <3>1
    <3> QED BY <1>3, <3>1, <3>2 DEF PendingUnits
  <2> QED BY <2>1
<1>8. /\ Cardinality(PendingUnits') \in Nat
      /\ Cardinality(PendingUnits') + amount <= Cardinality(PendingUnits)
  <2> DEFINE U == {r} \X (1 .. amount)
             V == PendingUnits \ U
  <2>1. IsFiniteSet(U) /\ Cardinality(U) = amount
    BY <1>5, Units
  <2>2. IsFiniteSet(V)
    BY PendingFinite, FS_Subset
  <2>3. PendingUnits = V \cup U /\ V \cap U = {}
    BY <1>6
  <2>4. Cardinality(V \cup U) = Cardinality(V) + Cardinality(U) - Cardinality(V \cap U)
    BY <2>1, <2>2, FS_Union
  <2>5. Cardinality(V \cap U) = 0
    BY <2>3, FS_EmptySet
  <2>6. /\ Cardinality(V) \in Nat /\ Cardinality(PendingUnits') \in Nat
        /\ Cardinality(PendingUnits') <= Cardinality(V)
    BY <1>7, <2>2, FS_Subset, FS_CardinalityType
  <2>7. Cardinality(PendingUnits) = Cardinality(V \cup U)
    BY <2>3
  <2> HIDE DEF U, V
  <2> QED BY <1>5, <2>1, <2>4, <2>5, <2>6, <2>7
<1>9. /\ Cardinality(ClaimUnits') \in Nat
      /\ Cardinality(ClaimUnits') <= Cardinality(ClaimUnits) + amount
  BY <1>1, InsertionClaims
<1>10. Cardinality(Requests) * Cardinality(Earned) \in Int
  <2>1. Cardinality(Requests) \in Nat
    BY RequestsAssumption, FS_CardinalityType
  <2> QED BY <2>1, PayCounts
<1>11. Cardinality(ClaimUnits') + Cardinality(PendingUnits')
         <= Cardinality(Requests) * Cardinality(Earned')
  BY <1>4, <1>5, <1>8, <1>9, <1>10, PayCounts, PendingFinite DEF OverdrawInv
<1>12. \A q \in Requests : pay'[q].at = "insert" => pay'[q].amount <= Cardinality(Earned')
  BY <1>3, <1>4 DEF OverdrawInv
<1> QED BY <1>11, <1>12 DEF OverdrawInv

\* The other actions leave claims and requests, or less of them.
LEMMA OverdrawStep ==
  PayTypeOK /\ (~revived => OverdrawInv) /\ [PayNext]_payVars => (~revived' => OverdrawInv')
<1> SUFFICES ASSUME PayTypeOK, ~revived => OverdrawInv, [PayNext]_payVars, ~revived'
             PROVE  OverdrawInv'
  OBVIOUS
<1>0. OverdrawInv
  BY DEF PayNext, payVars, Earn, Approve, AskPayout, InsertPayout, DecidePayout,
         SettleCommissions, PayAbandon
<1>1. ASSUME NEW c \in Commissions, Earn(c) \/ Approve(c) PROVE OverdrawInv'
  <2>1. /\ UNCHANGED <<payout, pay>>
        /\ \/ commission[c] = "none" /\ commission' = [commission EXCEPT ![c] = "pending"]
           \/ commission[c] = "pending" /\ commission' = [commission EXCEPT ![c] = "approved"]
    BY <1>1 DEF Earn, Approve
  <2>2. Earned \subseteq Earned'
    BY <2>1 DEF Earned, PayTypeOK
  <2>3. ClaimUnits' = ClaimUnits
    BY <2>1 DEF ClaimUnits
  <2> QED BY <2>1, <2>2, <2>3, <1>0, OverdrawShrinks
<1>2. ASSUME NEW r \in Requests, NEW o \in PayoutIds,
             NEW status \in {"approved", "rejected", "paid"}, DecidePayout(r, o, status)
      PROVE  OverdrawInv'
  <2>1. /\ commission' = commission
        /\ pay' = [pay EXCEPT ![r] = [PayIdle EXCEPT !.at = IF status = "paid" THEN "settle" ELSE "idle"]]
        /\ payout' = [payout EXCEPT ![o].status = status]
        /\ decisions \in Nat /\ decisions' = decisions + 1
    BY <1>2, PayoutAssumption DEF DecidePayout, PayTypeOK
  <2>2. pay'[r].at # "insert" /\ \A q \in Requests \ {r} : pay'[q] = pay[q]
    <3>1. [PayIdle EXCEPT !.at = IF status = "paid" THEN "settle" ELSE "idle"].at # "insert"
      BY DEF PayIdle
    <3> QED BY <2>1, <3>1 DEF PayTypeOK
  <2>3. payout[o].status = "rejected" => status = "rejected"
    BY <1>2 DEF DecidePayout
  <2>5. ClaimUnits' \subseteq ClaimUnits
    BY <1>2, <2>3, DecisionClaims
  <2>6. Earned' = Earned
    BY <2>1 DEF Earned
  <2> QED BY <2>2, <2>5, <2>6, <1>0, OverdrawShrinks
<1>3. ASSUME NEW r \in Requests, SettleCommissions(r) \/ PayAbandon(r) PROVE OverdrawInv'
  <2>1. /\ payout' = payout /\ pay' = [pay EXCEPT ![r] = PayIdle]
        /\ \/ commission' = [c \in Commissions |->
                               IF commission[c] = "approved" THEN "paid" ELSE commission[c]]
           \/ commission' = commission
    BY <1>3 DEF SettleCommissions, PayAbandon
  <2>2. pay'[r].at = "idle" /\ \A q \in Requests \ {r} : pay'[q] = pay[q]
    BY <2>1, PayIdles, PayBecomes
  <2>3. Earned' = Earned
    BY <2>1 DEF Earned
  <2>4. ClaimUnits' = ClaimUnits
    BY <2>1 DEF ClaimUnits
  <2> QED BY <2>2, <2>3, <2>4, <1>0, OverdrawShrinks
<1>4. CASE UNCHANGED payVars
  <2>1. UNCHANGED <<commission, payout, pay>>
    BY <1>4 DEF payVars
  <2>2. Earned' = Earned /\ ClaimUnits' = ClaimUnits
    BY <2>1 DEF Earned, ClaimUnits
  <2> QED BY <2>1, <2>2, <1>0, OverdrawShrinks
<1> QED BY <1>1, <1>2, <1>3, <1>4, <1>0, OverdrawAsked, OverdrawInserted DEF PayNext

\* NeverOverdrawn, of any commissions, payouts, decisions and requests: those
\* that take turns claim no more than what was earned, and those that overlap
\* (affiliate.ts:107) no more than that for each request in flight.
THEOREM NeverOverdrawnHolds == Spec => []NeverOverdrawn
<1>1. PayInit => PayTypeOK /\ PayInv /\ OverdrawInv
  <2> SUFFICES ASSUME PayInit PROVE OverdrawInv
    BY PayStarts
  <2>1. ClaimUnits = {} /\ PendingUnits = {} /\ Earned = {}
    BY PayIdles DEF PayInit, ClaimUnits, Claiming, PendingUnits, Earned
  <2>2. Cardinality(ClaimUnits) = 0 /\ Cardinality(PendingUnits) = 0 /\ Cardinality(Earned) = 0
    BY <2>1, FS_EmptySet
  <2>3. Cardinality(Requests) \in Nat
    BY RequestsAssumption, FS_CardinalityType
  <2> QED BY <2>2, <2>3, PayIdles DEF PayInit, OverdrawInv
<1>2. OverdrawInv => Claims <= Cardinality(Requests) * (OfStatus("approved") + OfStatus("paid"))
  <2>1. Cardinality(Requests) * Cardinality(Earned) \in Int
    <3>1. Cardinality(Requests) \in Nat
      BY RequestsAssumption, FS_CardinalityType
    <3> QED BY <3>1, PayCounts
  <2>2. OverdrawInv => Cardinality(ClaimUnits) <= Cardinality(Requests) * Cardinality(Earned)
    BY <2>1, PayCounts, PendingFinite DEF OverdrawInv
  <2> QED BY <2>2, EarnedIsSum, ClaimsAreUnits
<1>3. PayInv /\ (~revived => OverdrawInv) => NeverOverdrawn
  BY <1>2, EarnedIsSum, ClaimsAreUnits DEF PayInv, NeverOverdrawn
<1>4. PaySpec => []NeverOverdrawn
  BY <1>1, <1>3, PayNextStep, OverdrawStep, PTL DEF PaySpec
<1> QED BY <1>4, EachService, PTL

-----------------------------------------------------------------------------
(* Otp. A limit that was checked is used up later: what it has let through *)
(* and who is on the way, together, exceed it by the requests in flight.   *)

InFlight == Cardinality(Requests)
Missing(i) == {q \in Requests : otp[q].at = "miss" /\ otp[q].code = i}
Consuming(i) == {q \in Requests : otp[q].at = "consume" /\ otp[q].code = i}
Asking == {q \in Requests : otp[q].at \in {"cooldown", "sms", "insert"}}

OtpInv ==
  /\ \A q \in Requests : otp[q].at \in {"miss", "consume"} => otp[q].code \in 1 .. Len(codes)
  /\ \A i \in 1 .. Len(codes) :
       /\ codes[i].at <= ticks
       /\ codes[i].missed = codes[i].attempts
       /\ codes[i].missed + Cardinality(Missing(i)) < MaxAttempts + InFlight
       /\ codes[i].logins + Cardinality(Consuming(i)) <= InFlight
       /\ ~codes[i].consumed => codes[i].logins = 0
  /\ \A t \in 0 .. ticks :
       /\ Cardinality(Recent(t)) < PerHour + InFlight
       /\ t = ticks => Cardinality(Recent(t)) + Cardinality(Asking) < PerHour + InFlight

LEMMA OtpCounts ==
  /\ InFlight \in Nat
  /\ \A S \in SUBSET Requests :
       IsFiniteSet(S) /\ Cardinality(S) \in Nat /\ Cardinality(S) <= InFlight
  /\ Asking \in SUBSET Requests
  /\ \A i : Missing(i) \in SUBSET Requests /\ Consuming(i) \in SUBSET Requests
<1>1. InFlight \in Nat
  BY RequestsAssumption, FS_CardinalityType DEF InFlight
<1>2. \A S \in SUBSET Requests :
        IsFiniteSet(S) /\ Cardinality(S) \in Nat /\ Cardinality(S) <= InFlight
  BY RequestsAssumption, FS_Subset, FS_CardinalityType DEF InFlight
<1> QED BY <1>1, <1>2 DEF Asking, Missing, Consuming

LEMMA CodeRows ==
  ASSUME OtpTypeOK
  PROVE  /\ Len(codes) \in Nat /\ ticks \in Nat
         /\ \A i \in 1 .. Len(codes) : /\ codes[i] \in Code
                                       /\ codes[i].missed \in Nat /\ codes[i].logins \in Nat
                                       /\ codes[i].attempts \in Nat /\ codes[i].at \in Nat
<1>1. Len(codes) \in Nat /\ \A i \in 1 .. Len(codes) : codes[i] \in Code
  BY DEF OtpTypeOK
<1>2. \A c \in Code : c.missed \in Nat /\ c.logins \in Nat /\ c.attempts \in Nat /\ c.at \in Nat
  BY OtpAssumption DEF Code
<1>3. ticks \in Nat
  BY OtpAssumption DEF OtpTypeOK
<1> QED BY <1>1, <1>2, <1>3

LEMMA RecentCounts ==
  ASSUME OtpTypeOK, NEW t
  PROVE  IsFiniteSet(Recent(t)) /\ Cardinality(Recent(t)) \in Nat
<1>1. Len(codes) \in Nat
  BY DEF OtpTypeOK
<1>2. IsFiniteSet(1 .. Len(codes))
  BY <1>1, FS_Interval
<1>3. Recent(t) \in SUBSET (1 .. Len(codes))
  BY DEF Recent
<1> QED BY <1>2, <1>3, FS_Subset, FS_CardinalityType

LEMMA OtpBecomes ==
  ASSUME OtpTypeOK, NEW r \in Requests, NEW state \in OtpHandler,
         otp' = [otp EXCEPT ![r] = state]
  PROVE  /\ otp' \in [Requests -> OtpHandler]
         /\ otp'[r] = state
         /\ \A q \in Requests \ {r} : otp'[q] = otp[q]
BY DEF OtpTypeOK

LEMMA OtpMoves ==
  ASSUME OtpTypeOK, NEW r \in Requests, NEW step \in OtpSteps, OtpGoto(r, step)
  PROVE  /\ otp' \in [Requests -> OtpHandler]
         /\ otp'[r].at = step
         /\ \A q \in Requests \ {r} : otp'[q] = otp[q]
<1>1. otp[r] \in OtpHandler
  BY DEF OtpTypeOK
<1>2. [otp[r] EXCEPT !.at = step] \in OtpHandler
  BY <1>1 DEF OtpHandler
<1> QED BY <1>1, <1>2 DEF OtpTypeOK, OtpGoto, OtpHandler

LEMMA OtpEnds ==
  ASSUME OtpTypeOK, NEW r \in Requests, OtpEnd(r)
  PROVE  /\ otp' \in [Requests -> OtpHandler]
         /\ otp'[r].at = "idle"
         /\ \A q \in Requests \ {r} : otp'[q] = otp[q]
<1>1. OtpIdle \in OtpHandler /\ OtpIdle.at = "idle"
  BY DEF OtpIdle, OtpHandler, OtpSteps
<1> QED BY <1>1, OtpBecomes DEF OtpEnd

\* A row that is updated leaves the others alone.
LEMMA CodeUpdate ==
  ASSUME OtpTypeOK, NEW i \in 1 .. Len(codes), NEW row1 \in Code,
         codes' = [codes EXCEPT ![i] = row1]
  PROVE  /\ codes' \in Seq(Code) /\ Len(codes') = Len(codes)
         /\ codes'[i] = row1
         /\ \A j \in 1 .. Len(codes) : j # i => codes'[j] = codes[j]
BY DEF OtpTypeOK

\* While no more handlers count a miss or a login of a code, what they may add to it stays
\* under its bounds.
LEMMA FewerWait ==
  ASSUME OtpTypeOK, OtpInv, NEW i \in 1 .. Len(codes),
         Missing(i)' \subseteq Missing(i), Consuming(i)' \subseteq Consuming(i)
  PROVE  /\ codes[i].missed + Cardinality(Missing(i)') < MaxAttempts + InFlight
         /\ codes[i].logins + Cardinality(Consuming(i)') <= InFlight
<1>1. /\ codes[i].missed + Cardinality(Missing(i)) < MaxAttempts + InFlight
      /\ codes[i].logins + Cardinality(Consuming(i)) <= InFlight
  BY DEF OtpInv
<1>2. InFlight \in Nat /\ Cardinality(Missing(i)) \in Nat /\ Cardinality(Consuming(i)) \in Nat
  BY OtpCounts
<1>3. Cardinality(Missing(i)') \in Nat /\ Cardinality(Missing(i)') <= Cardinality(Missing(i))
  BY OtpCounts, FS_Subset, FS_CardinalityType
<1>4. /\ Cardinality(Consuming(i)') \in Nat
      /\ Cardinality(Consuming(i)') <= Cardinality(Consuming(i))
  BY OtpCounts, FS_Subset, FS_CardinalityType
<1>5. codes[i].missed \in Nat /\ codes[i].logins \in Nat
  BY CodeRows
<1>6. MaxAttempts \in Nat
  BY OtpAssumption
<1>7. \A n, c, d, m, k \in Nat : n + c < m + k /\ d <= c => n + d < m + k
  OBVIOUS
<1>8. codes[i].missed + Cardinality(Missing(i)') < MaxAttempts + InFlight
  BY <1>1, <1>2, <1>3, <1>5, <1>6, <1>7
<1>9. \A n, c, d, k \in Nat : n + c <= k /\ d <= c => n + d <= k
  OBVIOUS
<1>10. codes[i].logins + Cardinality(Consuming(i)') <= InFlight
  BY <1>1, <1>2, <1>4, <1>5, <1>9
<1> QED BY <1>8, <1>10

\* The limits are kept where codes and clock stay and nobody new is let through.
LEMMA OtpShrinks ==
  ASSUME OtpTypeOK, OtpInv, UNCHANGED <<ticks, codes>>, Asking' \subseteq Asking,
         \A q \in Requests : otp'[q].at \in {"miss", "consume"} => otp'[q] = otp[q]
  PROVE  OtpInv'
<1>1. Cardinality(Asking') \in Nat /\ Cardinality(Asking') <= Cardinality(Asking)
  BY OtpCounts, FS_Subset, FS_CardinalityType
<1>3. \A t : Recent(t)' = Recent(t)
  BY DEF Recent
<1>5. \A t : Cardinality(Recent(t)) \in Nat
  BY RecentCounts
<1>6. PerHour \in Nat /\ MaxAttempts \in Nat
  BY OtpAssumption
<1>7. \A q \in Requests : otp'[q].at \in {"miss", "consume"} => otp'[q].code \in 1 .. Len(codes')
  BY DEF OtpInv
<1>8. ASSUME NEW i \in 1 .. Len(codes)
      PROVE  /\ codes[i].missed + Cardinality(Missing(i)') < MaxAttempts + InFlight
             /\ codes[i].logins + Cardinality(Consuming(i)') <= InFlight
  <2>1. Missing(i)' \subseteq Missing(i) /\ Consuming(i)' \subseteq Consuming(i)
    BY DEF Missing, Consuming
  <2> QED BY <2>1, FewerWait
<1>9. ASSUME NEW t \in 0 .. ticks
      PROVE  /\ Cardinality(Recent(t)) < PerHour + InFlight
             /\ t = ticks => Cardinality(Recent(t)) + Cardinality(Asking') < PerHour + InFlight
  BY <1>1, <1>5, <1>6, OtpCounts DEF OtpInv
<1>10. InFlight' = InFlight
  BY DEF InFlight
<1> QED BY <1>3, <1>7, <1>8, <1>9, <1>10 DEF OtpInv

LEMMA OtpNextStep == OtpTypeOK /\ OtpInv /\ [OtpNext]_otpVars => OtpTypeOK' /\ OtpInv'
<1> SUFFICES ASSUME OtpTypeOK, OtpInv, [OtpNext]_otpVars PROVE OtpTypeOK' /\ OtpInv'
  OBVIOUS
<1>i. /\ \A q \in Requests : otp[q] \in OtpHandler
      /\ \A i \in 1 .. Len(codes) : /\ codes[i] \in Code
                                    /\ codes[i].missed \in Nat /\ codes[i].logins \in Nat
                                    /\ codes[i].attempts \in Nat /\ codes[i].at \in Nat
      /\ ticks \in Nat /\ Len(codes) \in Nat
      /\ PerHour \in Nat /\ MaxAttempts \in Nat /\ Hour \in Nat /\ MaxTicks \in Nat
      /\ PerHour > 0 /\ MaxAttempts > 0
  <2>1. \A q \in Requests : otp[q] \in OtpHandler
    BY DEF OtpTypeOK
  <2> QED BY <2>1, CodeRows, OtpAssumption
<1>1. ASSUME NEW r \in Requests, UNCHANGED <<ticks, codes>>, NEW step \in OtpSteps,
             otp' \in [Requests -> OtpHandler], otp'[r].at = step,
             step \notin {"miss", "consume", "cooldown"},
             step \in {"sms", "insert"} => otp[r].at \in {"cooldown", "sms", "insert"},
             \A q \in Requests \ {r} : otp'[q] = otp[q]
      PROVE  OtpTypeOK' /\ OtpInv'
  <2>1. Asking' \subseteq Asking
    BY <1>1 DEF Asking
  <2>2. \A q \in Requests : otp'[q].at \in {"miss", "consume"} => otp'[q] = otp[q]
    BY <1>1
  <2>3. OtpInv'
    BY <1>1, <2>1, <2>2, OtpShrinks
  <2> QED BY <1>1, <2>3 DEF OtpTypeOK
<1>2. ASSUME NEW r \in Requests,
             \/ AskCode(r) \/ ResendCooldown(r) \/ SendCode(r) \/ OtpAbandon(r)
      PROVE  OtpTypeOK' /\ OtpInv'
  <2>1. UNCHANGED <<ticks, codes>>
    BY <1>2 DEF AskCode, ResendCooldown, SendCode, OtpAbandon
  <2>2. \/ OtpGoto(r, "limit") \/ OtpEnd(r)
        \/ otp[r].at = "cooldown" /\ OtpGoto(r, "sms")
        \/ otp[r].at = "sms" /\ OtpGoto(r, "insert")
    BY <1>2 DEF AskCode, ResendCooldown, SendCode, OtpAbandon
  <2>3. CASE OtpGoto(r, "limit")
    BY <1>1, <2>1, <2>3, OtpMoves DEF OtpSteps
  <2>4. CASE OtpEnd(r)
    BY <1>1, <2>1, <2>4, OtpEnds DEF OtpSteps
  <2>5. CASE otp[r].at = "cooldown" /\ OtpGoto(r, "sms")
    BY <1>1, <2>1, <2>5, OtpMoves DEF OtpSteps
  <2>6. CASE otp[r].at = "sms" /\ OtpGoto(r, "insert")
    BY <1>1, <2>1, <2>6, OtpMoves DEF OtpSteps
  <2> QED BY <2>2, <2>3, <2>4, <2>5, <2>6
<1>3. ASSUME NEW r \in Requests, NEW i \in 0 .. Len(codes), VerifyOtp(r, i)
      PROVE  OtpTypeOK' /\ OtpInv'
  <2>1. [at |-> "select", code |-> i] \in OtpHandler
    BY <1>i DEF OtpHandler, OtpSteps
  <2>2. /\ otp' \in [Requests -> OtpHandler] /\ otp'[r].at = "select"
        /\ \A q \in Requests \ {r} : otp'[q] = otp[q]
    BY <1>3, <2>1, OtpBecomes DEF VerifyOtp
  <2> QED BY <1>1, <1>3, <2>2 DEF VerifyOtp, OtpSteps
<1>4. ASSUME NEW r \in Requests, HourlyLimit(r) PROVE OtpTypeOK' /\ OtpInv'
  <2>1. UNCHANGED <<ticks, codes>>
    BY <1>4 DEF HourlyLimit
  <2>2. CASE OtpEnd(r)
    BY <1>1, <2>1, <2>2, OtpEnds DEF OtpSteps
  <2>3. CASE Cardinality(Recent(ticks)) < PerHour /\ OtpGoto(r, "cooldown")
    <3>1. /\ otp' \in [Requests -> OtpHandler] /\ otp'[r].at = "cooldown"
          /\ \A q \in Requests \ {r} : otp'[q] = otp[q]
      BY <2>3, OtpMoves DEF OtpSteps
    <3>2. \A i : Missing(i)' \subseteq Missing(i) /\ Consuming(i)' \subseteq Consuming(i)
      BY <3>1 DEF Missing, Consuming
    <3>3. Asking' \in SUBSET Requests
      BY DEF Asking
    <3>4. Cardinality(Asking') \in Nat /\ Cardinality(Asking') <= InFlight
      BY <3>3, OtpCounts
    <3>6. \A t : Recent(t)' = Recent(t)
      BY <2>1 DEF Recent
    <3>7. ASSUME NEW i \in 1 .. Len(codes)
          PROVE  /\ codes[i].missed + Cardinality(Missing(i)') < MaxAttempts + InFlight
                 /\ codes[i].logins + Cardinality(Consuming(i)') <= InFlight
      BY <3>2, FewerWait
    <3>8. Cardinality(Recent(ticks)) + Cardinality(Asking') < PerHour + InFlight
      BY <2>3, <3>4, <1>i, RecentCounts, OtpCounts
    <3>9. \A q \in Requests : otp'[q].at \in {"miss", "consume"} => otp'[q].code \in 1 .. Len(codes')
      BY <2>1, <3>1 DEF OtpInv
    <3>10. InFlight' = InFlight
      BY DEF InFlight
    <3>11. OtpInv'
      BY <2>1, <3>6, <3>7, <3>8, <3>9, <3>10 DEF OtpInv
    <3> QED BY <2>1, <3>1, <3>11 DEF OtpTypeOK
  <2>4. Cardinality(Recent(ticks)) \in Nat
    BY RecentCounts
  <2> QED BY <1>4, <2>2, <2>3, <2>4, <1>i DEF HourlyLimit
<1>5. ASSUME NEW r \in Requests, SelectCode(r) PROVE OtpTypeOK' /\ OtpInv'
  <2>1. UNCHANGED <<ticks, codes>>
    BY <1>5 DEF SelectCode
  <2>2. CASE OtpEnd(r)
    BY <1>1, <2>1, <2>2, OtpEnds DEF OtpSteps
  <2>3. ASSUME NEW i \in 1 .. Len(codes), NEW step \in {"miss", "consume"},
               ~codes[i].consumed, codes[i].attempts < MaxAttempts,
               otp' = [otp EXCEPT ![r] = [at |-> step, code |-> i]]
        PROVE  OtpTypeOK' /\ OtpInv'
    <3>1. [at |-> step, code |-> i] \in OtpHandler
      BY <1>i DEF OtpHandler, OtpSteps
    <3>2. /\ otp' \in [Requests -> OtpHandler]
          /\ otp'[r].at = step /\ otp'[r].code = i
          /\ \A q \in Requests \ {r} : otp'[q] = otp[q]
      BY <2>3, <3>1, OtpBecomes
    <3>3. Asking' \subseteq Asking
      BY <3>2 DEF Asking
    <3>4. /\ Cardinality(Asking') \in Nat /\ Cardinality(Asking) \in Nat
          /\ Cardinality(Asking') <= Cardinality(Asking)
      BY <3>3, OtpCounts, FS_Subset, FS_CardinalityType
    <3>5. \A j : Missing(j)' \in SUBSET Requests /\ Consuming(j)' \in SUBSET Requests
      BY DEF Missing, Consuming
    <3>6. \A j : /\ Cardinality(Missing(j)') \in Nat /\ Cardinality(Missing(j)') <= InFlight
                 /\ Cardinality(Consuming(j)') \in Nat /\ Cardinality(Consuming(j)') <= InFlight
      BY <3>5, OtpCounts
    <3>7. ASSUME NEW j \in 1 .. Len(codes)
          PROVE  /\ codes[j].missed + Cardinality(Missing(j)') < MaxAttempts + InFlight
                 /\ codes[j].logins + Cardinality(Consuming(j)') <= InFlight
      <4>1. CASE j = i
        <5>1. codes[j].missed < MaxAttempts /\ codes[j].logins = 0
          BY <2>3, <4>1 DEF OtpInv
        <5> QED BY <3>6, <5>1, <1>i, OtpCounts
      <4>2. CASE j # i
        <5>1. Missing(j)' \subseteq Missing(j) /\ Consuming(j)' \subseteq Consuming(j)
          BY <3>2, <4>2 DEF Missing, Consuming
        <5> QED BY <5>1, FewerWait
      <4> QED BY <4>1, <4>2
    <3>8. \A t : Recent(t)' = Recent(t)
      BY <2>1 DEF Recent
    <3>9. ASSUME NEW t \in 0 .. ticks
          PROVE  /\ Cardinality(Recent(t)) < PerHour + InFlight
                 /\ t = ticks => Cardinality(Recent(t)) + Cardinality(Asking') < PerHour + InFlight
      BY <3>4, <1>i, RecentCounts, OtpCounts DEF OtpInv
    <3>10. \A q \in Requests : otp'[q].at \in {"miss", "consume"} => otp'[q].code \in 1 .. Len(codes')
      BY <2>1, <3>2 DEF OtpInv
    <3>11. InFlight' = InFlight
      BY DEF InFlight
    <3>12. OtpInv'
      BY <2>1, <3>7, <3>8, <3>9, <3>10, <3>11 DEF OtpInv
    <3> QED BY <2>1, <3>2, <3>12 DEF OtpTypeOK
  <2>4. \/ OtpEnd(r)
        \/ \E i \in 1 .. Len(codes), step \in {"miss", "consume"} :
             /\ ~codes[i].consumed /\ ~(codes[i].attempts >= MaxAttempts)
             /\ otp' = [otp EXCEPT ![r] = [at |-> step, code |-> i]]
    BY <1>5 DEF SelectCode
  <2>5. ASSUME NEW i \in 1 .. Len(codes), NEW step \in {"miss", "consume"},
               ~codes[i].consumed, ~(codes[i].attempts >= MaxAttempts),
               otp' = [otp EXCEPT ![r] = [at |-> step, code |-> i]]
        PROVE  OtpTypeOK' /\ OtpInv'
    <3>1. codes[i].attempts < MaxAttempts
      BY <2>5, <1>i
    <3> QED BY <2>3, <2>5, <3>1
  <2> QED BY <2>2, <2>4, <2>5
<1>6. ASSUME NEW r \in Requests, InsertCode(r) PROVE OtpTypeOK' /\ OtpInv'
  <2>1. PICK new \in Code :
          /\ new.at = ticks /\ new.attempts = 0 /\ new.missed = 0 /\ new.logins = 0
          /\ codes' = Append(codes, new)
    <3>1. [at |-> ticks, attempts |-> 0, consumed |-> FALSE, missed |-> 0, logins |-> 0] \in Code
      BY DEF Code, OtpTypeOK
    <3> QED BY <1>6, <3>1 DEF InsertCode
  <2>2. otp[r].at = "insert" /\ ticks' = ticks
    BY <1>6 DEF InsertCode
  <2>3. /\ otp' \in [Requests -> OtpHandler] /\ otp'[r].at = "idle"
        /\ \A q \in Requests \ {r} : otp'[q] = otp[q]
    BY <1>6, OtpEnds DEF InsertCode
  <2>4. /\ codes' \in Seq(Code) /\ Len(codes') = Len(codes) + 1
        /\ codes'[Len(codes) + 1] = new
        /\ \A i \in 1 .. Len(codes) : codes'[i] = codes[i]
    BY <2>1 DEF OtpTypeOK
  <2>5. \A i \in 1 .. Len(codes') : i \in 1 .. Len(codes) \/ i = Len(codes) + 1
    BY <2>4, <1>i
  <2>6. \A i : Missing(i)' = Missing(i) /\ Consuming(i)' = Consuming(i)
    BY <2>2, <2>3 DEF Missing, Consuming
  <2>7. Missing(Len(codes) + 1) = {} /\ Consuming(Len(codes) + 1) = {}
    BY <1>i DEF Missing, Consuming, OtpInv
  <2>8. Cardinality(Missing(Len(codes) + 1)) = 0 /\ Cardinality(Consuming(Len(codes) + 1)) = 0
    BY <2>7, FS_EmptySet
  <2>9. ASSUME NEW i \in 1 .. Len(codes')
        PROVE  /\ codes'[i].at <= ticks'
               /\ codes'[i].missed = codes'[i].attempts
               /\ codes'[i].missed + Cardinality(Missing(i)') < MaxAttempts + InFlight
               /\ codes'[i].logins + Cardinality(Consuming(i)') <= InFlight
               /\ ~codes'[i].consumed => codes'[i].logins = 0
    <3>1. CASE i \in 1 .. Len(codes)
      BY <2>2, <2>4, <2>6, <3>1 DEF OtpInv
    <3>2. CASE i = Len(codes) + 1
      <4>1. Cardinality(Missing(i)') = 0 /\ Cardinality(Consuming(i)') = 0
        BY <2>6, <2>8, <3>2
      <4>2. codes'[i] = new
        BY <2>4, <3>2
      <4> QED BY <2>1, <2>2, <4>1, <4>2, <1>i, OtpCounts
    <3> QED BY <2>5, <3>1, <3>2
  <2>10. Asking' = Asking \ {r} /\ r \in Asking
    BY <2>2, <2>3 DEF Asking
  <2>11. Cardinality(Asking') = Cardinality(Asking) - 1 /\ Cardinality(Asking) \in Nat
    BY <2>10, OtpCounts, FS_RemoveElement
  <2>12. ASSUME NEW t \in 0 .. ticks
         PROVE  /\ Cardinality(Recent(t)') < PerHour + InFlight
                /\ t = ticks => Cardinality(Recent(t)') + Cardinality(Asking') < PerHour + InFlight
    <3>1. CASE t # ticks
      <4>1. Recent(t)' = Recent(t)
        BY <2>1, <2>4, <2>5, <3>1, <1>i DEF Recent
      <4> QED BY <3>1, <4>1 DEF OtpInv
    <3>2. CASE t = ticks
      <4>1. Recent(t)' \in SUBSET (Recent(t) \cup {Len(codes) + 1})
        BY <2>4, <2>5 DEF Recent
      <4>2. /\ IsFiniteSet(Recent(t) \cup {Len(codes) + 1})
            /\ Cardinality(Recent(t) \cup {Len(codes) + 1}) \in Nat
            /\ Cardinality(Recent(t) \cup {Len(codes) + 1}) <= Cardinality(Recent(t)) + 1
        <5>1. IsFiniteSet(Recent(t)) /\ Cardinality(Recent(t)) \in Nat
          BY RecentCounts
        <5>2. /\ IsFiniteSet(Recent(t) \cup {Len(codes) + 1})
              /\ Cardinality(Recent(t) \cup {Len(codes) + 1})
                 \in {Cardinality(Recent(t)), Cardinality(Recent(t)) + 1}
          BY <5>1, FS_AddElement
        <5> QED BY <5>1, <5>2
      <4>3. /\ Cardinality(Recent(t)') \in Nat
            /\ Cardinality(Recent(t)') <= Cardinality(Recent(t)) + 1
        BY <4>1, <4>2, RecentCounts, FS_Subset, FS_CardinalityType
      <4>4. Cardinality(Recent(t)) + Cardinality(Asking) < PerHour + InFlight
        BY <3>2 DEF OtpInv
      <4>5. Cardinality(Recent(t)') + Cardinality(Asking') < PerHour + InFlight
        BY <2>11, <4>3, <4>4, <1>i, RecentCounts, OtpCounts
      <4>6. Cardinality(Asking') \in Nat
        BY <2>11, <2>10, OtpCounts
      <4> QED BY <4>3, <4>5, <4>6, <1>i, OtpCounts
    <3> QED BY <3>1, <3>2
  <2>13. \A q \in Requests : otp'[q].at \in {"miss", "consume"} => otp'[q].code \in 1 .. Len(codes')
    BY <2>3, <2>4, <1>i DEF OtpInv
  <2>14. InFlight' = InFlight
    BY DEF InFlight
  <2>15. OtpInv'
    BY <2>2, <2>9, <2>12, <2>13, <2>14 DEF OtpInv
  <2> QED BY <2>2, <2>3, <2>4, <2>15 DEF OtpTypeOK
<1>7. ASSUME NEW r \in Requests, CountMiss(r) \/ ConsumeCode(r) PROVE OtpTypeOK' /\ OtpInv'
  <2>1. PICK i \in 1 .. Len(codes) : otp[r].code = i
    BY <1>7 DEF CountMiss, ConsumeCode, OtpInv
  <2>2. /\ otp' \in [Requests -> OtpHandler] /\ otp'[r].at = "idle"
        /\ \A q \in Requests \ {r} : otp'[q] = otp[q]
    BY <1>7, OtpEnds DEF CountMiss, ConsumeCode
  <2>3. ticks' = ticks
    BY <1>7 DEF CountMiss, ConsumeCode
  <2>4. PICK new \in Code :
          /\ codes' = [codes EXCEPT ![i] = new]
          /\ new.at = codes[i].at
          /\ \/ /\ otp[r].at = "miss" /\ new.missed = codes[i].missed + 1
                /\ new.attempts = codes[i].attempts + 1
                /\ new.logins = codes[i].logins /\ new.consumed = codes[i].consumed
             \/ /\ otp[r].at = "consume" /\ new.logins = codes[i].logins + 1 /\ new.consumed
                /\ new.attempts = codes[i].attempts /\ new.missed = codes[i].missed
    <3>1. CASE CountMiss(r)
      <4>1. codes' = [codes EXCEPT ![i] = [codes[i] EXCEPT !.missed = codes[i].missed + 1,
                                                          !.attempts = codes[i].attempts + 1]]
        BY <2>1, <3>1, <1>i DEF CountMiss, OtpTypeOK, Code
      <4>2. [codes[i] EXCEPT !.missed = codes[i].missed + 1,
                             !.attempts = codes[i].attempts + 1] \in Code
        <5>1. codes[i] \in Code /\ codes[i].missed + 1 \in Nat /\ codes[i].attempts + 1 \in Nat
          BY <1>i
        <5> QED BY <5>1 DEF Code
      <4> QED BY <3>1, <4>1, <4>2, <1>i, <2>1 DEF CountMiss, Code
    <3>2. CASE ConsumeCode(r)
      <4>1. codes' = [codes EXCEPT ![i] = [codes[i] EXCEPT !.consumed = TRUE,
                                                          !.logins = codes[i].logins + 1]]
        BY <2>1, <3>2, <1>i DEF ConsumeCode, OtpTypeOK, Code
      <4>2. [codes[i] EXCEPT !.consumed = TRUE, !.logins = codes[i].logins + 1] \in Code
        <5>1. codes[i] \in Code /\ codes[i].logins + 1 \in Nat
          BY <1>i
        <5> QED BY <5>1 DEF Code
      <4> QED BY <3>2, <4>1, <4>2, <1>i, <2>1 DEF ConsumeCode, Code
    <3> QED BY <1>7, <3>1, <3>2
  <2>5. /\ codes' \in Seq(Code) /\ Len(codes') = Len(codes) /\ codes'[i] = new
        /\ \A j \in 1 .. Len(codes) : j # i => codes'[j] = codes[j]
    BY <2>4, CodeUpdate
  <2>6. \A t : Recent(t)' = Recent(t)
    BY <2>4, <2>5 DEF Recent
  <2>7. Asking' = Asking
    BY <2>2, <2>4 DEF Asking
  <2>8. /\ Missing(i)' = Missing(i) \ {r} /\ Consuming(i)' = Consuming(i) \ {r}
        /\ otp[r].at = "miss" => r \in Missing(i) /\ r \notin Consuming(i)
        /\ otp[r].at = "consume" => r \in Consuming(i) /\ r \notin Missing(i)
    BY <2>1, <2>2 DEF Missing, Consuming
  <2>9. /\ otp[r].at = "miss" => /\ Cardinality(Missing(i)') = Cardinality(Missing(i)) - 1
                                 /\ Cardinality(Consuming(i)') = Cardinality(Consuming(i))
        /\ otp[r].at = "consume" => /\ Cardinality(Consuming(i)') = Cardinality(Consuming(i)) - 1
                                    /\ Cardinality(Missing(i)') = Cardinality(Missing(i))
    BY <2>8, OtpCounts, FS_RemoveElement
  <2>10. Cardinality(Missing(i)) \in Nat /\ Cardinality(Consuming(i)) \in Nat
    BY OtpCounts
  <2>11. /\ codes[i].missed = codes[i].attempts
         /\ codes[i].missed + Cardinality(Missing(i)) < MaxAttempts + InFlight
         /\ codes[i].logins + Cardinality(Consuming(i)) <= InFlight
         /\ ~codes[i].consumed => codes[i].logins = 0
         /\ codes[i].at <= ticks
    BY DEF OtpInv
  <2>a. /\ InFlight \in Nat /\ MaxAttempts \in Nat /\ codes[i].missed \in Nat
        /\ codes[i].attempts \in Nat /\ codes[i].logins \in Nat
    BY OtpCounts, <1>i
  <2>12. /\ new.missed = new.attempts
         /\ new.missed + Cardinality(Missing(i)') < MaxAttempts + InFlight
         /\ new.logins + Cardinality(Consuming(i)') <= InFlight
         /\ ~new.consumed => new.logins = 0
         /\ new.at <= ticks
    <3>a. \A n, c, k \in Nat : n + c <= k => (n + 1) + (c - 1) <= k
      OBVIOUS
    <3>b. \A n, c, k \in Nat : n + c < k => (n + 1) + (c - 1) < k
      OBVIOUS
    <3>c. MaxAttempts + InFlight \in Nat
      BY <2>a
    <3>1. CASE otp[r].at = "miss"
      <4>1. /\ new.missed = codes[i].missed + 1 /\ new.attempts = codes[i].attempts + 1
            /\ new.logins = codes[i].logins /\ new.consumed = codes[i].consumed
            /\ new.at = codes[i].at
        BY <2>4, <3>1
      <4>2. new.missed + Cardinality(Missing(i)') < MaxAttempts + InFlight
        BY <2>9, <2>10, <2>11, <2>a, <3>1, <3>b, <3>c, <4>1
      <4>3. new.logins + Cardinality(Consuming(i)') <= InFlight
        BY <2>9, <2>11, <3>1, <4>1
      <4> QED BY <2>11, <4>1, <4>2, <4>3
    <3>2. CASE otp[r].at = "consume"
      <4>1. /\ new.logins = codes[i].logins + 1 /\ new.consumed
            /\ new.attempts = codes[i].attempts /\ new.missed = codes[i].missed
            /\ new.at = codes[i].at
        BY <2>4, <3>2
      <4>2. new.missed + Cardinality(Missing(i)') < MaxAttempts + InFlight
        BY <2>9, <2>11, <3>2, <4>1
      <4>3. new.logins + Cardinality(Consuming(i)') <= InFlight
        BY <2>9, <2>10, <2>11, <2>a, <3>2, <3>a, <4>1
      <4> QED BY <2>11, <4>1, <4>2, <4>3
    <3> QED BY <2>4, <3>1, <3>2
  <2>13. ASSUME NEW j \in 1 .. Len(codes), j # i
         PROVE  Missing(j)' = Missing(j) /\ Consuming(j)' = Consuming(j)
    BY <2>1, <2>2, <2>13 DEF Missing, Consuming
  <2>14. ASSUME NEW j \in 1 .. Len(codes')
         PROVE  /\ codes'[j].at <= ticks'
                /\ codes'[j].missed = codes'[j].attempts
                /\ codes'[j].missed + Cardinality(Missing(j)') < MaxAttempts + InFlight
                /\ codes'[j].logins + Cardinality(Consuming(j)') <= InFlight
                /\ ~codes'[j].consumed => codes'[j].logins = 0
    <3>1. CASE j = i
      BY <2>3, <2>5, <2>12, <3>1
    <3>2. CASE j # i
      BY <2>3, <2>5, <2>13, <3>2 DEF OtpInv
    <3> QED BY <3>1, <3>2
  <2>15. \A q \in Requests : otp'[q].at \in {"miss", "consume"} => otp'[q].code \in 1 .. Len(codes')
    BY <2>2, <2>5 DEF OtpInv
  <2>16. InFlight' = InFlight
    BY DEF InFlight
  <2>17. OtpInv'
    BY <2>3, <2>6, <2>7, <2>14, <2>15, <2>16 DEF OtpInv
  <2> QED BY <2>2, <2>3, <2>5, <2>17 DEF OtpTypeOK
<1>8. CASE Tick
  <2>1. ticks' = ticks + 1 /\ ticks' \in 0 .. MaxTicks /\ UNCHANGED <<codes, otp>>
    BY <1>8, <1>i DEF Tick
  <2>2. /\ \A t : Recent(t)' = Recent(t)
        /\ Asking' = Asking /\ InFlight' = InFlight
        /\ \A i : Missing(i)' = Missing(i) /\ Consuming(i)' = Consuming(i)
    BY <2>1 DEF Recent, Asking, InFlight, Missing, Consuming
  <2>3. Recent(ticks + 1) \in SUBSET Recent(ticks)
    BY <1>i DEF Recent, OtpInv
  <2>4. Cardinality(Recent(ticks + 1)) <= Cardinality(Recent(ticks))
    BY <2>3, RecentCounts, FS_Subset
  <2>5. Cardinality(Recent(ticks)) + Cardinality(Asking) < PerHour + InFlight
    BY <1>i DEF OtpInv
  <2>6. Cardinality(Asking) \in Nat
    BY OtpCounts
  <2>7. Cardinality(Recent(ticks + 1)) + Cardinality(Asking) < PerHour + InFlight
    BY <2>4, <2>5, <2>6, <1>i, RecentCounts, OtpCounts
  <2>8. Cardinality(Recent(ticks + 1)) < PerHour + InFlight
    BY <2>6, <2>7, <1>i, RecentCounts, OtpCounts
  <2>9. ASSUME NEW t \in 0 .. ticks'
        PROVE  /\ Cardinality(Recent(t)) < PerHour + InFlight
               /\ t = ticks' => Cardinality(Recent(t)) + Cardinality(Asking) < PerHour + InFlight
    <3>1. CASE t = ticks + 1
      BY <2>7, <2>8, <3>1
    <3>2. CASE t # ticks + 1
      <4>1. t \in 0 .. ticks /\ t # ticks'
        BY <2>1, <3>2, <1>i
      <4> QED BY <4>1 DEF OtpInv
    <3> QED BY <3>1, <3>2
  <2>10. \A i \in 1 .. Len(codes) : codes[i].at <= ticks'
    BY <2>1, <1>i DEF OtpInv
  <2>11. OtpInv'
    BY <2>1, <2>2, <2>9, <2>10 DEF OtpInv
  <2> QED BY <2>1, <2>11 DEF OtpTypeOK
<1>9. CASE UNCHANGED otpVars
  <2>1. UNCHANGED <<ticks, codes, otp>>
    BY <1>9 DEF otpVars
  <2>2. Asking' = Asking
    BY <2>1 DEF Asking
  <2>3. OtpInv'
    BY <2>1, <2>2, OtpShrinks
  <2> QED BY <2>1, <2>3 DEF OtpTypeOK
<1> QED
  BY <1>2, <1>3, <1>4, <1>5, <1>6, <1>7, <1>8, <1>9 DEF OtpNext

LEMMA OtpStarts == OtpInit => OtpTypeOK /\ OtpInv
<1> SUFFICES ASSUME OtpInit PROVE OtpTypeOK /\ OtpInv
  OBVIOUS
<1>1. OtpIdle \in OtpHandler /\ OtpIdle.at = "idle"
  BY DEF OtpIdle, OtpHandler, OtpSteps
<1>2. OtpTypeOK
  BY <1>1, OtpAssumption DEF OtpInit, OtpTypeOK
<1>3. \A q \in Requests : otp[q].at = "idle"
  BY <1>1 DEF OtpInit
<1>4. \A t : Recent(t) = {}
  BY DEF OtpInit, Recent
<1>5. Asking = {}
  BY <1>3 DEF Asking
<1>6. Cardinality(Asking) = 0 /\ \A t : Cardinality(Recent(t)) = 0
  BY <1>4, <1>5, FS_EmptySet
<1> QED BY <1>2, <1>3, <1>6, OtpAssumption, OtpCounts DEF OtpInit, OtpInv

\* CodesAreLimited, of any limits, codes and requests: whatever overlaps, each
\* limit is exceeded by less than the requests that were in flight.
THEOREM CodesAreLimitedHolds == Spec => []CodesAreLimited
<1>1. OtpInit => OtpTypeOK /\ OtpInv
  BY OtpStarts
<1>2. OtpTypeOK /\ OtpInv => CodesAreLimited
  <2> SUFFICES ASSUME OtpTypeOK, OtpInv PROVE CodesAreLimited
    OBVIOUS
  <2>1. ASSUME NEW i \in 1 .. Len(codes)
        PROVE  codes[i].missed < MaxAttempts + InFlight /\ codes[i].logins <= InFlight
    <3>1. /\ Cardinality(Missing(i)) \in Nat /\ Cardinality(Consuming(i)) \in Nat
          /\ InFlight \in Nat
      BY OtpCounts
    <3>2. codes[i].missed \in Nat /\ codes[i].logins \in Nat /\ MaxAttempts \in Nat
      BY OtpAssumption, CodeRows
    <3>3. /\ codes[i].missed + Cardinality(Missing(i)) < MaxAttempts + InFlight
          /\ codes[i].logins + Cardinality(Consuming(i)) <= InFlight
      BY DEF OtpInv
    <3> QED BY <3>1, <3>2, <3>3
  <2> QED BY <2>1 DEF CodesAreLimited, OtpInv, InFlight
<1>3. OtpSpec => []CodesAreLimited
  BY <1>1, <1>2, OtpNextStep, PTL DEF OtpSpec
<1> QED BY <1>3, EachService, PTL

-----------------------------------------------------------------------------
(* ReadModel. While a replacement of the children that nothing disturbed is *)
(* under way nobody else replaces them, and its place says how far they are *)
(* those of its version.                                                    *)

Replacing(p) == proc[p].at \in Writing
ImagesAre(S) == \A i \in Images : images[i] = IF i \in S THEN 1 ELSE 0
Matched ==
  /\ links = CategoriesOf[row.deep]
  /\ ImagesAre(ImagesOf[row.deep])
  /\ \A x \in VariationsOf[pulled] : variants[x] = pulled

\* How far a replacement got that nothing disturbed.
Replaced(p) ==
  /\ proc[p].at \in {"unlink", "link"} => row.deep = proc[p].item
  /\ proc[p].at = "link" => /\ proc[p].left \subseteq CategoriesOf[row.deep]
                            /\ links = CategoriesOf[row.deep] \ proc[p].left
  /\ proc[p].at \in {"image", "variant"} => links = CategoriesOf[row.deep]
  /\ proc[p].at = "image" => /\ proc[p].left \subseteq ImagesOf[row.deep]
                             /\ ImagesAre(ImagesOf[row.deep] \ proc[p].left)
  /\ proc[p].at = "variant" =>
       /\ ImagesAre(ImagesOf[row.deep])
       /\ \A x \in VariationsOf[proc[p].vars] \ proc[p].left : variants[x] = proc[p].vars

ChildInv ==
  /\ \A p, q \in Requests : Replacing(p) /\ Replacing(q) /\ proc[p].clean => p = q
  /\ \A p \in Requests : Replacing(p) /\ proc[p].clean => Replaced(p)
  /\ ~torn /\ (\A p \in Requests : ~Replacing(p)) => Matched

-----------------------------------------------------------------------------
(* A delivery has one request that applies it, and what is done is no newer *)
(* than the row, if its last writer was not stale, nor than any copy that   *)
(* is not.                                                                  *)

Applying(p) == proc[p].kind = "webhook" /\ proc[p].at # "record"
Marking(p, d) == proc[p].kind = "webhook" /\ proc[p].at = "mark" /\ proc[p].delivery = d

\* The row has been told of d: it is processed, or about to be marked so.
Told(d) ==
  /\ d \notin skipped
  /\ event[d] = "processed" \/ \E p \in Requests : Marking(p, d)

\* What a process that serves a webhook knows of its delivery.
Serves(p) ==
  /\ proc[p].kind = "webhook" =>
       /\ proc[p].at \in {"record", "ignore", "fetch", "row", "mark", "fail"}
       /\ proc[p].delivery \in Deliveries
       /\ sent[proc[p].delivery] # 0
  /\ Applying(p) => event[proc[p].delivery] # "none"
  /\ Applying(p) /\ proc[p].at \in {"fetch", "row"} => applied[proc[p].delivery] = 0
  /\ Applying(p) /\ proc[p].at = "row" => sent[proc[p].delivery] <= proc[p].item
  /\ proc[p].kind = "pull" => proc[p].at \notin {"record", "ignore", "mark", "fail"}
  /\ proc[p].at = "variations" => proc[p].item # 0

WebhookInv ==
  /\ \A d \in Deliveries :
       /\ sent[d] <= store
       /\ event[d] # "none" => sent[d] # 0
       /\ event[d] = "none" => applied[d] = 0
       /\ applied[d] <= 1
  /\ \A p \in Requests : Serves(p)
  /\ \A p, q \in Requests :
       Applying(p) /\ Applying(q) /\ proc[p].delivery = proc[q].delivery => p = q
  /\ \A p \in Requests : Holds(p) /\ ~proc[p].stale =>
       \A d \in Deliveries : Told(d) => sent[d] <= proc[p].item
  /\ ~crossed => \A d \in Deliveries : Told(d) => sent[d] <= row.core
\* A process that is replaced leaves the others alone.
LEMMA ReadBecomes ==
  ASSUME ReadTypeOK, NEW p \in Requests, NEW state \in Process,
         proc' = [proc EXCEPT ![p] = state]
  PROVE  /\ proc' \in [Requests -> Process]
         /\ proc'[p] = state
         /\ \A q \in Requests \ {p} : proc'[q] = proc[q]
BY DEF ReadTypeOK

LEMMA ReadBegins == ReadIdle \in Process
<1>1. 0 \in Versions
  BY VersionsAssumption DEF Versions
<1> QED BY <1>1 DEF ReadIdle, Process, Steps, Writing

\* The children stay as they are while nobody replaces them.
LEMMA ChildQuiet ==
  ASSUME ReadTypeOK, ChildInv, NEW p \in Requests, NEW state \in Process,
         proc' = [proc EXCEPT ![p] = state],
         proc[p].at \notin Writing, state.at \notin Writing,
         UNCHANGED <<row, links, images, variants, pulled>>,
         torn => torn'
  PROVE  ChildInv'
<1>1. /\ proc'[p] = state
      /\ \A q \in Requests \ {p} : proc'[q] = proc[q]
  BY ReadBecomes
<1>2. ~Replacing(p) /\ ~Replacing(p)'
  BY <1>1 DEF Replacing
<1>3. \A q \in Requests \ {p} : (Replacing(q)' <=> Replacing(q)) /\ (Replaced(q) => Replaced(q)')
  BY <1>1 DEF Replacing, Replaced, ImagesAre
<1>4. Matched => Matched'
  BY DEF Matched, ImagesAre
<1> QED BY <1>1, <1>2, <1>3, <1>4 DEF ChildInv

\* A replacement that nothing disturbed has the children to itself.
LEMMA ChildStep ==
  ASSUME ReadTypeOK, ChildInv, NEW p \in Requests, NEW state \in Process,
         proc' = [proc EXCEPT ![p] = state],
         proc[p].at \in Writing, state.at \in Writing,
         state.clean => proc[p].clean,
         state.clean => Replaced(p)'
  PROVE  ChildInv'
<1>1. /\ proc'[p] = state
      /\ \A q \in Requests \ {p} : proc'[q] = proc[q]
  BY ReadBecomes
<1>2. Replacing(p) /\ Replacing(p)'
  BY <1>1 DEF Replacing
<1>3. \A q \in Requests \ {p} : Replacing(q)' <=> Replacing(q)
  BY <1>1 DEF Replacing
<1>4. \A q \in Requests \ {p} : ~(Replacing(q) /\ proc[q].clean)
  BY <1>2 DEF ChildInv
<1>5. \A q \in Requests \ {p} : ~(Replacing(q)' /\ proc'[q].clean)
  BY <1>1, <1>3, <1>4
<1>6. \A o, q \in Requests : Replacing(o)' /\ Replacing(q)' /\ proc'[o].clean => o = q
  <2> SUFFICES ASSUME NEW o \in Requests, NEW q \in Requests,
                      Replacing(o)', Replacing(q)', proc'[o].clean
               PROVE  o = q
    OBVIOUS
  <2>1. o = p /\ proc[p].clean
    BY <1>1, <1>5
  <2>2. q = p \/ Replacing(q)
    BY <1>3
  <2> QED BY <2>1, <2>2, <1>2 DEF ChildInv
<1>7. \A q \in Requests : Replacing(q)' /\ proc'[q].clean => Replaced(q)'
  BY <1>1, <1>5
<1> QED BY <1>2, <1>6, <1>7 DEF ChildInv

\* A replacement that ends leaves nobody who is undisturbed.
LEMMA ChildEnds ==
  ASSUME ReadTypeOK, ChildInv, NEW p \in Requests, NEW state \in Process,
         proc' = [proc EXCEPT ![p] = state],
         proc[p].at \in Writing, state.at \notin Writing,
         torn' \/ (proc[p].clean /\ Matched')
  PROVE  ChildInv'
<1>1. /\ proc'[p] = state
      /\ \A q \in Requests \ {p} : proc'[q] = proc[q]
  BY ReadBecomes
<1>2. Replacing(p) /\ ~Replacing(p)'
  BY <1>1 DEF Replacing
<1>3. \A q \in Requests \ {p} : Replacing(q)' <=> Replacing(q)
  BY <1>1 DEF Replacing
<1>4. \A q \in Requests \ {p} : ~(Replacing(q) /\ proc[q].clean)
  BY <1>2 DEF ChildInv
<1>5. \A q \in Requests : ~(Replacing(q)' /\ proc'[q].clean)
  BY <1>1, <1>2, <1>3, <1>4
<1> QED BY <1>5 DEF ChildInv

\* Nothing that was done is undone by a process that pulls.
LEMMA PullQuiet ==
  ASSUME ReadTypeOK, WebhookInv, NEW p \in Requests, NEW state \in Process,
         proc' = [proc EXCEPT ![p] = state],
         state.kind = "pull", state.at \notin {"record", "ignore", "mark", "fail"},
         state.at = "variations" => state.item # 0,
         state.at \in {"row", "variations"} /\ ~state.stale =>
           state.item = store \/ (Holds(p) /\ ~proc[p].stale /\ state.item = proc[p].item),
         UNCHANGED <<sent, row, event, applied, skipped>>,
         crossed => crossed',
         store' \in Versions, store <= store'
  PROVE  WebhookInv'
<1>1. /\ proc' \in [Requests -> Process] /\ proc'[p] = state
      /\ \A q \in Requests \ {p} : proc'[q] = proc[q]
  BY ReadBecomes
<1>2. ~Applying(p)' /\ \A d : ~Marking(p, d)'
  BY <1>1 DEF Applying, Marking
<1>3. \A q \in Requests \ {p} : /\ Applying(q)' <=> Applying(q)
                                /\ Holds(q)' <=> Holds(q)
                                /\ \A d : Marking(q, d)' <=> Marking(q, d)
  BY <1>1 DEF Applying, Marking, Holds
<1>4. \A d \in Deliveries : Told(d)' => Told(d)
  BY <1>2, <1>3 DEF Told
<1>5. \A d \in Deliveries : sent[d] \in Int /\ sent[d] <= store /\ store \in Int /\ store' \in Int
  BY VersionsAssumption DEF WebhookInv, ReadTypeOK, Versions
<1>6. \A d \in Deliveries :
        /\ sent'[d] <= store'
        /\ event'[d] # "none" => sent'[d] # 0
        /\ event'[d] = "none" => applied'[d] = 0
        /\ applied'[d] <= 1
  BY <1>5 DEF WebhookInv
<1>7. \A q \in Requests : Serves(q)'
  <2>1. Serves(p)'
    BY <1>1, <1>2 DEF Serves
  <2>2. \A q \in Requests \ {p} : Serves(q) => Serves(q)'
    BY <1>1, <1>3 DEF Serves
  <2> QED BY <2>1, <2>2 DEF WebhookInv
<1>8. \A o, q \in Requests :
        Applying(o)' /\ Applying(q)' /\ proc'[o].delivery = proc'[q].delivery => o = q
  BY <1>1, <1>2, <1>3 DEF WebhookInv
<1>9. \A q \in Requests : Holds(q)' /\ ~proc'[q].stale =>
         \A d \in Deliveries : Told(d)' => sent'[d] <= proc'[q].item
  <2>1. CASE Holds(p)' /\ ~proc'[p].stale
    <3>1. state.item = store \/ (Holds(p) /\ ~proc[p].stale /\ state.item = proc[p].item)
      BY <1>1, <2>1 DEF Holds
    <3>2. \A d \in Deliveries : Told(d) => sent[d] <= state.item
      BY <1>5, <3>1 DEF WebhookInv
    <3> QED BY <1>1, <1>3, <1>4, <3>2 DEF WebhookInv
  <2>2. CASE ~(Holds(p)' /\ ~proc'[p].stale)
    BY <1>1, <1>3, <1>4, <2>2 DEF WebhookInv
  <2> QED BY <2>1, <2>2
<1>10. ~crossed' => \A d \in Deliveries : Told(d)' => sent'[d] <= row'.core
  BY <1>4 DEF WebhookInv
<1> QED BY <1>6, <1>7, <1>8, <1>9, <1>10 DEF WebhookInv

\* A step of a process that serves a webhook and does not write the row: what
\* was done stays done, and nobody else applies what it applies.
LEMMA WebhookStep ==
  ASSUME ReadTypeOK, WebhookInv, NEW p \in Requests, NEW state \in Process,
         proc' = [proc EXCEPT ![p] = state],
         UNCHANGED <<store, sent, row, applied>>,
         crossed => crossed',
         \A d \in Deliveries :
           /\ event'[d] # "none" => sent[d] # 0
           /\ event[d] # "none" => event'[d] # "none",
         \A d \in Deliveries : Told(d)' => Told(d),
         Serves(p)',
         Applying(p)' =>
           \/ Applying(p) /\ proc[p].delivery = state.delivery
           \/ \A q \in Requests \ {p} : Applying(q) => proc[q].delivery # state.delivery,
         Holds(p)' => state.item = store
  PROVE  WebhookInv'
<1>1. /\ proc' \in [Requests -> Process] /\ proc'[p] = state
      /\ \A q \in Requests \ {p} : proc'[q] = proc[q]
  BY ReadBecomes
<1>3. \A q \in Requests \ {p} : /\ Applying(q)' <=> Applying(q)
                                /\ Holds(q)' <=> Holds(q)
  BY <1>1 DEF Applying, Holds
<1>6. \A d \in Deliveries :
        /\ sent'[d] <= store'
        /\ event'[d] # "none" => sent'[d] # 0
        /\ event'[d] = "none" => applied'[d] = 0
        /\ applied'[d] <= 1
  BY DEF WebhookInv
<1>7. \A q \in Requests : Serves(q)'
  <2>1. ASSUME NEW q \in Requests \ {p} PROVE Serves(q)'
    <3>1. Serves(q) /\ (proc[q].kind = "webhook" => proc[q].delivery \in Deliveries)
      BY DEF WebhookInv, Serves
    <3> QED BY <1>1, <1>3, <3>1 DEF Serves, Applying
  <2> QED BY <2>1
<1>8. \A o, q \in Requests :
        Applying(o)' /\ Applying(q)' /\ proc'[o].delivery = proc'[q].delivery => o = q
  <2> SUFFICES ASSUME NEW o \in Requests, NEW q \in Requests, Applying(o)', Applying(q)',
                      proc'[o].delivery = proc'[q].delivery, o # q
               PROVE  FALSE
    OBVIOUS
  <2>1. CASE o = p
    BY <1>1, <1>3, <2>1 DEF WebhookInv
  <2>2. CASE q = p
    BY <1>1, <1>3, <2>2 DEF WebhookInv
  <2>3. CASE o # p /\ q # p
    BY <1>1, <1>3, <2>3 DEF WebhookInv
  <2> QED BY <2>1, <2>2, <2>3
<1>9. \A q \in Requests : Holds(q)' /\ ~proc'[q].stale =>
         \A d \in Deliveries : Told(d)' => sent'[d] <= proc'[q].item
  BY <1>1, <1>3 DEF WebhookInv
<1>10. ~crossed' => \A d \in Deliveries : Told(d)' => sent'[d] <= row'.core
  BY DEF WebhookInv
<1> QED BY <1>6, <1>7, <1>8, <1>9, <1>10 DEF WebhookInv

\* Who writes the row outdates every copy, and disturbs the replacements there
\* are when one is to follow.
LEMMA WrittenRow ==
  ASSUME ReadTypeOK, NEW p \in Requests, NEW next \in {"unlink", "mark"}, RowWritten(p, next)
  PROVE  /\ proc' \in [Requests -> Process]
         /\ proc'[p].at = next /\ proc'[p].kind = proc[p].kind
         /\ proc'[p].item = proc[p].item /\ proc'[p].delivery = proc[p].delivery
         /\ next = "unlink" /\ proc'[p].clean => \A o \in Requests : proc[o].at \notin Writing
         /\ \A q \in Requests \ {p} :
              /\ proc'[q].at = proc[q].at /\ proc'[q].kind = proc[q].kind
              /\ proc'[q].item = proc[q].item /\ proc'[q].vars = proc[q].vars
              /\ proc'[q].left = proc[q].left /\ proc'[q].delivery = proc[q].delivery
              /\ Holds(q) => proc'[q].stale
              /\ proc'[q].clean => proc[q].clean /\ (next = "mark" \/ proc[q].at \notin Writing)
<1> DEFINE mine == [proc[p] EXCEPT !.at = next, !.stale = FALSE,
                      !.clean = next = "mark" \/ \A o \in Requests : proc[o].at \notin Writing]
           other(q) == [proc[q] EXCEPT !.stale = @ \/ Holds(q),
                          !.clean = @ /\ (next = "mark" \/ proc[q].at \notin Writing)]
<1>1. proc' = [q \in Requests |-> IF q = p THEN mine ELSE other(q)]
  BY DEF RowWritten
<1>2. next \in Steps
  BY DEF Steps, Writing
<1>3. \A q \in Requests : proc[q] \in Process
  BY DEF ReadTypeOK
<1>4. mine \in Process
  BY <1>2, <1>3 DEF Process
<1>5. \A q \in Requests : other(q) \in Process
  <2> SUFFICES ASSUME NEW q \in Requests PROVE other(q) \in Process
    OBVIOUS
  <2>1. proc[q] \in Process
    BY <1>3
  <2>2. (proc[q].stale \/ Holds(q)) \in BOOLEAN
    BY <2>1 DEF Process, Holds
  <2>3. (proc[q].clean /\ (next = "mark" \/ proc[q].at \notin Writing)) \in BOOLEAN
    BY <2>1 DEF Process
  <2> QED BY <2>1, <2>2, <2>3 DEF Process
<1>6. proc' \in [Requests -> Process]
  BY <1>1, <1>4, <1>5
<1>7. /\ proc'[p].at = next /\ proc'[p].kind = proc[p].kind
      /\ proc'[p].item = proc[p].item /\ proc'[p].delivery = proc[p].delivery
      /\ next = "unlink" /\ proc'[p].clean => \A o \in Requests : proc[o].at \notin Writing
  <2>1. proc'[p] = mine
    BY <1>1
  <2> QED BY <2>1, <1>3 DEF Process
<1>8. ASSUME NEW q \in Requests \ {p}
      PROVE  /\ proc'[q].at = proc[q].at /\ proc'[q].kind = proc[q].kind
             /\ proc'[q].item = proc[q].item /\ proc'[q].vars = proc[q].vars
             /\ proc'[q].left = proc[q].left /\ proc'[q].delivery = proc[q].delivery
             /\ Holds(q) => proc'[q].stale
             /\ proc'[q].clean => proc[q].clean /\ (next = "mark" \/ proc[q].at \notin Writing)
  <2>1. proc'[q] = other(q)
    BY <1>1
  <2> QED BY <2>1, <1>3 DEF Process
<1> QED BY <1>6, <1>7, <1>8

ReadInv == ReadTypeOK /\ ChildInv /\ WebhookInv

LEMMA ReadFacts ==
  ASSUME ReadTypeOK, WebhookInv, NEW p \in Requests
  PROVE  /\ proc[p] \in Process
         /\ 0 \in Versions /\ store \in Versions
         /\ \A v \in Versions : v \in Nat
         /\ proc[p].at \in Writing \cup {"idle", "taxonomy", "variations"} => proc[p].kind = "pull"
         /\ proc[p].at \in {"record", "ignore", "mark", "fail"} => proc[p].kind = "webhook"
<1>1. proc[p] \in Process
  BY DEF ReadTypeOK
<1>2. 0 \in Versions /\ \A v \in Versions : v \in Nat
  BY VersionsAssumption DEF Versions
<1>3. Serves(p) /\ proc[p].kind \in {"pull", "webhook"}
  BY <1>1 DEF WebhookInv, Process
<1>4. proc[p].at \in Writing \cup {"idle", "taxonomy", "variations"} =>
        proc[p].at \notin {"record", "ignore", "fetch", "row", "mark", "fail"}
  BY DEF Writing
<1> QED BY <1>1, <1>2, <1>3, <1>4 DEF ReadTypeOK, Serves

\* Pulls up to the row.
LEMMA PullBegins ==
  ASSUME ReadInv, NEW p \in Requests,
         \/ BeginSync(p) \/ Taxonomy(p) \/ WriteProduct(p) \/ BeginIngest(p)
         \/ Fetch(p) \/ FetchVariations(p)
  PROVE  ReadInv'
<1>0. ReadTypeOK /\ ChildInv /\ WebhookInv
  BY DEF ReadInv
<1>1. /\ proc[p] \in Process /\ store \in Versions /\ 0 \in Versions
      /\ ReadIdle \in Process
      /\ proc[p].at \in {"idle", "taxonomy", "variations"} => proc[p].kind = "pull"
  BY <1>0, ReadFacts, ReadBegins
<1>2. proc[p].at \notin Writing
  BY DEF BeginSync, Taxonomy, WriteProduct, BeginIngest, Fetch, FetchVariations, Start, Writing
<1>3. ASSUME NEW state \in Process, proc' = [proc EXCEPT ![p] = state],
             state.kind = "pull", state.at \notin Writing,
             state.at \notin {"record", "ignore", "mark", "fail"},
             state.at = "variations" => state.item # 0,
             state.at \in {"row", "variations"} /\ ~state.stale =>
               state.item = store \/ (Holds(p) /\ ~proc[p].stale /\ state.item = proc[p].item),
             UNCHANGED <<sent, row, links, images, variants, event, history>>,
             known' \in SUBSET Categories, store' \in Versions, store <= store',
             work' \in 0 .. MaxWork
      PROVE  ReadInv'
  <2>1. proc' \in [Requests -> Process]
    BY <1>0, <1>3, ReadBecomes
  <2>2. ReadTypeOK'
    BY <1>0, <1>3, <2>1 DEF ReadTypeOK, history
  <2>3. ChildInv'
    BY <1>0, <1>2, <1>3, ChildQuiet DEF history
  <2>4. WebhookInv'
    BY <1>0, <1>3, PullQuiet DEF history
  <2> QED BY <2>2, <2>3, <2>4 DEF ReadInv
<1>4. /\ work \in 0 .. MaxWork /\ known \in SUBSET Categories /\ MaxWork \in Nat
      /\ store \in Nat /\ store <= store
      /\ MaxVersion \in Nat
  BY <1>0, VersionsAssumption, WorkAssumption DEF ReadTypeOK, Versions
<1>5. work < MaxWork => work + 1 \in 0 .. MaxWork
  BY <1>4
<1>6. /\ ReadIdle.kind = "pull" /\ ReadIdle.at = "idle"
      /\ "idle" \notin Writing /\ "taxonomy" \notin Writing /\ "fetch" \notin Writing
      /\ "variations" \notin Writing /\ "row" \notin Writing
  BY DEF ReadIdle, Writing
<1>7. CASE BeginSync(p)
  <2> DEFINE state == [ReadIdle EXCEPT !.at = "taxonomy"]
  <2>1. /\ state \in Process /\ state.kind = "pull" /\ state.at = "taxonomy"
    BY <1>1, <1>6 DEF Process, Steps
  <2>2. /\ proc' = [proc EXCEPT ![p] = state]
        /\ UNCHANGED <<sent, row, links, images, variants, event, history>>
        /\ store' = store /\ known' = known /\ work' \in 0 .. MaxWork
    BY <1>5, <1>7 DEF BeginSync, Start, tables
  <2> QED BY <1>1, <1>3, <1>4, <1>6, <2>1, <2>2
<1>8. CASE Taxonomy(p)
  <2> DEFINE state == [proc[p] EXCEPT !.at = "fetch"]
  <2>1. /\ state \in Process /\ state.kind = "pull" /\ state.at = "fetch"
    BY <1>1, <1>8 DEF Taxonomy, Process, Steps
  <2>2. /\ proc' = [proc EXCEPT ![p] = state]
        /\ UNCHANGED <<sent, row, links, images, variants, event, history>>
        /\ store' = store /\ work' = work
    BY <1>8 DEF Taxonomy, Goto
  <2>3. known' \in SUBSET Categories
    <3>1. PICK listed \in SUBSET Categories : known' = known \cup listed
      BY <1>8 DEF Taxonomy
    <3> QED BY <1>4, <3>1
  <2> QED BY <1>1, <1>3, <1>4, <1>6, <2>1, <2>2, <2>3
<1>9. CASE WriteProduct(p)
  <2> DEFINE state == [ReadIdle EXCEPT !.at = "fetch"]
  <2>1. /\ state \in Process /\ state.kind = "pull" /\ state.at = "fetch"
    BY <1>1, <1>6 DEF Process, Steps
  <2>2. /\ proc' = [proc EXCEPT ![p] = state]
        /\ UNCHANGED <<sent, row, links, images, variants, event, history>>
        /\ store' = store + 1 /\ store < MaxVersion /\ known' = known /\ work' \in 0 .. MaxWork
    BY <1>5, <1>9 DEF WriteProduct, Start, tables
  <2>3. store' \in Versions /\ store <= store'
    BY <1>4, <2>2 DEF Versions
  <2> QED BY <1>3, <1>4, <1>6, <2>1, <2>2, <2>3
<1>10. CASE BeginIngest(p)
  <2> DEFINE state == [ReadIdle EXCEPT !.at = "row", !.item = store, !.vars = store]
  <2>1. /\ state \in Process /\ state.kind = "pull" /\ state.at = "row" /\ state.item = store
    BY <1>1, <1>6 DEF Process, Steps, ReadIdle
  <2>2. /\ proc' = [proc EXCEPT ![p] = state]
        /\ UNCHANGED <<sent, row, links, images, variants, event, history>>
        /\ store' = store /\ known' = known /\ work' \in 0 .. MaxWork
    BY <1>5, <1>10 DEF BeginIngest, Start, tables
  <2> QED BY <1>1, <1>3, <1>4, <1>6, <2>1, <2>2
<1>11. ASSUME Fetch(p) \/ FetchVariations(p), End(p) PROVE ReadInv'
  <2>1. /\ proc' = [proc EXCEPT ![p] = ReadIdle]
        /\ UNCHANGED <<sent, row, links, images, variants, event, history>>
        /\ store' = store /\ known' = known /\ work' = work
    BY <1>11 DEF Fetch, FetchVariations, End, tables
  <2> QED BY <1>1, <1>3, <1>4, <1>6, <2>1
<1>12. ASSUME Fetch(p), ~End(p) PROVE ReadInv'
  <2> DEFINE state == [proc[p] EXCEPT !.at = "variations", !.item = store]
  <2>1. /\ state \in Process /\ state.kind = "pull" /\ state.at = "variations"
        /\ state.item = store
    BY <1>1, <1>12 DEF Fetch, Process, Steps
  <2>2. /\ store # 0 /\ proc' = [proc EXCEPT ![p] = state]
        /\ UNCHANGED <<sent, row, links, images, variants, event, history>>
        /\ store' = store /\ known' = known /\ work' = work
    BY <1>12 DEF Fetch, tables
  <2> QED BY <1>1, <1>3, <1>4, <1>6, <2>1, <2>2
<1>13. ASSUME FetchVariations(p), ~End(p) PROVE ReadInv'
  <2> DEFINE state == [proc[p] EXCEPT !.at = "row", !.vars = store]
  <2>1. /\ state \in Process /\ state.kind = "pull" /\ state.at = "row"
        /\ state.item = proc[p].item /\ state.stale = proc[p].stale
    BY <1>1, <1>13 DEF FetchVariations, Process, Steps
  <2>2. /\ proc' = [proc EXCEPT ![p] = state]
        /\ UNCHANGED <<sent, row, links, images, variants, event, history>>
        /\ store' = store /\ known' = known /\ work' = work
    BY <1>13 DEF FetchVariations, tables
  <2>3. Holds(p)
    BY <1>0, <1>13 DEF FetchVariations, WebhookInv, Serves, Holds
  <2> QED BY <1>1, <1>3, <1>4, <1>6, <2>1, <2>2, <2>3
<1> QED BY <1>7, <1>8, <1>9, <1>10, <1>11, <1>12, <1>13

\* Pulls that replace the children.
LEMMA PullReplaces ==
  ASSUME ReadInv, NEW p \in Requests,
         \/ DeleteLinks(p) \/ InsertLink(p) \/ DeleteImages(p) \/ InsertImage(p)
         \/ ImagesDone(p) \/ UpsertVariation(p) \/ PullDone(p)
  PROVE  ReadInv'
<1>0. ReadTypeOK /\ ChildInv /\ WebhookInv
  BY DEF ReadInv
<1>2. proc[p].at \in Writing
  BY DEF DeleteLinks, InsertLink, DeleteImages, InsertImage, ImagesDone, UpsertVariation,
         PullDone, Writing
<1>1. /\ proc[p] \in Process /\ store \in Versions /\ 0 \in Versions
      /\ ReadIdle \in Process /\ proc[p].kind = "pull"
      /\ proc[p].item \in Versions /\ proc[p].vars \in Versions
      /\ proc[p].left \subseteq Categories \cup Images \cup Variations
      /\ store <= store
  <2>1. /\ proc[p] \in Process /\ store \in Versions /\ 0 \in Versions /\ store \in Nat
        /\ ReadIdle \in Process /\ proc[p].kind = "pull"
    BY <1>0, <1>2, ReadFacts, ReadBegins
  <2> QED BY <2>1 DEF Process
<1>i. /\ links \subseteq Categories /\ images \in [Images -> Nat]
      /\ variants \in [Variations -> Versions] /\ row.deep \in Versions
  BY <1>0 DEF ReadTypeOK
<1>v. /\ CategoriesOf \in [Versions -> SUBSET Categories]
      /\ ImagesOf \in [Versions -> SUBSET Images]
      /\ VariationsOf \in [Versions -> SUBSET Variations]
  BY VersionsAssumption
<1>r. proc[p].clean => Replaced(p)
  BY <1>0, <1>2 DEF ChildInv, Replacing
<1>3. ASSUME NEW state \in Process, proc' = [proc EXCEPT ![p] = state],
             state.kind = "pull", state.at \in Writing,
             state.clean => proc[p].clean, state.clean => Replaced(p)',
             UNCHANGED <<store, sent, known, row, event, history, work>>,
             links' \in SUBSET Categories, images' \in [Images -> Nat],
             variants' \in [Variations -> Versions]
      PROVE  ReadInv'
  <2>1. proc' \in [Requests -> Process]
    BY <1>0, <1>3, ReadBecomes
  <2>2. ReadTypeOK'
    BY <1>0, <1>3, <2>1 DEF ReadTypeOK, history
  <2>3. ChildInv'
    BY <1>0, <1>2, <1>3, ChildStep
  <2>4. state.at \notin {"record", "ignore", "mark", "fail", "row", "variations"}
    BY <1>3 DEF Writing
  <2>5. WebhookInv'
    BY <1>0, <1>1, <1>3, <2>4, PullQuiet DEF history
  <2> QED BY <2>2, <2>3, <2>5 DEF ReadInv
<1>b. ASSUME NEW state \in Process, proc' = [proc EXCEPT ![p] = state] PROVE proc'[p] = state
  BY <1>0, <1>b, ReadBecomes
<1>4. CASE DeleteLinks(p)
  <2> DEFINE state == [proc[p] EXCEPT !.at = "link", !.left = CategoriesOf[proc[p].item]]
  <2>1. /\ state \in Process /\ state.kind = "pull" /\ state.at = "link"
        /\ state.item = proc[p].item /\ state.left = CategoriesOf[proc[p].item]
        /\ state.clean = proc[p].clean
    BY <1>1, <1>v DEF Process, Steps, Writing
  <2>2. /\ proc' = [proc EXCEPT ![p] = state] /\ links' = {} /\ proc[p].at = "unlink"
        /\ UNCHANGED <<store, sent, known, row, images, variants, event, history, work>>
    BY <1>4 DEF DeleteLinks
  <2>3. state.clean => Replaced(p)'
    BY <1>b, <1>r, <2>1, <2>2 DEF Replaced
  <2> QED BY <1>i, <1>3, <2>1, <2>2, <2>3 DEF Writing
<1>5. CASE InsertLink(p)
  <2>1. PICK c \in proc[p].left :
          /\ links' = links \cup ({c} \cap known)
          /\ proc' = [proc EXCEPT ![p].left = @ \ {c}, ![p].clean = @ /\ c \in known]
    BY <1>5 DEF InsertLink
  <2> DEFINE state == [proc[p] EXCEPT !.left = @ \ {c}, !.clean = @ /\ c \in known]
  <2>2. /\ proc[p].at = "link"
        /\ UNCHANGED <<store, sent, known, row, images, variants, event, history, work>>
    BY <1>5 DEF InsertLink
  <2>3. /\ state \in Process /\ state.kind = "pull" /\ state.at = "link"
        /\ state.item = proc[p].item /\ state.left = proc[p].left \ {c}
        /\ state.clean => proc[p].clean /\ c \in known
    BY <1>1, <2>2 DEF Process
  <2>4. proc' = [proc EXCEPT ![p] = state]
    BY <2>1
  <2>5. state.clean => Replaced(p)'
    <3>1. proc'[p] = state
      BY <1>b, <2>3, <2>4
    <3>2. ASSUME state.clean
          PROVE  /\ row.deep = proc[p].item /\ proc[p].left \subseteq CategoriesOf[row.deep]
                 /\ links = CategoriesOf[row.deep] \ proc[p].left
                 /\ links' = links \cup {c}
      BY <1>r, <2>1, <2>2, <2>3, <3>2 DEF Replaced
    <3> QED BY <2>2, <2>3, <3>1, <3>2 DEF Replaced
  <2>6. links' \in SUBSET Categories
    BY <1>0, <1>i, <2>1 DEF ReadTypeOK
  <2> QED BY <1>i, <1>3, <2>2, <2>3, <2>4, <2>5, <2>6 DEF Writing
<1>6. CASE DeleteImages(p)
  <2> DEFINE state == [proc[p] EXCEPT !.at = "image", !.left = ImagesOf[proc[p].item], !.item = 0]
  <2>1. /\ state \in Process /\ state.kind = "pull" /\ state.at = "image"
        /\ state.left = ImagesOf[proc[p].item] /\ state.clean = proc[p].clean
    BY <1>1, <1>v DEF Process, Steps, Writing
  <2>2. /\ proc' = [proc EXCEPT ![p] = state] /\ proc[p].at = "link" /\ proc[p].left = {}
        /\ images' = [i \in Images |-> 0]
        /\ UNCHANGED <<store, sent, known, row, links, variants, event, history, work>>
    BY <1>6 DEF DeleteImages
  <2>3. state.clean => Replaced(p)'
    BY <1>b, <1>r, <2>1, <2>2 DEF Replaced, ImagesAre
  <2> QED BY <1>i, <1>3, <2>1, <2>2, <2>3 DEF Writing
<1>7. CASE InsertImage(p)
  <2>1. PICK i \in proc[p].left :
          /\ images' = [images EXCEPT ![i] = @ + 1]
          /\ proc' = [proc EXCEPT ![p].left = @ \ {i}]
    BY <1>7 DEF InsertImage
  <2> DEFINE state == [proc[p] EXCEPT !.left = @ \ {i}]
  <2>2. /\ proc[p].at = "image"
        /\ UNCHANGED <<store, sent, known, row, links, variants, event, history, work>>
    BY <1>7 DEF InsertImage
  <2>3. /\ state \in Process /\ state.kind = "pull" /\ state.at = "image"
        /\ state.left = proc[p].left \ {i} /\ state.clean = proc[p].clean
    BY <1>1, <2>2 DEF Process
  <2>4. proc' = [proc EXCEPT ![p] = state]
    BY <2>1
  <2>5. images' \in [Images -> Nat]
    <3>1. images' = [j \in Images |-> IF j = i THEN images[j] + 1 ELSE images[j]]
      BY <1>i, <2>1
    <3>2. \A j \in Images : images[j] \in Nat /\ images[j] + 1 \in Nat
      BY <1>i
    <3> QED BY <3>1, <3>2
  <2>6. state.clean => Replaced(p)'
    <3> SUFFICES ASSUME state.clean PROVE Replaced(p)'
      OBVIOUS
    <3>1. proc'[p] = state
      BY <1>b, <2>3, <2>4
    <3>2. /\ links = CategoriesOf[row.deep]
          /\ proc[p].left \subseteq ImagesOf[row.deep]
          /\ ImagesAre(ImagesOf[row.deep] \ proc[p].left)
      BY <1>r, <2>2, <2>3 DEF Replaced
    <3>3. i \in Images /\ i \in ImagesOf[row.deep]
      BY <1>i, <1>v, <3>2
    <3>4. images[i] = 0
      BY <3>2, <3>3 DEF ImagesAre
    <3>5. ASSUME NEW j \in Images
          PROVE  images'[j] = IF j \in ImagesOf[row.deep] \ (proc[p].left \ {i}) THEN 1 ELSE 0
      BY <1>i, <2>1, <3>2, <3>3, <3>4 DEF ImagesAre
    <3>6. ImagesAre(ImagesOf[row.deep] \ state.left)'
      BY <2>2, <2>3, <3>1, <3>5 DEF ImagesAre
    <3> QED BY <2>2, <2>3, <3>1, <3>2, <3>6 DEF Replaced
  <2> QED BY <1>i, <1>3, <2>2, <2>3, <2>4, <2>5, <2>6 DEF Writing
<1>8. CASE ImagesDone(p)
  <2> DEFINE state == [proc[p] EXCEPT !.at = "variant", !.left = VariationsOf[proc[p].vars]]
  <2>1. /\ state \in Process /\ state.kind = "pull" /\ state.at = "variant"
        /\ state.left = VariationsOf[proc[p].vars] /\ state.vars = proc[p].vars
        /\ state.clean = proc[p].clean
    BY <1>1, <1>v DEF Process, Steps, Writing
  <2>2. /\ proc' = [proc EXCEPT ![p] = state] /\ proc[p].at = "image" /\ proc[p].left = {}
        /\ UNCHANGED <<store, sent, known, row, links, images, variants, event, history, work>>
    BY <1>8 DEF ImagesDone, tables
  <2>3. state.clean => Replaced(p)'
    BY <1>b, <1>r, <2>1, <2>2 DEF Replaced, ImagesAre
  <2> QED BY <1>i, <1>3, <2>1, <2>2, <2>3 DEF Writing
<1>9. CASE UpsertVariation(p)
  <2>1. PICK x \in proc[p].left :
          /\ variants' = [variants EXCEPT ![x] = proc[p].vars]
          /\ proc' = [proc EXCEPT ![p].left = @ \ {x}]
    BY <1>9 DEF UpsertVariation
  <2> DEFINE state == [proc[p] EXCEPT !.left = @ \ {x}]
  <2>2. /\ proc[p].at = "variant"
        /\ UNCHANGED <<store, sent, known, row, links, images, event, history, work>>
    BY <1>9 DEF UpsertVariation
  <2>3. /\ state \in Process /\ state.kind = "pull" /\ state.at = "variant"
        /\ state.left = proc[p].left \ {x} /\ state.vars = proc[p].vars
        /\ state.clean = proc[p].clean
    BY <1>1, <2>2 DEF Process
  <2>4. proc' = [proc EXCEPT ![p] = state]
    BY <2>1
  <2>5. variants' \in [Variations -> Versions]
    BY <1>1, <1>i, <2>1
  <2>6. state.clean => Replaced(p)'
    <3> SUFFICES ASSUME state.clean PROVE Replaced(p)'
      OBVIOUS
    <3>1. proc'[p] = state
      BY <1>b, <2>3, <2>4
    <3>2. /\ links = CategoriesOf[row.deep]
          /\ ImagesAre(ImagesOf[row.deep])
          /\ \A y \in VariationsOf[proc[p].vars] \ proc[p].left : variants[y] = proc[p].vars
      BY <1>r, <2>2, <2>3 DEF Replaced
    <3>3. \A y \in VariationsOf[proc[p].vars] : y \in Variations
      BY <1>1, <1>v
    <3>4. \A y \in VariationsOf[state.vars] \ state.left : variants'[y] = state.vars
      BY <1>i, <2>1, <2>3, <3>2, <3>3
    <3>5. ImagesAre(ImagesOf[row.deep])'
      BY <2>2, <3>2 DEF ImagesAre
    <3> QED BY <2>2, <2>3, <3>1, <3>2, <3>4, <3>5 DEF Replaced
  <2> QED BY <1>i, <1>3, <2>2, <2>3, <2>4, <2>5, <2>6 DEF Writing
<1>10. CASE PullDone(p)
  <2>1. /\ proc' = [proc EXCEPT ![p] = ReadIdle] /\ proc[p].at = "variant"
        /\ proc[p].left = {} /\ pulled' = proc[p].vars
        /\ UNCHANGED <<store, sent, known, row, links, images, variants, event, applied,
                       skipped, crossed, work>>
    BY <1>10 DEF PullDone, End, tables
  <2>2. /\ ReadIdle.kind = "pull" /\ ReadIdle.at = "idle" /\ "idle" \notin Writing
    BY DEF ReadIdle, Writing
  <2>3. torn' = ~proc[p].clean /\ torn' \in BOOLEAN
    BY <1>10, <1>1 DEF PullDone
  <2>4. proc' \in [Requests -> Process]
    BY <1>0, <1>1, <2>1, ReadBecomes
  <2>5. ReadTypeOK'
    BY <1>0, <1>1, <2>1, <2>3, <2>4 DEF ReadTypeOK
  <2>6. proc[p].clean => Matched'
    BY <1>r, <2>1 DEF Replaced, Matched, ImagesAre
  <2>7. torn' \/ (proc[p].clean /\ Matched')
    BY <2>3, <2>6
  <2>8. ChildInv'
    BY <1>0, <1>1, <1>2, <2>1, <2>2, <2>7, ChildEnds
  <2>9. WebhookInv'
    BY <1>0, <1>1, <2>1, <2>2, PullQuiet
  <2> QED BY <2>5, <2>8, <2>9 DEF ReadInv
<1> QED BY <1>4, <1>5, <1>6, <1>7, <1>8, <1>9, <1>10

\* A full write of the row.
LEMMA PullWrites == ASSUME ReadInv, NEW p \in Requests, WriteRow(p) PROVE ReadInv'
<1>0. ReadTypeOK /\ ChildInv /\ WebhookInv
  BY DEF ReadInv
<1>1. /\ proc[p].at = "row" /\ proc[p].kind = "pull"
      /\ row' = [core |-> proc[p].item, deep |-> proc[p].item]
      /\ crossed' = proc[p].stale
      /\ RowWritten(p, "unlink")
      /\ UNCHANGED <<store, sent, known, links, images, variants, event, applied, skipped,
                     torn, pulled, work>>
  BY DEF WriteRow
<1>2. /\ proc' \in [Requests -> Process]
      /\ proc'[p].at = "unlink" /\ proc'[p].kind = "pull" /\ proc'[p].item = proc[p].item
      /\ proc'[p].clean => \A o \in Requests : proc[o].at \notin Writing
      /\ \A q \in Requests \ {p} :
           /\ proc'[q].at = proc[q].at /\ proc'[q].kind = proc[q].kind
           /\ proc'[q].item = proc[q].item /\ proc'[q].delivery = proc[q].delivery
           /\ Holds(q) => proc'[q].stale
           /\ proc'[q].clean => proc[q].at \notin Writing
  BY <1>0, <1>1, WrittenRow
<1>3. proc[p] \in Process /\ proc[p].item \in Versions /\ proc[p].stale \in BOOLEAN
  BY <1>0 DEF ReadTypeOK, Process
<1>4. ReadTypeOK'
  BY <1>0, <1>1, <1>2, <1>3 DEF ReadTypeOK
<1>5. ChildInv'
  <2>1. Replacing(p)'
    BY <1>2 DEF Replacing, Writing
  <2>2. \A q \in Requests \ {p} : /\ Replacing(q)' <=> Replacing(q)
                                  /\ ~(Replacing(q)' /\ proc'[q].clean)
    BY <1>2 DEF Replacing
  <2>3. \A o, q \in Requests : Replacing(o)' /\ Replacing(q)' /\ proc'[o].clean => o = q
    BY <1>2, <2>2 DEF Replacing
  <2>4. Replaced(p)'
    BY <1>1, <1>2 DEF Replaced
  <2> QED BY <2>1, <2>2, <2>3, <2>4 DEF ChildInv
<1>6. WebhookInv'
  <2>1. /\ ~Applying(p) /\ ~Applying(p)' /\ ~Holds(p)' /\ Holds(p)
        /\ \A d : ~Marking(p, d) /\ ~Marking(p, d)'
    BY <1>1, <1>2 DEF Applying, Marking, Holds
  <2>2. \A q \in Requests \ {p} : /\ Applying(q)' <=> Applying(q)
                                  /\ Holds(q)' <=> Holds(q)
                                  /\ \A d : Marking(q, d)' <=> Marking(q, d)
    BY <1>2 DEF Applying, Marking, Holds
  <2>3. \A d \in Deliveries : Told(d)' => Told(d)
    BY <1>1, <2>1, <2>2 DEF Told
  <2>4. \A d \in Deliveries :
          /\ sent'[d] <= store'
          /\ event'[d] # "none" => sent'[d] # 0
          /\ event'[d] = "none" => applied'[d] = 0
          /\ applied'[d] <= 1
    BY <1>0, <1>1 DEF WebhookInv
  <2>5. \A q \in Requests : Serves(q)'
    <3>1. Serves(p)'
      BY <1>2, <2>1 DEF Serves
    <3>2. \A q \in Requests \ {p} : Serves(q) => Serves(q)'
      BY <1>1, <1>2, <2>2 DEF Serves
    <3> QED BY <1>0, <3>1, <3>2 DEF WebhookInv
  <2>6. \A o, q \in Requests :
          Applying(o)' /\ Applying(q)' /\ proc'[o].delivery = proc'[q].delivery => o = q
    BY <1>0, <1>2, <2>1, <2>2 DEF WebhookInv
  <2>7. \A q \in Requests : ~(Holds(q)' /\ ~proc'[q].stale)
    BY <1>2, <2>1, <2>2
  <2>8. ~crossed' => \A d \in Deliveries : Told(d)' => sent'[d] <= row'.core
    BY <1>0, <1>1, <2>1, <2>3 DEF WebhookInv
  <2> QED BY <2>4, <2>5, <2>6, <2>7, <2>8 DEF WebhookInv
<1> QED BY <1>4, <1>5, <1>6 DEF ReadInv

\* A webhook's write of the row.
LEMMA WebhookWrites == ASSUME ReadInv, NEW p \in Requests, WebhookRow(p) PROVE ReadInv'
<1>0. ReadTypeOK /\ ChildInv /\ WebhookInv
  BY DEF ReadInv
<1> DEFINE mine == proc[p].delivery
<1>1. /\ proc[p].at = "row" /\ proc[p].kind = "webhook"
      /\ row' = [row EXCEPT !.core = proc[p].item]
      /\ applied' = [applied EXCEPT ![mine] = applied[mine] + 1]
      /\ crossed' = proc[p].stale
      /\ RowWritten(p, "mark")
      /\ UNCHANGED <<store, sent, known, links, images, variants, event, skipped, torn,
                     pulled, work>>
  BY DEF WebhookRow
<1>2. /\ proc' \in [Requests -> Process]
      /\ proc'[p].at = "mark" /\ proc'[p].kind = "webhook" /\ proc'[p].delivery = mine
      /\ \A q \in Requests \ {p} :
           /\ proc'[q].at = proc[q].at /\ proc'[q].kind = proc[q].kind
           /\ proc'[q].item = proc[q].item /\ proc'[q].vars = proc[q].vars
           /\ proc'[q].left = proc[q].left /\ proc'[q].delivery = proc[q].delivery
           /\ Holds(q) => proc'[q].stale
           /\ proc'[q].clean => proc[q].clean
  BY <1>0, <1>1, WrittenRow
<1>3. proc[p] \in Process /\ proc[p].item \in Versions /\ proc[p].stale \in BOOLEAN
  BY <1>0 DEF ReadTypeOK, Process
<1>s. /\ Applying(p) /\ Holds(p) /\ mine \in Deliveries /\ sent[mine] # 0
      /\ event[mine] # "none" /\ applied[mine] = 0 /\ sent[mine] <= proc[p].item
  BY <1>0, <1>1 DEF WebhookInv, Serves, Applying, Holds
<1>a. /\ applied \in [Deliveries -> Nat]
      /\ applied' \in [Deliveries -> Nat] /\ applied'[mine] = 1
      /\ \A d \in Deliveries \ {mine} : applied'[d] = applied[d]
  BY <1>0, <1>1, <1>s DEF ReadTypeOK
<1>4. ReadTypeOK'
  <2>1. row' \in [core : Versions, deep : Versions]
    BY <1>0, <1>1, <1>3 DEF ReadTypeOK
  <2> QED BY <1>0, <1>1, <1>2, <1>3, <1>a, <2>1 DEF ReadTypeOK
<1>5. ChildInv'
  <2>1. ~Replacing(p) /\ ~Replacing(p)'
    BY <1>1, <1>2 DEF Replacing, Writing
  <2>2. row'.deep = row.deep
    BY <1>0, <1>1 DEF ReadTypeOK
  <2>3. \A q \in Requests \ {p} : (Replacing(q)' <=> Replacing(q)) /\ (Replaced(q) => Replaced(q)')
    BY <1>1, <1>2, <2>2 DEF Replacing, Replaced, ImagesAre
  <2>4. Matched => Matched'
    BY <1>1, <2>2 DEF Matched, ImagesAre
  <2>5. torn => torn'
    BY <1>1
  <2> QED BY <1>0, <1>2, <2>1, <2>3, <2>4, <2>5 DEF ChildInv
<1>6. WebhookInv'
  <2>1. Applying(p)' /\ ~Holds(p)' /\ \A d \in Deliveries \ {mine} : ~Marking(p, d)'
    BY <1>2 DEF Applying, Marking, Holds
  <2>2. \A q \in Requests \ {p} : /\ Applying(q)' <=> Applying(q)
                                  /\ Holds(q)' <=> Holds(q)
                                  /\ \A d : Marking(q, d)' <=> Marking(q, d)
    BY <1>2 DEF Applying, Marking, Holds
  <2>3. \A d \in Deliveries \ {mine} : Told(d)' => Told(d)
    BY <1>1, <2>1, <2>2 DEF Told
  <2>4. \A d \in Deliveries :
          /\ sent'[d] <= store'
          /\ event'[d] # "none" => sent'[d] # 0
          /\ event'[d] = "none" => applied'[d] = 0
          /\ applied'[d] <= 1
    BY <1>0, <1>1, <1>s, <1>a DEF WebhookInv
  <2>5. \A q \in Requests : Serves(q)'
    <3>1. Serves(p)'
      BY <1>1, <1>2, <1>s DEF Serves, Applying
    <3>2. ASSUME NEW q \in Requests \ {p} PROVE Serves(q)'
      <4>1. Serves(q) /\ (Applying(q) => proc[q].delivery \in Deliveries \ {mine})
        BY <1>0, <1>s DEF WebhookInv, Serves, Applying
      <4> QED BY <1>1, <1>2, <1>a, <2>2, <4>1 DEF Serves, Applying
    <3> QED BY <3>1, <3>2
  <2>6. \A o, q \in Requests :
          Applying(o)' /\ Applying(q)' /\ proc'[o].delivery = proc'[q].delivery => o = q
    BY <1>0, <1>2, <1>s, <2>2 DEF WebhookInv
  <2>7. \A q \in Requests : ~(Holds(q)' /\ ~proc'[q].stale)
    BY <1>2, <2>1, <2>2
  <2>8. ~crossed' => \A d \in Deliveries : Told(d)' => sent'[d] <= row'.core
    <3>1. row'.core = proc[p].item
      BY <1>0, <1>1 DEF ReadTypeOK
    <3> QED BY <1>0, <1>1, <1>s, <2>3, <3>1 DEF WebhookInv
  <2> QED BY <2>4, <2>5, <2>6, <2>7, <2>8 DEF WebhookInv
<1> QED BY <1>4, <1>5, <1>6 DEF ReadInv

\* A webhook's other steps.
LEMMA WebhookServes ==
  ASSUME ReadInv, NEW p \in Requests,
         \/ \E d \in Deliveries, verified \in BOOLEAN : BeginWebhook(p, d, verified)
         \/ RecordEvent(p) \/ WebhookFetch(p) \/ MarkEvent(p)
  PROVE  ReadInv'
<1>0. ReadTypeOK /\ ChildInv /\ WebhookInv
  BY DEF ReadInv
<1>1. /\ proc[p] \in Process /\ store \in Versions /\ store \in Nat
      /\ ReadIdle \in Process /\ 0 \in Versions
      /\ proc[p].at \in {"record", "ignore", "mark", "fail"} => proc[p].kind = "webhook"
      /\ proc[p].at = "idle" => proc[p].kind = "pull"
      /\ work \in 0 .. MaxWork /\ MaxWork \in Nat
      /\ event \in [Deliveries -> {"none", "received", "ignored", "processed", "failed"}]
      /\ skipped \in SUBSET Deliveries
  <2>1. work \in 0 .. MaxWork /\ MaxWork \in Nat /\ skipped \in SUBSET Deliveries
        /\ event \in [Deliveries -> {"none", "received", "ignored", "processed", "failed"}]
    BY <1>0, WorkAssumption DEF ReadTypeOK
  <2> QED BY <1>0, <2>1, ReadFacts, ReadBegins
<1>2. proc[p].at \notin Writing
  BY DEF BeginWebhook, RecordEvent, WebhookFetch, MarkEvent, Start, Writing
<1>3. /\ ReadIdle.kind = "pull" /\ ReadIdle.at = "idle" /\ "idle" \notin Writing
      /\ "record" \notin Writing /\ "fetch" \notin Writing /\ "row" \notin Writing
      /\ "mark" \notin Writing /\ "fail" \notin Writing /\ "ignore" \notin Writing
  BY DEF ReadIdle, Writing
<1>4. ASSUME NEW state \in Process, proc' = [proc EXCEPT ![p] = state],
             state.at \notin Writing, WebhookInv',
             UNCHANGED <<store, sent, known, row, links, images, variants, applied,
                         crossed, torn, pulled>>,
             event' \in [Deliveries -> {"none", "received", "ignored", "processed", "failed"}],
             skipped' \in SUBSET Deliveries, work' \in 0 .. MaxWork
      PROVE  ReadInv'
  <2>1. proc' \in [Requests -> Process]
    BY <1>0, <1>4, ReadBecomes
  <2>2. ReadTypeOK'
    BY <1>0, <1>4, <2>1 DEF ReadTypeOK
  <2>3. ChildInv'
    BY <1>0, <1>2, <1>4, ChildQuiet
  <2> QED BY <1>4, <2>2, <2>3 DEF ReadInv
<1>b. ASSUME NEW state \in Process, proc' = [proc EXCEPT ![p] = state]
      PROVE  /\ proc'[p] = state
             /\ \A q \in Requests \ {p} : proc'[q] = proc[q]
             /\ \A d \in Deliveries, q \in Requests \ {p} : Marking(q, d)' <=> Marking(q, d)
  <2>1. proc'[p] = state /\ \A q \in Requests \ {p} : proc'[q] = proc[q]
    BY <1>0, <1>b, ReadBecomes
  <2> QED BY <2>1 DEF Marking
<1>5. ASSUME NEW d \in Deliveries, NEW verified \in BOOLEAN, BeginWebhook(p, d, verified)
      PROVE  ReadInv'
  <2> DEFINE state == [ReadIdle EXCEPT !.at = "record", !.kind = "webhook",
                                       !.delivery = d, !.verified = verified]
  <2>1. /\ state \in Process /\ state.at = "record" /\ state.kind = "webhook"
        /\ state.delivery = d
    BY <1>1 DEF Process, Steps, ReadIdle
  <2>2. /\ proc' = [proc EXCEPT ![p] = state] /\ proc[p].at = "idle" /\ sent[d] # 0
        /\ UNCHANGED <<store, sent, known, row, links, images, variants, event, applied,
                       skipped, crossed, torn, pulled>>
        /\ work < MaxWork /\ work' = work + 1
    BY <1>5 DEF BeginWebhook, Start, tables, history
  <2>3. /\ Serves(p)' /\ ~Applying(p)' /\ ~Holds(p)'
        /\ \A e \in Deliveries : ~Marking(p, e)'
    <3>1. /\ proc'[p].at = "record" /\ proc'[p].kind = "webhook"
          /\ proc'[p].delivery = d
      BY <1>b, <2>1, <2>2
    <3>2. sent' = sent
      BY <2>2
    <3> QED BY <2>2, <3>1, <3>2 DEF Serves, Applying, Holds, Marking
  <2>4. \A e \in Deliveries : Told(e)' => Told(e)
    BY <1>b, <2>1, <2>2, <2>3 DEF Told
  <2>5. \A e \in Deliveries : event'[e] # "none" => sent[e] # 0
    BY <1>0, <2>2 DEF WebhookInv
  <2>6. WebhookInv'
    BY <1>0, <2>1, <2>2, <2>3, <2>4, <2>5, WebhookStep
  <2>7. work' \in 0 .. MaxWork
    BY <1>1, <2>2
  <2> QED BY <1>1, <1>3, <1>4, <2>1, <2>2, <2>6, <2>7
<1>6. ASSUME RecordEvent(p) PROVE ReadInv'
  <2> DEFINE d == proc[p].delivery
  <2>1. /\ proc[p].at = "record" /\ proc[p].kind = "webhook" /\ d \in Deliveries
        /\ sent[d] # 0 /\ ~Applying(p) /\ \A e \in Deliveries : ~Marking(p, e)
        /\ UNCHANGED <<store, sent, known, row, links, images, variants, applied,
                       skipped, crossed, torn, pulled, work>>
    BY <1>0, <1>1, <1>6 DEF RecordEvent, WebhookInv, Serves, Applying, Marking, history
  <2>2. CASE event[d] # "none"
    <3>1. proc' = [proc EXCEPT ![p] = ReadIdle] /\ event' = event
      BY <1>6, <2>2 DEF RecordEvent, End
    <3>2. /\ store' \in Versions /\ store <= store' /\ (crossed => crossed')
          /\ UNCHANGED <<sent, row, event, applied, skipped>>
      BY <1>1, <2>1, <3>1
    <3>3. WebhookInv'
      BY <1>0, <1>1, <1>3, <3>1, <3>2, PullQuiet
    <3> QED BY <1>1, <1>3, <1>4, <2>1, <3>1, <3>3
  <2>3. CASE event[d] = "none"
    <3> DEFINE step == IF proc[p].verified THEN "fetch" ELSE "ignore"
               state == [proc[p] EXCEPT !.at = step]
    <3>1. proc' = [proc EXCEPT ![p] = state] /\ event' = [event EXCEPT ![d] = "received"]
      BY <1>6, <2>3 DEF RecordEvent, Goto
    <3>2. /\ event' \in [Deliveries -> {"none", "received", "ignored", "processed", "failed"}]
          /\ event'[d] = "received" /\ \A e \in Deliveries \ {d} : event'[e] = event[e]
      BY <1>1, <2>1, <3>1
    <3>3. /\ state \in Process /\ state.at = step /\ state.kind = "webhook"
          /\ state.delivery = d
      BY <1>1, <2>1 DEF Process, Steps
    <3>4. applied[d] = 0
      BY <1>0, <2>1, <2>3 DEF WebhookInv
    <3>5. Serves(p)' /\ ~Holds(p)' /\ \A e \in Deliveries : ~Marking(p, e)'
      BY <1>b, <2>1, <3>1, <3>2, <3>3, <3>4 DEF Serves, Applying, Holds, Marking
    <3>6. ASSUME NEW e \in Deliveries, Told(e)' PROVE Told(e)
      <4>1. e \notin skipped
        BY <2>1, <3>6 DEF Told
      <4>2. CASE event'[e] = "processed"
        BY <3>2, <4>1, <4>2 DEF Told
      <4>3. CASE \E q \in Requests : Marking(q, e)'
        BY <1>b, <3>1, <3>3, <3>5, <4>1, <4>3 DEF Told
      <4> QED BY <3>6, <4>2, <4>3 DEF Told
    <3>7. \A e \in Deliveries : /\ event'[e] # "none" => sent[e] # 0
                                /\ event[e] # "none" => event'[e] # "none"
      BY <1>0, <2>1, <3>2 DEF WebhookInv
    <3>8. \A q \in Requests \ {p} : Applying(q) => proc[q].delivery # state.delivery
      BY <1>0, <2>3, <3>3 DEF WebhookInv, Serves
    <3>9. WebhookInv'
      BY <1>0, <2>1, <3>1, <3>3, <3>5, <3>6, <3>7, <3>8, WebhookStep
    <3>10. /\ state.at \notin Writing
           /\ skipped' \in SUBSET Deliveries /\ work' \in 0 .. MaxWork
      BY <1>1, <1>3, <2>1, <3>3
    <3> HIDE DEF state
    <3> QED BY <1>4, <2>1, <3>1, <3>2, <3>3, <3>9, <3>10
  <2> QED BY <2>2, <2>3
<1>7. ASSUME WebhookFetch(p) PROVE ReadInv'
  <2> DEFINE d == proc[p].delivery
  <2>1. /\ proc[p].at = "fetch" /\ proc[p].kind = "webhook" /\ d \in Deliveries
        /\ sent[d] # 0 /\ event[d] # "none" /\ applied[d] = 0 /\ sent[d] <= store
        /\ Applying(p) /\ \A e \in Deliveries : ~Marking(p, e)
        /\ UNCHANGED <<store, sent, known, row, links, images, variants, event, applied,
                       crossed, torn, pulled, work>>
    BY <1>0, <1>7 DEF WebhookFetch, WebhookInv, Serves, Applying, Marking, tables
  <2>2. \A e \in Deliveries : event'[e] # "none" => sent[e] # 0
    BY <1>0, <2>1 DEF WebhookInv
  <2>3. CASE Goto(p, "mark") /\ skipped' = skipped \cup {d}
    <3> DEFINE state == [proc[p] EXCEPT !.at = "mark"]
    <3>1. /\ state \in Process /\ state.at = "mark" /\ state.kind = "webhook"
          /\ state.delivery = d
      BY <1>1, <2>1 DEF Process, Steps
    <3>2. proc' = [proc EXCEPT ![p] = state]
      BY <2>3 DEF Goto
    <3>3. Serves(p)' /\ ~Holds(p)' /\ \A e \in Deliveries \ {d} : ~Marking(p, e)'
      BY <1>b, <2>1, <3>1, <3>2 DEF Serves, Applying, Holds, Marking
    <3>4. \A e \in Deliveries : Told(e)' => Told(e)
      BY <1>b, <2>1, <2>3, <3>1, <3>2, <3>3 DEF Told
    <3>5. WebhookInv'
      BY <1>0, <2>1, <2>2, <3>1, <3>2, <3>3, <3>4, WebhookStep
    <3>6. skipped' \in SUBSET Deliveries
      BY <1>1, <2>1, <2>3
    <3> QED BY <1>1, <1>3, <1>4, <2>1, <3>1, <3>2, <3>5, <3>6
  <2>4. CASE proc' = [proc EXCEPT ![p].at = "row", ![p].item = store] /\ skipped' = skipped
    <3> DEFINE state == [proc[p] EXCEPT !.at = "row", !.item = store]
    <3>1. /\ state \in Process /\ state.at = "row" /\ state.kind = "webhook"
          /\ state.delivery = d /\ state.item = store
      BY <1>1, <2>1 DEF Process, Steps
    <3>2. proc' = [proc EXCEPT ![p] = state]
      BY <2>4
    <3>3. Serves(p)' /\ \A e \in Deliveries : ~Marking(p, e)'
      BY <1>b, <2>1, <3>1, <3>2 DEF Serves, Applying, Marking
    <3>4. \A e \in Deliveries : Told(e)' => Told(e)
      BY <1>b, <2>1, <2>4, <3>1, <3>2, <3>3 DEF Told
    <3>5. WebhookInv'
      BY <1>0, <2>1, <2>2, <3>1, <3>2, <3>3, <3>4, WebhookStep
    <3> QED BY <1>1, <1>3, <1>4, <2>1, <2>4, <3>1, <3>2, <3>5
  <2>5. CASE Goto(p, "fail") /\ skipped' = skipped
    <3> DEFINE state == [proc[p] EXCEPT !.at = "fail"]
    <3>1. /\ state \in Process /\ state.at = "fail" /\ state.kind = "webhook"
          /\ state.delivery = d
      BY <1>1, <2>1 DEF Process, Steps
    <3>2. proc' = [proc EXCEPT ![p] = state]
      BY <2>5 DEF Goto
    <3>3. Serves(p)' /\ ~Holds(p)' /\ \A e \in Deliveries : ~Marking(p, e)'
      BY <1>b, <2>1, <3>1, <3>2 DEF Serves, Applying, Holds, Marking
    <3>4. \A e \in Deliveries : Told(e)' => Told(e)
      BY <1>b, <2>1, <2>5, <3>1, <3>2, <3>3 DEF Told
    <3>5. WebhookInv'
      BY <1>0, <2>1, <2>2, <3>1, <3>2, <3>3, <3>4, WebhookStep
    <3> QED BY <1>1, <1>3, <1>4, <2>1, <2>5, <3>1, <3>2, <3>5
  <2> QED BY <1>7, <2>3, <2>4, <2>5 DEF WebhookFetch
<1>8. ASSUME MarkEvent(p) PROVE ReadInv'
  <2> DEFINE d == proc[p].delivery
             status == CASE proc[p].at = "ignore" -> "ignored"
                         [] proc[p].at = "mark" -> "processed"
                         [] OTHER -> "failed"
  <2>1. /\ proc[p].at \in {"ignore", "mark", "fail"} /\ proc[p].kind = "webhook" /\ d \in Deliveries
        /\ sent[d] # 0 /\ Applying(p)
        /\ proc' = [proc EXCEPT ![p] = ReadIdle] /\ event' = [event EXCEPT ![d] = status]
        /\ UNCHANGED <<store, sent, known, row, links, images, variants, applied,
                       skipped, crossed, torn, pulled, work>>
    BY <1>0, <1>1, <1>8 DEF MarkEvent, End, WebhookInv, Serves, Applying, history
  <2>2. /\ event' \in [Deliveries -> {"none", "received", "ignored", "processed", "failed"}]
        /\ event'[d] = status /\ \A e \in Deliveries \ {d} : event'[e] = event[e]
    BY <1>1, <2>1
  <2>3. Serves(p)' /\ ~Applying(p)' /\ ~Holds(p)' /\ \A e \in Deliveries : ~Marking(p, e)'
    BY <1>1, <1>3, <1>b, <2>1 DEF Serves, Applying, Holds, Marking
  <2>4. status = "processed" => Marking(p, d)
    BY <2>1 DEF Marking
  <2>5. ASSUME NEW e \in Deliveries, Told(e)' PROVE Told(e)
    <3>1. e \notin skipped
      BY <2>1, <2>5 DEF Told
    <3>2. CASE event'[e] = "processed"
      BY <2>1, <2>2, <2>4, <3>1, <3>2 DEF Told
    <3>3. CASE \E q \in Requests : Marking(q, e)'
      BY <1>1, <1>b, <2>1, <2>3, <3>1, <3>3 DEF Told
    <3> QED BY <2>5, <3>2, <3>3 DEF Told
  <2>6. \A e \in Deliveries : /\ event'[e] # "none" => sent[e] # 0
                              /\ event[e] # "none" => event'[e] # "none"
    BY <1>0, <2>1, <2>2 DEF WebhookInv
  <2>7. WebhookInv'
    BY <1>0, <1>1, <2>1, <2>3, <2>5, <2>6, WebhookStep
  <2> QED BY <1>1, <1>3, <1>4, <2>1, <2>2, <2>7
<1> QED BY <1>5, <1>6, <1>7, <1>8

\* The store's edits, and faults.
LEMMA ReadDisturbed ==
  ASSUME ReadInv, Edit \/ Crash \/ \E p \in Requests : Fails(p)
  PROVE  ReadInv'
<1>0. ReadTypeOK /\ ChildInv /\ WebhookInv
  BY DEF ReadInv
<1>1. /\ ReadIdle \in Process /\ 0 \in Versions
      /\ ReadIdle.kind = "pull" /\ ReadIdle.at = "idle" /\ "idle" \notin Writing
      /\ "fail" \notin Writing
      /\ store \in Versions /\ work \in 0 .. MaxWork /\ MaxWork \in Nat /\ MaxVersion \in Nat
      /\ store \in Nat /\ \A v \in Versions : v \in Nat
  BY <1>0, ReadBegins, VersionsAssumption, WorkAssumption
     DEF ReadTypeOK, ReadIdle, Writing, Versions
<1>2. ASSUME Edit PROVE ReadInv'
  <2>1. /\ store < MaxVersion /\ store' = store + 1
        /\ UNCHANGED <<known, row, links, images, variants, event, proc, applied, skipped,
                       crossed, torn, pulled, work>>
    BY <1>2 DEF Edit, tables, history
  <2>2. store' \in Versions /\ store <= store'
    BY <1>1, <2>1 DEF Versions
  <2>3. /\ sent' \in [Deliveries -> Versions]
        /\ \A d \in Deliveries : sent'[d] = sent[d] \/ (sent[d] = 0 /\ sent'[d] = store')
    BY <1>0, <1>2, <2>1, <2>2 DEF Edit, ReadTypeOK
  <2>4. ReadTypeOK'
    BY <1>0, <2>1, <2>2, <2>3 DEF ReadTypeOK
  <2>5. ChildInv'
    <3>1. \A q \in Requests : (Replacing(q)' <=> Replacing(q)) /\ (Replaced(q) => Replaced(q)')
      BY <2>1 DEF Replacing, Replaced, ImagesAre
    <3>2. Matched => Matched'
      BY <2>1 DEF Matched, ImagesAre
    <3>3. torn => torn'
      BY <2>1
    <3> QED BY <1>0, <2>1, <3>1, <3>2, <3>3 DEF ChildInv
  <2>6. WebhookInv'
    <3>1. \A q \in Requests : /\ Applying(q)' <=> Applying(q)
                              /\ Holds(q)' <=> Holds(q)
                              /\ \A d : Marking(q, d)' <=> Marking(q, d)
      BY <2>1 DEF Applying, Marking, Holds
    <3>2. \A d \in Deliveries : Told(d)' => Told(d)
      BY <2>1, <3>1 DEF Told
    <3>3. \A d \in Deliveries : event[d] # "none" => sent'[d] = sent[d]
      BY <1>0, <2>3 DEF WebhookInv
    <3>4. \A d \in Deliveries : Told(d) => sent'[d] = sent[d]
      <4>1. ASSUME NEW d \in Deliveries, Told(d) PROVE event[d] # "none"
        BY <1>0, <4>1 DEF WebhookInv, Told, Marking, Serves, Applying
      <4> QED BY <3>3, <4>1
    <3>5. \A d \in Deliveries :
            /\ sent'[d] <= store'
            /\ event'[d] # "none" => sent'[d] # 0
            /\ event'[d] = "none" => applied'[d] = 0
            /\ applied'[d] <= 1
      <4> SUFFICES ASSUME NEW d \in Deliveries
                   PROVE  /\ sent'[d] <= store'
                          /\ event'[d] # "none" => sent'[d] # 0
                          /\ event'[d] = "none" => applied'[d] = 0
                          /\ applied'[d] <= 1
        OBVIOUS
      <4>1. sent[d] \in Nat /\ sent[d] <= store /\ store' \in Nat
        BY <1>0, <1>1, <2>2 DEF WebhookInv, ReadTypeOK
      <4>2. sent'[d] <= store'
        BY <1>1, <2>2, <2>3, <4>1
      <4> QED BY <1>0, <2>1, <3>3, <4>2 DEF WebhookInv
    <3>6. \A q \in Requests : Serves(q)'
      <4> SUFFICES ASSUME NEW q \in Requests PROVE Serves(q)'
        OBVIOUS
      <4>1. Serves(q)
        BY <1>0 DEF WebhookInv
      <4>2. proc[q].kind = "webhook" => sent'[proc[q].delivery] = sent[proc[q].delivery]
        BY <2>3, <4>1 DEF Serves
      <4>3. Applying(q) => proc[q].kind = "webhook"
        BY DEF Applying
      <4> QED BY <2>1, <3>1, <4>1, <4>2, <4>3 DEF Serves
    <3>7. \A o, q \in Requests :
            Applying(o)' /\ Applying(q)' /\ proc'[o].delivery = proc'[q].delivery => o = q
      BY <1>0, <2>1, <3>1 DEF WebhookInv
    <3>8. \A q \in Requests : Holds(q)' /\ ~proc'[q].stale =>
             \A d \in Deliveries : Told(d)' => sent'[d] <= proc'[q].item
      BY <1>0, <2>1, <3>1, <3>2, <3>4 DEF WebhookInv
    <3>9. ~crossed' => \A d \in Deliveries : Told(d)' => sent'[d] <= row'.core
      BY <1>0, <2>1, <3>2, <3>4 DEF WebhookInv
    <3> QED BY <3>5, <3>6, <3>7, <3>8, <3>9 DEF WebhookInv
  <2> QED BY <2>4, <2>5, <2>6 DEF ReadInv
<1>3. ASSUME Crash PROVE ReadInv'
  <2>1. /\ work < MaxWork /\ work' = work + 1
        /\ proc' = [p \in Requests |-> ReadIdle]
        /\ UNCHANGED <<store, sent, known, row, links, images, variants, event, applied,
                       skipped, crossed, pulled>>
    BY <1>3 DEF Crash, tables
  <2>2. /\ torn' \in BOOLEAN /\ (torn => torn')
        /\ (\E p \in Requests : Replacing(p)) => torn'
    BY <1>3 DEF Crash, Replacing
  <2>3. ReadTypeOK'
    BY <1>0, <1>1, <2>1, <2>2 DEF ReadTypeOK
  <2>4. \A q \in Requests : /\ proc'[q] = ReadIdle
                            /\ ~Replacing(q)' /\ ~Applying(q)' /\ ~Holds(q)'
                            /\ \A d : ~Marking(q, d)'
    BY <1>1, <2>1 DEF Replacing, Applying, Holds, Marking
  <2>5. ChildInv'
    <3>1. Matched => Matched'
      BY <2>1 DEF Matched, ImagesAre
    <3> QED BY <1>0, <2>2, <2>4, <3>1 DEF ChildInv
  <2>6. WebhookInv'
    <3>1. \A q \in Requests : Serves(q)'
      BY <1>1, <2>4 DEF Serves
    <3>2. \A d \in Deliveries : Told(d)' => Told(d)
      BY <2>1, <2>4 DEF Told
    <3>3. \A d \in Deliveries :
            /\ sent'[d] <= store'
            /\ event'[d] # "none" => sent'[d] # 0
            /\ event'[d] = "none" => applied'[d] = 0
            /\ applied'[d] <= 1
      BY <1>0, <2>1 DEF WebhookInv
    <3>4. ~crossed' => \A d \in Deliveries : Told(d)' => sent'[d] <= row'.core
      BY <1>0, <2>1, <3>2 DEF WebhookInv
    <3> QED BY <2>4, <3>1, <3>3, <3>4 DEF WebhookInv
  <2> QED BY <2>3, <2>5, <2>6 DEF ReadInv
<1>4. ASSUME NEW p \in Requests, Fails(p) PROVE ReadInv'
  <2>1. /\ proc[p].at # "idle"
        /\ work < MaxWork /\ work' = work + 1
        /\ UNCHANGED <<store, sent, known, row, links, images, variants, event, applied,
                       skipped, crossed, pulled>>
    BY <1>4 DEF Fails, tables
  <2>2. /\ torn' \in BOOLEAN /\ (torn => torn')
        /\ proc[p].at \in Writing => torn'
    BY <1>4 DEF Fails
  <2>3. proc[p] \in Process /\ proc[p].kind \in {"pull", "webhook"}
    BY <1>0 DEF ReadTypeOK, Process
  <2>4. ASSUME NEW state \in Process, proc' = [proc EXCEPT ![p] = state],
               state.at \notin Writing, WebhookInv'
        PROVE  ReadInv'
    <3>1. proc' \in [Requests -> Process]
      BY <1>0, <2>4, ReadBecomes
    <3>2. work' \in 0 .. MaxWork
      BY <1>1, <2>1
    <3>3. ReadTypeOK'
      BY <1>0, <2>1, <2>2, <3>1, <3>2 DEF ReadTypeOK
    <3>4. CASE proc[p].at \in Writing
      <4>1. torn'
        BY <2>2, <3>4
      <4>2. ChildInv'
        BY <1>0, <2>4, <3>4, <4>1, ChildEnds
      <4> QED BY <2>4, <3>3, <4>2 DEF ReadInv
    <3>5. CASE proc[p].at \notin Writing
      <4>1. ChildInv'
        BY <1>0, <2>1, <2>2, <2>4, <3>5, ChildQuiet
      <4> QED BY <2>4, <3>3, <4>1 DEF ReadInv
    <3> QED BY <3>4, <3>5
  <2>5. CASE proc[p].kind = "pull" \/ proc[p].at \notin {"fetch", "row", "mark"}
    <3>1. proc' = [proc EXCEPT ![p] = ReadIdle]
      BY <1>4, <2>5 DEF Fails, End
    <3>2. /\ store' \in Versions /\ store <= store' /\ (crossed => crossed')
          /\ UNCHANGED <<sent, row, event, applied, skipped>>
      BY <1>1, <2>1
    <3>3. WebhookInv'
      BY <1>0, <1>1, <3>1, <3>2, PullQuiet
    <3> QED BY <1>1, <2>4, <3>1, <3>3
  <2>6. CASE proc[p].kind = "webhook" /\ proc[p].at \in {"fetch", "row", "mark"}
    <3> DEFINE state == [proc[p] EXCEPT !.at = "fail"]
    <3>1. /\ state \in Process /\ state.at = "fail" /\ state.kind = "webhook"
          /\ state.delivery = proc[p].delivery
      BY <2>3, <2>6 DEF Process, Steps
    <3>2. proc' = [proc EXCEPT ![p] = state]
      BY <1>4, <2>6 DEF Fails, Goto
    <3>3. /\ proc'[p] = state
          /\ \A d \in Deliveries, q \in Requests \ {p} : Marking(q, d)' <=> Marking(q, d)
      <4>1. proc'[p] = state /\ \A q \in Requests \ {p} : proc'[q] = proc[q]
        BY <1>0, <3>1, <3>2, ReadBecomes
      <4> QED BY <4>1 DEF Marking
    <3>4. Serves(p)
      BY <1>0 DEF WebhookInv
    <3>5. Applying(p)
      BY <2>6 DEF Applying
    <3>6. Serves(p)' /\ ~Holds(p)' /\ \A d \in Deliveries : ~Marking(p, d)'
      BY <2>1, <2>6, <3>1, <3>3, <3>4, <3>5 DEF Serves, Applying, Holds, Marking
    <3>7. \A d \in Deliveries : Told(d)' => Told(d)
      BY <2>1, <3>3, <3>6 DEF Told
    <3>8. \A d \in Deliveries : /\ event'[d] # "none" => sent[d] # 0
                                /\ event[d] # "none" => event'[d] # "none"
      BY <1>0, <2>1 DEF WebhookInv
    <3>9. WebhookInv'
      BY <1>0, <2>1, <3>1, <3>2, <3>5, <3>6, <3>7, <3>8, WebhookStep
    <3> QED BY <1>1, <2>4, <3>1, <3>2, <3>9
  <2> QED BY <2>3, <2>5, <2>6
<1> QED BY <1>2, <1>3, <1>4

LEMMA ReadStarts == ReadInit => ReadInv
<1> SUFFICES ASSUME ReadInit PROVE ReadInv
  OBVIOUS
<1>1. /\ ReadIdle \in Process /\ 0 \in Versions /\ 0 \in 0 .. MaxWork
      /\ ReadIdle.kind = "pull" /\ ReadIdle.at = "idle" /\ "idle" \notin Writing
  BY ReadBegins, VersionsAssumption, WorkAssumption DEF Versions, ReadIdle, Writing
<1>2. ReadTypeOK
  BY <1>1 DEF ReadInit, ReadTypeOK
<1>3. \A q \in Requests : /\ proc[q] = ReadIdle
                          /\ ~Replacing(q) /\ ~Applying(q) /\ ~Holds(q)
                          /\ \A d : ~Marking(q, d)
  BY <1>1 DEF ReadInit, Replacing, Applying, Holds, Marking
<1>4. ChildInv
  BY <1>3, VersionsAssumption DEF ReadInit, ChildInv, Matched, ImagesAre
<1>5. \A q \in Requests : Serves(q)
  BY <1>1, <1>3 DEF Serves
<1>6. \A d \in Deliveries : ~Told(d)
  BY <1>3 DEF ReadInit, Told
<1>7. WebhookInv
  BY <1>3, <1>5, <1>6 DEF ReadInit, WebhookInv
<1> QED BY <1>2, <1>4, <1>7 DEF ReadInv

LEMMA ReadNextStep == ReadInv /\ [ReadNext]_readVars => ReadInv'
<1> SUFFICES ASSUME ReadInv, [ReadNext]_readVars PROVE ReadInv'
  OBVIOUS
<1>1. ASSUME NEW p \in Requests, Pull(p) PROVE ReadInv'
  BY <1>1, PullBegins, PullReplaces, PullWrites DEF Pull
<1>2. ASSUME NEW p \in Requests, Webhook(p) PROVE ReadInv'
  BY <1>2, WebhookServes, WebhookWrites DEF Webhook
<1>3. CASE UNCHANGED readVars
  <2>1. UNCHANGED <<store, sent, known, row, links, images, variants, event, proc, applied,
                    skipped, crossed, torn, pulled, work>>
    BY <1>3 DEF readVars, tables, history
  <2>2. ReadTypeOK'
    BY <2>1 DEF ReadInv, ReadTypeOK
  <2>3. ChildInv'
    BY <2>1 DEF ReadInv, ChildInv, Matched, ImagesAre, Replacing, Replaced
  <2>4. WebhookInv'
    BY <2>1 DEF ReadInv, WebhookInv, Serves, Applying, Marking, Told, Holds
  <2> QED BY <2>2, <2>3, <2>4 DEF ReadInv
<1> QED BY <1>1, <1>2, <1>3, ReadDisturbed DEF ReadNext

\* ChildrenMatch, of any product: while a replacement that nothing disturbed is
\* under way it has the children to itself.
THEOREM ChildrenMatchHolds == Spec => []ChildrenMatch
<1>1. ReadInv => ChildrenMatch
  BY DEF ReadInv, ChildInv, ChildrenMatch, Replacing, Matched, ImagesAre
<1> QED BY <1>1, ReadStarts, ReadNextStep, EachService, PTL DEF ReadSpec

\* ProcessedIsApplied, of any deliveries: a copy that is not stale is as new as
\* all that is done.
THEOREM ProcessedIsAppliedHolds == Spec => []ProcessedIsApplied
<1>1. ReadInv => ProcessedIsApplied
  <2> SUFFICES ASSUME ReadInv, NEW d \in Deliveries
               PROVE  /\ applied[d] <= 1
                      /\ event[d] = "processed" /\ d \notin skipped /\ ~crossed =>
                           row.core >= sent[d]
    BY DEF ProcessedIsApplied
  <2>1. applied[d] <= 1 /\ (~crossed /\ Told(d) => sent[d] <= row.core)
    BY DEF ReadInv, WebhookInv
  <2>2. sent[d] \in Int /\ row.core \in Int
    BY VersionsAssumption DEF ReadInv, ReadTypeOK, Versions
  <2> QED BY <2>1, <2>2 DEF Told
<1> QED BY <1>1, ReadStarts, ReadNextStep, EachService, PTL DEF ReadSpec

-----------------------------------------------------------------------------
(* What becomes of a delivery. While a request applies it, its row stays as *)
(* that request has recorded it.                                           *)

AppliesReceived == \A p \in Requests : Applying(p) => event[proc[p].delivery] = "received"

\* Where the row of a delivery may go from where it is.
EventForward == {<<"none", "received">>, <<"received", "ignored">>,
                 <<"received", "processed">>, <<"received", "failed">>}

EventMoves ==
  \A d \in Deliveries : event'[d] = event[d] \/ <<event[d], event'[d]>> \in EventForward

\* Steps that record nothing and leave no request applying that was not.
EventKept ==
  /\ UNCHANGED event
  /\ \A q \in Requests : Applying(q)' => Applying(q) /\ proc'[q].delivery = proc[q].delivery

LEMMA EventKeeps ==
  ASSUME AppliesReceived, EventKept
  PROVE  AppliesReceived' /\ EventMoves
BY DEF AppliesReceived, EventKept, EventMoves

LEMMA EventKeptSteps ==
  ASSUME ReadInv, NEW p \in Requests,
         \/ Pull(p) \/ WebhookFetch(p) \/ WebhookRow(p) \/ Fails(p)
         \/ \E d \in Deliveries, verified \in BOOLEAN : BeginWebhook(p, d, verified)
  PROVE  EventKept
<1> USE DEF tables, history
<1>1. proc \in [Requests -> Process] /\ Serves(p)
  BY DEF ReadInv, ReadTypeOK, WebhookInv
<1>2. CASE BeginSync(p) \/ WriteProduct(p) \/ BeginIngest(p)
           \/ \E d \in Deliveries, verified \in BOOLEAN : BeginWebhook(p, d, verified)
  <2>1. /\ UNCHANGED event /\ \A q \in Requests \ {p} : proc'[q] = proc[q]
        /\ proc'[p].kind = "pull" \/ proc'[p].at = "record"
    <3>1. ASSUME NEW x, x.kind = "pull" \/ x.at = "record", proc' = [proc EXCEPT ![p] = x]
          PROVE  /\ \A q \in Requests \ {p} : proc'[q] = proc[q]
                 /\ proc'[p].kind = "pull" \/ proc'[p].at = "record"
      BY <1>1, <3>1
    <3>2. CASE BeginSync(p)
      BY <3>1, <3>2 DEF BeginSync, ReadIdle
    <3>3. CASE WriteProduct(p)
      BY <3>1, <3>3 DEF WriteProduct, ReadIdle
    <3>4. CASE BeginIngest(p)
      BY <3>1, <3>4 DEF BeginIngest, ReadIdle
    <3>5. CASE \E d \in Deliveries, verified \in BOOLEAN : BeginWebhook(p, d, verified)
      BY <3>1, <3>5 DEF BeginWebhook, ReadIdle
    <3> QED BY <1>2, <3>2, <3>3, <3>4, <3>5
  <2> QED BY <2>1 DEF EventKept, Applying
<1>3. CASE WriteRow(p) \/ WebhookRow(p)
  <2>1. /\ UNCHANGED event
        /\ \A q \in Requests : /\ proc'[q].kind = proc[q].kind
                               /\ proc'[q].delivery = proc[q].delivery
                               /\ q # p => proc'[q].at = proc[q].at
    <3>1. UNCHANGED event /\ \E next \in {"unlink", "mark"} : RowWritten(p, next)
      BY <1>3 DEF WriteRow, WebhookRow
    <3> QED BY <3>1, WrittenRow DEF ReadInv
  <2>2. proc[p].at = "row"
    BY <1>3 DEF WriteRow, WebhookRow
  <2> QED BY <2>1, <2>2 DEF EventKept, Applying
<1>4. CASE \/ Taxonomy(p) \/ Fetch(p) \/ FetchVariations(p) \/ DeleteLinks(p) \/ InsertLink(p)
           \/ DeleteImages(p) \/ InsertImage(p) \/ ImagesDone(p) \/ UpsertVariation(p)
           \/ PullDone(p) \/ WebhookFetch(p) \/ Fails(p)
  <2>1. UNCHANGED event /\ \A q \in Requests \ {p} : proc'[q] = proc[q]
    BY <1>1, <1>4 DEF Taxonomy, Fetch, FetchVariations, DeleteLinks, InsertLink, DeleteImages,
       InsertImage, ImagesDone, UpsertVariation, PullDone, WebhookFetch, Fails, Goto, End
  <2>2. \/ proc'[p].kind = "pull"
        \/ proc'[p].kind = proc[p].kind /\ proc'[p].delivery = proc[p].delivery
    <3>1. proc[p] \in Process
      BY <1>1
    <3>2. CASE Taxonomy(p) \/ FetchVariations(p)
      BY <1>1, <3>1, <3>2 DEF Taxonomy, FetchVariations, Goto, End, ReadIdle, Process
    <3>6. CASE Fetch(p)
      BY <1>1, <3>1, <3>6 DEF Fetch, End, ReadIdle, Process
    <3>7. CASE WebhookFetch(p)
      <4>1. \/ \E step \in {"mark", "fail"} : Goto(p, step)
            \/ proc' = [proc EXCEPT ![p].at = "row", ![p].item = store]
        BY <3>7 DEF WebhookFetch
      <4> QED BY <1>1, <3>1, <4>1 DEF Goto, Process
    <3>3. CASE DeleteLinks(p)
      BY <1>1, <3>1, <3>3 DEF DeleteLinks, Process
    <3>8. CASE InsertLink(p)
      BY <1>1, <3>1, <3>8 DEF InsertLink, Process
    <3>9. CASE DeleteImages(p)
      BY <1>1, <3>1, <3>9 DEF DeleteImages, Process
    <3>4. CASE InsertImage(p) \/ ImagesDone(p) \/ UpsertVariation(p)
      BY <1>1, <3>1, <3>4 DEF InsertImage, ImagesDone, UpsertVariation, Process
    <3>5. CASE PullDone(p) \/ Fails(p)
      BY <1>1, <3>1, <3>5 DEF PullDone, Fails, Goto, End, ReadIdle, Process
    <3> QED BY <1>4, <3>2, <3>3, <3>4, <3>5, <3>6, <3>7, <3>8, <3>9
  <2>3. proc[p].at # "record" \/ proc'[p].kind = "pull"
    <3>1. CASE Fails(p) /\ proc[p].at = "record"
      BY <1>1, <3>1 DEF Fails, End, ReadIdle
    <3>2. CASE ~Fails(p)
      BY <1>4, <3>2 DEF Taxonomy, Fetch, FetchVariations, DeleteLinks, InsertLink,
         DeleteImages, InsertImage, ImagesDone, UpsertVariation, PullDone, WebhookFetch,
         Writing
    <3> QED BY <3>1, <3>2
  <2> QED BY <2>1, <2>2, <2>3 DEF EventKept, Applying
<1> QED BY <1>2, <1>3, <1>4 DEF Pull

LEMMA EventStep ==
  ReadInv /\ AppliesReceived /\ [ReadNext]_readVars => AppliesReceived' /\ EventMoves
<1> SUFFICES ASSUME ReadInv, AppliesReceived, [ReadNext]_readVars
             PROVE  AppliesReceived' /\ EventMoves
  OBVIOUS
<1> USE DEF tables, history
<1>1. proc \in [Requests -> Process] /\ event \in [Deliveries -> {"none", "received", "ignored",
                                                                 "processed", "failed"}]
  BY DEF ReadInv, ReadTypeOK
<1>2. ASSUME NEW p \in Requests,
             \/ Pull(p) \/ WebhookFetch(p) \/ WebhookRow(p) \/ Fails(p)
             \/ \E d \in Deliveries, verified \in BOOLEAN : BeginWebhook(p, d, verified)
      PROVE  AppliesReceived' /\ EventMoves
  BY <1>2, EventKeptSteps, EventKeeps
<1>3. CASE Edit \/ Crash \/ UNCHANGED readVars
  <2>1. UNCHANGED event /\ \A q \in Requests : proc'[q] = proc[q] \/ proc'[q].kind = "pull"
    BY <1>3 DEF Edit, Crash, readVars, ReadIdle
  <2> QED BY <2>1, EventKeeps DEF EventKept, Applying
<1>4. ASSUME NEW p \in Requests, RecordEvent(p) PROVE AppliesReceived' /\ EventMoves
  <2> DEFINE d == proc[p].delivery
  <2>1. d \in Deliveries /\ \A q \in Requests \ {p} : proc'[q] = proc[q]
    <3>1. proc[p].kind = "webhook" /\ Serves(p)
      BY <1>4, ReadFacts DEF RecordEvent, ReadInv, WebhookInv
    <3>2. d \in Deliveries
      BY <3>1 DEF Serves
    <3> QED BY <1>1, <1>4, <3>2 DEF RecordEvent, Goto, End
  <2>2. CASE event[d] # "none"
    <3>1. UNCHANGED event /\ proc'[p].kind = "pull"
      BY <1>1, <1>4, <2>2 DEF RecordEvent, End, ReadIdle
    <3> QED BY <2>1, <3>1, EventKeeps DEF EventKept, Applying
  <2>3. CASE event[d] = "none"
    <3>1. /\ event'[d] = "received"
          /\ \A c \in Deliveries \ {d} : event'[c] = event[c]
      BY <1>1, <1>4, <2>1, <2>3 DEF RecordEvent
    <3>2. EventMoves
      BY <2>3, <3>1 DEF EventMoves, EventForward
    <3>3. \A q \in Requests \ {p} : Applying(q)' =>
            Applying(q) /\ proc'[q].delivery = proc[q].delivery /\ proc[q].delivery # d
                        /\ proc[q].delivery \in Deliveries
      BY <2>1, <2>3 DEF AppliesReceived, Applying, ReadInv, WebhookInv, Serves
    <3>4. Applying(p)' => proc'[p].delivery = d
      BY <1>1, <1>4, <2>3 DEF RecordEvent, Goto, End, ReadIdle, Applying, Process
    <3>5. AppliesReceived'
      BY <3>1, <3>3, <3>4 DEF AppliesReceived
    <3> QED BY <3>2, <3>5
  <2> QED BY <2>2, <2>3
<1>5. ASSUME NEW p \in Requests, MarkEvent(p) PROVE AppliesReceived' /\ EventMoves
  <2> DEFINE d == proc[p].delivery
  <2>1. Applying(p) /\ d \in Deliveries
    BY <1>1, <1>5 DEF MarkEvent, ReadInv, WebhookInv, Serves, Applying, Process
  <2>2. event[d] = "received"
    BY <2>1 DEF AppliesReceived
  <2>3. /\ event'[d] \in {"ignored", "processed", "failed"}
        /\ \A c \in Deliveries \ {d} : event'[c] = event[c]
    BY <1>1, <1>5, <2>1 DEF MarkEvent
  <2>4. proc'[p].kind = "pull" /\ \A q \in Requests \ {p} : proc'[q] = proc[q]
    BY <1>1, <1>5 DEF MarkEvent, End, ReadIdle
  <2>5. \A q \in Requests : Applying(q)' =>
          /\ Applying(q) /\ proc'[q].delivery = proc[q].delivery
          /\ proc[q].delivery \in Deliveries \ {d}
    BY <2>1, <2>4 DEF Applying, ReadInv, WebhookInv, Serves
  <2> HIDE DEF d
  <2>6. EventMoves
    BY <2>2, <2>3 DEF EventMoves, EventForward
  <2>7. AppliesReceived'
    BY <2>3, <2>5 DEF AppliesReceived
  <2> QED BY <2>6, <2>7
<1> QED BY <1>2, <1>3, <1>4, <1>5 DEF ReadNext, Webhook

\* A delivery is recorded once, by the first of its requests that gets there,
\* and that one alone decides whether it was processed or failed (recordEvent,
\* webhooks.ts): no request takes back what another has written of it.
THEOREM EventsMoveForward == Spec => [][EventMoves]_readVars
<1>1. ReadInit => AppliesReceived
  BY DEF ReadInit, AppliesReceived, Applying, ReadIdle
<1> QED BY <1>1, EventStep, ReadStarts, ReadNextStep, EachService, PTL DEF ReadSpec

-----------------------------------------------------------------------------
\* "Never applied twice" (webhooks.ts) as an abstract specification: what the
\* store sends is issued, and the upsert of the row is the effect.
Deliver == INSTANCE AtMostOnce WITH
             Items <- Deliveries,
             issued <- {d \in Deliveries : sent[d] # 0},
             effects <- applied

\* The webhooks implement at-most-once delivery: in whatever order deliveries
\* arrive, are repeated, overlap, fail and die, each takes effect only after it
\* was sent, and never again.
THEOREM DeliveriesTakeEffectOnce == Spec => Deliver!AbstractSpec
<1>1. ReadInit => Deliver!AbstractInit
  BY DEF ReadInit, Deliver!AbstractInit
<1>2. ReadInv /\ [ReadNext]_readVars => [Deliver!AbstractNext]_Deliver!abstractVars
  <2> SUFFICES ASSUME ReadInv, [ReadNext]_readVars
               PROVE  [Deliver!AbstractNext]_Deliver!abstractVars
    OBVIOUS
  <2> USE DEF tables, history, Deliver!AbstractNext, Deliver!abstractVars
  <2>1. CASE Edit
    <3>1. UNCHANGED applied
      BY <2>1 DEF Edit
    <3>2. PICK new \in SUBSET Deliveries :
            /\ sent' = [d \in Deliveries |-> IF d \in new THEN store + 1 ELSE sent[d]]
            /\ store + 1 # 0
      <4>1. sent \in [Deliveries -> Versions] /\ store + 1 # 0
        BY DEF ReadInv, ReadTypeOK, Versions
      <4>2. CASE UNCHANGED sent
        <5> DEFINE new == {}
        <5>1. sent' = [d \in Deliveries |-> IF d \in new THEN store + 1 ELSE sent[d]]
          BY <4>1, <4>2
        <5>2. new \in SUBSET Deliveries
          OBVIOUS
        <5> HIDE DEF new
        <5> QED BY <4>1, <5>1, <5>2
      <4>3. ASSUME NEW c \in Deliveries, sent' = [sent EXCEPT ![c] = store + 1]
            PROVE  \E new \in SUBSET Deliveries :
                     sent' = [d \in Deliveries |-> IF d \in new THEN store + 1 ELSE sent[d]]
        <5>1. sent' = [d \in Deliveries |-> IF d \in {c} THEN store + 1 ELSE sent[d]]
          BY <4>1, <4>3
        <5>2. {c} \in SUBSET Deliveries
          OBVIOUS
        <5> QED BY <5>1, <5>2
      <4> QED BY <2>1, <4>1, <4>2, <4>3 DEF Edit
    <3>3. {d \in Deliveries : sent'[d] # 0} = {d \in Deliveries : sent[d] # 0} \cup new
      BY <3>2
    <3> QED BY <3>1, <3>3 DEF Deliver!Issue
  <2>2. ASSUME NEW p \in Requests, WebhookRow(p)
        PROVE  /\ proc[p].delivery \in Deliveries
               /\ Deliver!TakeEffect(proc[p].delivery)
    <3>1. /\ proc[p].delivery \in Deliveries /\ sent[proc[p].delivery] # 0
          /\ applied[proc[p].delivery] = 0
      BY <2>2 DEF WebhookRow, ReadInv, WebhookInv, Serves, Applying
    <3>2. applied' = [applied EXCEPT ![proc[p].delivery] = 1] /\ UNCHANGED sent
      BY <2>2, <3>1 DEF WebhookRow
    <3> QED BY <3>1, <3>2 DEF Deliver!TakeEffect
  <2>3. ASSUME NEW p \in Requests, Pull(p) \/ Webhook(p) \/ Fails(p), ~WebhookRow(p)
        PROVE  UNCHANGED <<sent, applied>>
    BY <2>3 DEF Pull, BeginSync, Taxonomy, WriteProduct, BeginIngest, Fetch, FetchVariations,
       WriteRow, DeleteLinks, InsertLink, DeleteImages, InsertImage, ImagesDone,
       UpsertVariation, PullDone, Webhook, BeginWebhook, RecordEvent, WebhookFetch, MarkEvent,
       Fails
  <2>4. CASE Crash \/ UNCHANGED readVars
    BY <2>4 DEF Crash, readVars
  <2> QED BY <2>1, <2>2, <2>3, <2>4 DEF ReadNext
<1> QED BY <1>1, <1>2, ReadStarts, ReadNextStep, EachService, PTL
        DEF ReadSpec, Deliver!AbstractSpec
-----------------------------------------------------------------------------
\* Every row of every service, and every handler's memory, stays well typed,
\* for any requests in flight and any bounds.
THEOREM TypeCorrect ==
  Spec => [](/\ ReadTypeOK /\ OtpTypeOK /\ SupTypeOK /\ PayTypeOK
             /\ CacheTypeOK /\ OnbTypeOK /\ SocTypeOK)
<1>1. ReadSpec => []ReadTypeOK
  <2>1. ReadInv => ReadTypeOK
    BY DEF ReadInv
  <2> QED BY <2>1, ReadStarts, ReadNextStep, PTL DEF ReadSpec
<1>2. OtpSpec => []OtpTypeOK
  BY OtpStarts, OtpNextStep, PTL DEF OtpSpec
<1>3. PaySpec => []PayTypeOK
  BY PayStarts, PayNextStep, PTL DEF PaySpec
<1>4. CacheSpec => []CacheTypeOK
  BY CacheStarts, CacheNextStep, PTL DEF CacheSpec
<1>5. OnbSpec => []OnbTypeOK
  BY OnbStarts, OnbNextStep, PTL DEF OnbSpec
<1>6. SocSpec => []SocTypeOK
  BY SocStarts, SocNextStep, PTL DEF SocSpec
<1> QED BY <1>1, <1>2, <1>3, <1>4, <1>5, <1>6, SupTypes, EachService, PTL
=============================================================================
