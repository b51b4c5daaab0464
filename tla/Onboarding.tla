----------------------------- MODULE Onboarding -----------------------------
(***************************************************************************)
(* One onboarding request of a merchant and the sites made for it          *)
(* (services/api/src/services/onboardingService.ts). The referral code,    *)
(* the notes, the notifications and the list of status events are left     *)
(* out; what a site's connection goes through is SiteConnection's subject. *)
(***************************************************************************)
EXTENDS Handlers

CONSTANTS
  Sites,       \* sites that may be made
  NoSite,      \* the absence of one
  MaxUpdates   \* bound on an administrator's updates and the merchant's changes

ASSUME OnboardingAssumption == NoSite \notin Sites /\ MaxUpdates \in Nat

Undelivered == {"under_review", "provisioning", "ready", "rejected", "archived"}

VARIABLES
  request,   \* onboarding_request: status, site_id, and whether delivered_at is set
  siteOf,    \* site.status of the sites made, "none" before
  onb,       \* per request: where its handler stands, and what it holds
  updates,   \* updates and changes so far
  astray     \* history: updates overlapped, or one ended half way

onbVars == <<request, siteOf, onb, updates, astray>>

OnbSteps == {"idle", "read", "start", "provision", "update", "event", "connect"}
OnbHandler == [at : OnbSteps, status : Undelivered \cup {"delivered"}, create : BOOLEAN,
               site : Sites \cup {NoSite}]
OnbIdle == [at |-> "idle", status |-> "ready", create |-> FALSE, site |-> NoSite]

OnbTypeOK ==
  /\ request \in [status : Undelivered \cup {"none", "delivered"},
                  site : Sites \cup {NoSite}, delivered : BOOLEAN]
  /\ siteOf \in [Sites -> {"none", "pending", "provisioning", "connected", "disconnected"}]
  /\ onb \in [Requests -> OnbHandler]
  /\ updates \in 0 .. MaxUpdates
  /\ astray \in BOOLEAN

OnbInit ==
  /\ request = [status |-> "none", site |-> NoSite, delivered |-> FALSE]
  /\ siteOf = [s \in Sites |-> "none"]
  /\ onb = [r \in Requests |-> OnbIdle]
  /\ updates = 0
  /\ astray = FALSE

-----------------------------------------------------------------------------
OnbGoto(r, step) == onb' = [onb EXCEPT ![r] = [@ EXCEPT !.at = step]]
OnbEnd(r) == onb' = [onb EXCEPT ![r] = OnbIdle]
OnbBusy(r) == onb[r].at # "idle"

\* createOnboardingRequest: one transaction.
SubmitRequest ==
  /\ request.status = "none"
  /\ request' = [request EXCEPT !.status = "provisioning"]
  /\ UNCHANGED <<siteOf, onb, updates, astray>>

\* updateOnboardingStatusAdmin.
BeginUpdate(r, status, create) ==
  /\ ~OnbBusy(r)
  /\ request.status # "none"
  /\ updates < MaxUpdates
  /\ updates' = updates + 1
  /\ onb' = [onb EXCEPT ![r] = [at |-> "read", status |-> status, create |-> create, site |-> NoSite]]
  /\ astray' = (astray \/ \E q \in Requests : OnbBusy(q))
  /\ UNCHANGED <<request, siteOf>>

\* getOnboardingRequestAdmin: whether there is a site is decided here.
ReadRequest(r) ==
  /\ onb[r].at = "read"
  /\ onb' = [onb EXCEPT ![r] =
       [@ EXCEPT !.site = request.site,
                 !.at = IF onb[r].status = "delivered" /\ onb[r].create /\ request.site = NoSite
                        THEN "start" ELSE "update"]]
  /\ UNCHANGED <<request, siteOf, updates, astray>>

\* startConnection: one transaction.
StartSite(r) ==
  /\ onb[r].at = "start"
  /\ \E s \in Sites :
       /\ siteOf[s] = "none"
       /\ siteOf' = [siteOf EXCEPT ![s] = "pending"]
       /\ onb' = [onb EXCEPT ![r] = [@ EXCEPT !.at = "provision", !.site = s]]
  /\ UNCHANGED <<request, updates, astray>>

ProvisionSite(r) ==
  /\ onb[r].at = "provision"
  /\ siteOf' = [siteOf EXCEPT ![onb[r].site] = "provisioning"]
  /\ OnbGoto(r, "update")
  /\ UNCHANGED <<request, updates, astray>>

\* Mutant: the new site is not linked.
UpdateWithoutSite(r) ==
  /\ onb[r].at = "update"
  /\ request' = [status |-> onb[r].status, site |-> request.site,
                 delivered |-> request.delivered \/ onb[r].status = "delivered"]
  /\ OnbGoto(r, "event")
  /\ UNCHANGED <<siteOf, updates, astray>>

\* UPDATE onboarding_request ... site_id = COALESCE($4, site_id), ...
UpdateRequest(r) ==
  /\ onb[r].at = "update"
  /\ request' = [status |-> onb[r].status,
                 site |-> IF onb[r].site = NoSite THEN request.site ELSE onb[r].site,
                 delivered |-> request.delivered \/ onb[r].status = "delivered"]
  /\ OnbGoto(r, "event")
  /\ UNCHANGED <<siteOf, updates, astray>>

\* recordStatusEvent.
RecordStatus(r) ==
  /\ onb[r].at = "event"
  /\ IF onb[r].status = "delivered" /\ onb[r].site # NoSite
     THEN OnbGoto(r, "connect") ELSE OnbEnd(r)
  /\ UNCHANGED <<request, siteOf, updates, astray>>

\* A delivered site becomes connected, whatever it is by then.
ConnectSite(r) ==
  /\ onb[r].at = "connect"
  /\ siteOf' = [siteOf EXCEPT ![onb[r].site] = "connected"]
  /\ OnbEnd(r)
  /\ UNCHANGED <<request, updates, astray>>

\* A statement fails, the process dies. Before a site is made or the request
\* is updated, nothing has happened yet.
OnbAbandon(r) ==
  /\ OnbBusy(r)
  /\ OnbEnd(r)
  /\ astray' = (astray \/ onb[r].at \notin {"read", "start"})
  /\ UNCHANGED <<request, siteOf, updates>>

\* The merchant connects or disconnects a site (SiteConnection).
ChangeSite(s) ==
  /\ siteOf[s] # "none"
  /\ updates < MaxUpdates
  /\ updates' = updates + 1
  /\ \E status \in {"connected", "disconnected"} : siteOf' = [siteOf EXCEPT ![s] = status]
  /\ UNCHANGED <<request, onb, astray>>

OnbNext ==
  \/ SubmitRequest
  \/ \E r \in Requests :
       \/ \E status \in Undelivered \cup {"delivered"}, create \in BOOLEAN :
            BeginUpdate(r, status, create)
       \/ ReadRequest(r) \/ StartSite(r) \/ ProvisionSite(r) \/ UpdateRequest(r)
       \/ RecordStatus(r) \/ ConnectSite(r) \/ OnbAbandon(r)
  \/ \E s \in Sites : ChangeSite(s)

OnbSpec == OnbInit /\ [][OnbNext]_onbVars

-----------------------------------------------------------------------------
(* Property.                                                               *)

\* As long as updates take turns and end, a request never has a second site:
\* while none is in flight every site made for it is the one it is linked to,
\* and is delivered, past being provisioned.
OneSiteEach ==
  ~astray /\ (\A r \in Requests : ~OnbBusy(r)) =>
    \A s \in Sites : siteOf[s] # "none" =>
      /\ request.site = s
      /\ request.delivered
      /\ siteOf[s] \in {"connected", "disconnected"}
=============================================================================
