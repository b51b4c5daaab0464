--------------------------- MODULE ClientSession ---------------------------
(***************************************************************************)
(* The application's session (apps/client/src/services/authApi.ts,         *)
(* services/httpClient.ts, services/tokenStorage.ts,                       *)
(* session/SessionProvider.tsx) in the tabs of one browser, composed with  *)
(* the backend of AuthSession: every call below begins a request there,    *)
(* and its answer is what the backend made of it.                          *)
(*                                                                         *)
(* Each tab keeps the tokens in module variables it hydrated when it was   *)
(* loaded; localStorage is shared. Code of a tab is atomic between its     *)
(* awaits. The access token is left out but for what its end causes: an    *)
(* API call that is answered 401 and refreshes. The mock adapters, the     *)
(* portals and the profile are left out.                                   *)
(***************************************************************************)
EXTENDS AuthSession

CONSTANTS
  Tabs,       \* tabs of the browser
  MaxFaults   \* bound on answers the network loses and processes that die

ASSUME FaultsAssumption == MaxFaults \in Nat

VARIABLES
  screen,   \* per tab: SessionProvider's status, or closed
  mem,      \* per tab: authApi's refreshToken
  stored,   \* jetweb.session.refreshToken in localStorage
  call,     \* per request: the calls of the tabs that wait for its answer
  crossed,  \* history: calls overlapped, or one had no answer
  faults    \* answers lost so far

browser == <<screen, mem, stored, call, crossed, faults>>
cvars == <<vars, browser>>

Kinds == {"login", "api", "restore", "logout"}
Calls == [tab : Tabs, kind : Kinds]

CTypeOK ==
  /\ TypeOK
  /\ screen \in [Tabs -> {"closed", "out", "loading", "in"}]
  /\ mem \in [Tabs -> Tokens \cup {NoToken}]
  /\ stored \in Tokens \cup {NoToken}
  /\ call \in [Requests -> SUBSET Calls]
  /\ crossed \in BOOLEAN
  /\ faults \in 0 .. MaxFaults

CInit ==
  /\ Init
  /\ screen = [b \in Tabs |-> "closed"]
  /\ mem = [b \in Tabs |-> NoToken]
  /\ stored = NoToken
  /\ call = [r \in Requests |-> {}]
  /\ crossed = FALSE
  /\ faults = 0

-----------------------------------------------------------------------------
(* Calls.                                                                  *)

Quiet == \A r \in Requests : h[r].at = "idle"
Alone(b) == Quiet /\ \A c \in Tabs \ {b} : screen[c] = "closed"

\* Tab b awaits the answer of request r. Calls that do not take turns, in one
\* tab or in several, cross.
Await(b, r, kind) ==
  /\ call' = [call EXCEPT ![r] = {[tab |-> b, kind |-> kind]}]
  /\ crossed' = (crossed \/ ~Alone(b))
  /\ UNCHANGED faults

\* The application is loaded: hydrate, and restoreSession if a token is stored.
Open(b) ==
  /\ screen[b] = "closed"
  /\ mem' = [mem EXCEPT ![b] = stored]
  /\ UNCHANGED stored
  /\ \/ /\ stored = NoToken
        /\ screen' = [screen EXCEPT ![b] = "out"]
        /\ crossed' = (crossed \/ ~Alone(b))
        /\ UNCHANGED <<vars, call, faults>>
     \/ /\ stored # NoToken
        /\ screen' = [screen EXCEPT ![b] = "loading"]
        /\ \E r \in Requests : BeginRefresh(r, stored) /\ Await(b, r, "restore")

\* OtpVerificationScreen: verifyOtp, then signInWithSession.
SignIn(b) ==
  /\ screen[b] = "out"
  /\ \E r \in Requests : BeginLogin(r) /\ Await(b, r, "login")
  /\ UNCHANGED <<screen, mem, stored>>

\* httpClient's request is answered 401: refreshSession.
Refreshes(b) ==
  /\ screen[b] = "in"
  /\ mem[b] # NoToken
  /\ \E r \in Requests : BeginRefresh(r, mem[b]) /\ Await(b, r, "api")
  /\ UNCHANGED <<screen, mem, stored>>

\* signOut: logoutSession clears the tokens before it calls the backend.
SignOut(b) ==
  /\ screen[b] = "in"
  /\ mem' = [mem EXCEPT ![b] = NoToken]
  /\ stored' = NoToken
  /\ \/ /\ mem[b] = NoToken
        /\ screen' = [screen EXCEPT ![b] = "out"]
        /\ UNCHANGED <<vars, call, crossed, faults>>
     \/ /\ mem[b] # NoToken
        /\ \E r \in Requests : BeginLogout(r, mem[b]) /\ Await(b, r, "logout")
        /\ UNCHANGED screen

\* The tab is closed or left: nobody takes the answers of its calls.
Close(b) ==
  /\ screen[b] # "closed"
  /\ screen' = [screen EXCEPT ![b] = "closed"]
  /\ mem' = [mem EXCEPT ![b] = NoToken]
  /\ call' = [r \in Requests |-> {c \in call[r] : c.tab # b}]
  /\ crossed' = (crossed \/ ~Quiet)
  /\ UNCHANGED <<vars, stored, faults>>

-----------------------------------------------------------------------------
(* Answers.                                                                *)

\* setSessionTokens, clearSessionTokens: the tab's copy and localStorage.
SetTokens(b, t) == mem' = [mem EXCEPT ![b] = t] /\ stored' = t

\* Mutant: a refreshed token is kept in memory only.
TakeForgets(c, ok, t) ==
  /\ CASE c.kind = "logout" -> SetTokens(c.tab, NoToken)
       [] c.kind = "login" /\ ~ok -> UNCHANGED <<mem, stored>>
       [] c.kind = "api" /\ ok -> mem' = [mem EXCEPT ![c.tab] = t] /\ UNCHANGED stored
       [] OTHER -> SetTokens(c.tab, IF ok THEN t ELSE NoToken)
  /\ screen' = [screen EXCEPT ![c.tab] =
                  CASE c.kind = "logout" -> "out"
                    [] c.kind = "restore" -> IF ok THEN "in" ELSE "out"
                    [] c.kind = "login" /\ ok -> "in"
                    [] OTHER -> @]

\* What the caller does with an answer: every failure of a refresh clears,
\* and signOut clears once more when logoutSession returns.
Take(c, ok, t) ==
  /\ CASE c.kind = "logout" -> SetTokens(c.tab, NoToken)
       [] c.kind = "login" /\ ~ok -> UNCHANGED <<mem, stored>>
       [] OTHER -> SetTokens(c.tab, IF ok THEN t ELSE NoToken)
  /\ screen' = [screen EXCEPT ![c.tab] =
                  CASE c.kind = "logout" -> "out"
                    [] c.kind = "restore" -> IF ok THEN "in" ELSE "out"
                    [] c.kind = "login" /\ ok -> "in"
                    [] OTHER -> @]

Receive(r) ==
  /\ Answer(r)
  /\ \E c \in call[r] : Take(c, h[r].at = "ok", h[r].token)
  /\ call' = [call EXCEPT ![r] = {}]
  /\ UNCHANGED <<crossed, faults>>

\* An administrator's request, or one whose caller is gone.
AnswerNobody(r) ==
  /\ call[r] = {}
  /\ Answer(r)
  /\ UNCHANGED browser

\* fetch throws: the request goes on without its caller.
NetworkFails(r) ==
  /\ faults < MaxFaults
  /\ faults' = faults + 1
  /\ \E c \in call[r] : Take(c, FALSE, NoToken)
  /\ call' = [call EXCEPT ![r] = {}]
  /\ crossed' = TRUE
  /\ UNCHANGED vars

-----------------------------------------------------------------------------
(* Specification.                                                          *)

Backend ==
  /\ \/ \E r \in Requests :
          \/ LoginReadUser(r) \/ LoginCreate(r) \/ Issue(r)
          \/ RefreshFind(r) \/ RefreshReadUser(r) \/ Rotate(r)
          \/ Logout(r)
          \/ Status(r)
     \/ Settle
  /\ UNCHANGED browser

BackendCrash ==
  /\ Crash
  /\ faults < MaxFaults
  /\ faults' = faults + 1
  /\ crossed' = (crossed \/ \E r \in Requests : Busy(r) /\ ~Administers(r))
  /\ UNCHANGED <<screen, mem, stored, call>>

CNext ==
  \/ \E b \in Tabs : Open(b) \/ SignIn(b) \/ Refreshes(b) \/ SignOut(b) \/ Close(b)
  \/ \E r \in Requests : Receive(r) \/ AnswerNobody(r) \/ NetworkFails(r)
  \/ Backend
  \/ BackendCrash

CSpec == CInit /\ [][CNext]_cvars

-----------------------------------------------------------------------------
(* Properties.                                                             *)

\* As long as calls take turns and are answered, whenever none is in flight
\* the browser and the backend agree: an open tab's copy is what is stored,
\* and, unless an administrator revoked it, the stored session is live, and
\* no other is. So a reload restores the session, a sign-out ends it, and a
\* refresh leaves none behind.
BrowserAgrees ==
  ~crossed /\ Quiet =>
    /\ \A b \in Tabs : screen[b] # "closed" => mem[b] = stored
    /\ admin = 0 => live = {stored} \ {NoToken}
=============================================================================
