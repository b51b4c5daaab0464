---------------------------- MODULE PluginReplay ----------------------------
(***************************************************************************)
(* Replay protection of the plugin transport: verifyRequest of             *)
(* services/api http/routes/plugin.ts with isTimestampFresh, consumeNonce  *)
(* and pruneExpiredNonces of services/plugin/replayGuard.ts, for one site, *)
(* under a clock that moves while handlers wait for the database.          *)
(*                                                                         *)
(* A message is one signed request: its timestamp and its nonce (one per   *)
(* message: the plugin draws a UUID) are covered by the signature, so a    *)
(* delivery repeats both. The network may deliver a message any number of  *)
(* times, to handlers that overlap, or never.                              *)
(*                                                                         *)
(* The site, connection, secret and signature checks between the freshness *)
(* check and the nonce are module PluginConnection's; here they pass or    *)
(* they do not. A delivery refused at once (stale timestamp) changes no    *)
(* state and has no action.                                                *)
(***************************************************************************)
EXTENDS Integers

CONSTANTS
  Messages,   \* signed requests
  Handlers,   \* requests the API serves at the same time
  Skew,       \* PLUGIN_TIMESTAMP_SKEW_SECONDS
  Ahead,      \* how far the plugin's clock may be ahead of the backend's
  Delay,      \* how long a handler may take from freshness check to nonce
  MaxTime     \* bound on the clock

ASSUME MessagesAssumption == Messages # {}
ASSUME SkewAssumption == Skew \in Nat \ {0}
ASSUME MaxTimeAssumption == MaxTime \in Nat
\* What the window of the nonces relies on. The code enforces neither bound:
\* a clock more than Skew ahead is refused, and handlers have no deadline.
ASSUME ClockAssumption ==
  Ahead \in Nat /\ Delay \in Nat /\ Ahead + Delay <= Skew

VARIABLES
  now,       \* the backend's clock (the database's is the same)
  sent,      \* messages the plugin has signed
  stamp,     \* their timestamps, from the plugin's clock
  nonces,    \* replay_nonce: expires_at of the message's row, or NoRow
  handler,   \* where each verifyRequest stands
  prunes,    \* detached pruneExpiredNonces not executed yet
  accepted   \* how often verifyRequest returned for the message

vars == <<now, sent, stamp, nonces, handler, prunes, accepted>>

NoRow == 0
NoMessage == CHOOSE m \in Messages : TRUE
Idle == [at |-> "idle", msg |-> NoMessage, since |-> 0, expires |-> 0]

TypeOK ==
  /\ now \in 0 .. MaxTime
  /\ sent \in SUBSET Messages
  /\ stamp \in [Messages -> Nat]
  /\ nonces \in [Messages -> Nat]
  /\ handler \in [Handlers -> [at : {"idle", "verify", "consume"}, msg : Messages,
                               since : Nat, expires : Nat]]
  /\ prunes \in Nat
  /\ accepted \in [Messages -> Nat]

Init ==
  /\ now = 0
  /\ sent = {}
  /\ stamp = [m \in Messages |-> 0]
  /\ nonces = [m \in Messages |-> NoRow]
  /\ handler = [d \in Handlers |-> Idle]
  /\ prunes = 0
  /\ accepted = [m \in Messages |-> 0]

-----------------------------------------------------------------------------
\* Math.abs(Date.now() - t) <= skewMs
isTimestampFresh(t) == now <= t + Skew /\ t <= now + Skew

\* The plugin signs a request with the time its own clock shows.
Send(m, t) ==
  /\ m \notin sent
  /\ t <= now + Ahead
  /\ sent' = sent \cup {m}
  /\ stamp' = [stamp EXCEPT ![m] = t]
  /\ UNCHANGED <<now, nonces, handler, prunes, accepted>>

\* A delivery (the first or a repeated one) passes the freshness check.
Deliver(d, m) ==
  /\ handler[d].at = "idle"
  /\ m \in sent
  /\ isTimestampFresh(stamp[m])
  /\ handler' = [handler EXCEPT ![d] =
                   [at |-> "verify", msg |-> m, since |-> now, expires |-> 0]]
  /\ UNCHANGED <<now, sent, stamp, nonces, prunes, accepted>>

\* Unknown, revoked or disconnected site, no secret, or a bad signature.
Refuse(d) ==
  /\ handler[d].at = "verify"
  /\ handler' = [handler EXCEPT ![d] = Idle]
  /\ UNCHANGED <<now, sent, stamp, nonces, prunes, accepted>>

\* Mutant: the row lives one window only.
CheckSignatureOneWindow(d) ==
  /\ handler[d].at = "verify"
  /\ handler' = [handler EXCEPT ![d] =
                   [@ EXCEPT !.at = "consume", !.expires = now + Skew]]
  /\ UNCHANGED <<now, sent, stamp, nonces, prunes, accepted>>

\* The signature is right. consumeNonce reads the clock for expires_at here
\* and sends its INSERT.
CheckSignature(d) ==
  /\ handler[d].at = "verify"
  /\ handler' = [handler EXCEPT ![d] =
                   [@ EXCEPT !.at = "consume", !.expires = now + 2 * Skew]]
  /\ UNCHANGED <<now, sent, stamp, nonces, prunes, accepted>>

\* Mutant: a row that is already there is overwritten.
ConsumeNonceUpsert(d) ==
  /\ handler[d].at = "consume"
  /\ nonces' = [nonces EXCEPT ![handler[d].msg] = handler[d].expires]
  /\ accepted' = [accepted EXCEPT ![handler[d].msg] = @ + 1]
  /\ handler' = [handler EXCEPT ![d] = Idle]
  /\ prunes' = prunes + 1
  /\ UNCHANGED <<now, sent, stamp>>

\* The INSERT finds no row: the request is accepted, a prune is sent.
ConsumeNonce(d) ==
  /\ handler[d].at = "consume"
  /\ nonces[handler[d].msg] = NoRow
  /\ nonces' = [nonces EXCEPT ![handler[d].msg] = handler[d].expires]
  /\ accepted' = [accepted EXCEPT ![handler[d].msg] = @ + 1]
  /\ handler' = [handler EXCEPT ![d] = Idle]
  /\ prunes' = prunes + 1
  /\ UNCHANGED <<now, sent, stamp>>

\* ON CONFLICT DO NOTHING: a replay, even if the row has expired.
RejectReplay(d) ==
  /\ handler[d].at = "consume"
  /\ nonces[handler[d].msg] # NoRow
  /\ handler' = [handler EXCEPT ![d] = Idle]
  /\ UNCHANGED <<now, sent, stamp, nonces, prunes, accepted>>

\* DELETE ... WHERE expires_at < now()
pruneExpiredNonces ==
  /\ prunes > 0
  /\ prunes' = prunes - 1
  /\ nonces' = [m \in Messages |-> IF nonces[m] < now THEN NoRow ELSE nonces[m]]
  /\ UNCHANGED <<now, sent, stamp, handler, accepted>>

-----------------------------------------------------------------------------
\* Time passes, but no handler outlives its Delay.
Tick ==
  /\ now < MaxTime
  /\ \A d \in Handlers : handler[d].at # "idle" => now < handler[d].since + Delay
  /\ now' = now + 1
  /\ UNCHANGED <<sent, stamp, nonces, handler, prunes, accepted>>

\* The API process restarts: what it was doing is gone, the rows stay.
Crash ==
  /\ handler' = [d \in Handlers |-> Idle]
  /\ prunes' = 0
  /\ UNCHANGED <<now, sent, stamp, nonces, accepted>>

Serve(d) ==
  \/ \E m \in Messages : Deliver(d, m)
  \/ Refuse(d) \/ CheckSignature(d) \/ ConsumeNonce(d) \/ RejectReplay(d)

Next ==
  \/ \E m \in Messages, t \in 0 .. MaxTime + Ahead : Send(m, t)
  \/ \E d \in Handlers : Serve(d)
  \/ pruneExpiredNonces
  \/ Tick
  \/ Crash

Spec == Init /\ [][Next]_vars

-----------------------------------------------------------------------------
\* replayGuard.ts: "A (site, nonce) pair may be accepted only once". However
\* deliveries overlap, and whenever expired rows are pruned, no message gets
\* through verifyRequest twice.
AcceptedOnce == \A m \in Messages : accepted[m] <= 1

\* Why: when the row of an accepted message is gone, the message is too old
\* to be fresh, and no handler that found it fresh is still on its way to
\* the nonce.
ForgottenIsHarmless ==
  \A m \in Messages :
    accepted[m] > 0 /\ nonces[m] = NoRow =>
      /\ ~isTimestampFresh(stamp[m])
      /\ \A d \in Handlers : handler[d].at # "idle" => handler[d].msg # m

\* verifyRequest implements at-most-once delivery.
Once == INSTANCE AtMostOnce WITH Items <- Messages, issued <- sent, effects <- accepted

ImplementsAtMostOnce == Once!AbstractSpec
=============================================================================
