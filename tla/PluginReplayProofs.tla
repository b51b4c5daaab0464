------------------------- MODULE PluginReplayProofs -------------------------
(***************************************************************************)
(* For any number of messages, overlapping deliveries and any length of    *)
(* time: verifyRequest accepts a message at most once, provided the clocks *)
(* differ and handlers linger by no more than Skew together                *)
(* (ClockAssumption). The invariant Window follows one inequality from the *)
(* freshness check over the row to its pruning:                            *)
(*                                                                         *)
(*     stamp + 2 * Skew  <=  expires_at + Ahead                            *)
(*                                                                         *)
(* so that a pruned row belongs to a message that no handler can still     *)
(* hold.                                                                   *)
(***************************************************************************)
EXTENDS PluginReplay, TLAPS

\* No message has a timestamp further ahead of the clock than Ahead.
Stamps == \A m \in sent : stamp[m] <= now + Ahead

\* A handler in progress holds a message that was fresh when it began, at
\* most Delay ago; the expiry it is about to write covers the window.
InProgress(d) ==
  handler[d].at # "idle" =>
    /\ handler[d].msg \in sent
    /\ handler[d].since <= now
    /\ now <= handler[d].since + Delay
    /\ handler[d].since <= stamp[handler[d].msg] + Skew
    /\ handler[d].at = "consume" =>
         stamp[handler[d].msg] + 2 * Skew <= handler[d].expires + Ahead

\* What is known of a message by its row: a message that was accepted and has
\* no row any more is out of the window; one that was never accepted has none.
Window(m) ==
  /\ accepted[m] <= 1
  /\ accepted[m] > 0 => m \in sent
  /\ nonces[m] # NoRow => accepted[m] > 0 /\ stamp[m] + 2 * Skew <= nonces[m] + Ahead
  /\ accepted[m] > 0 /\ nonces[m] = NoRow => stamp[m] + 2 * Skew < now + Ahead

WindowInv ==
  /\ TypeOK
  /\ Stamps
  /\ \A d \in Handlers : InProgress(d)
  /\ \A m \in Messages : Window(m)

-----------------------------------------------------------------------------
HandlerState == [at : {"idle", "verify", "consume"}, msg : Messages,
                 since : Nat, expires : Nat]

\* The record of an idle handler is well typed.
LEMMA IdleType == Idle \in HandlerState /\ Idle.at = "idle"
  BY MessagesAssumption DEF Idle, NoMessage, HandlerState

LEMMA InitWindow == Init => WindowInv
  BY IdleType, MaxTimeAssumption
  DEF Init, WindowInv, TypeOK, Stamps, InProgress, Window, HandlerState, NoRow

\* A handler that goes back to idle disturbs nothing.
LEMMA BackToIdle ==
  ASSUME WindowInv, NEW d \in Handlers,
         handler' = [handler EXCEPT ![d] = Idle]
  PROVE  /\ handler' \in [Handlers -> HandlerState]
         /\ \A e \in Handlers : handler'[e].at # "idle" => handler'[e] = handler[e]
  BY IdleType DEF WindowInv, TypeOK, HandlerState

\* The message is new to the backend: no row, no handler and no acceptance
\* mentions it yet.
LEMMA SendKeeps ==
  ASSUME WindowInv, NEW m \in Messages, NEW t \in 0 .. MaxTime + Ahead, Send(m, t)
  PROVE  WindowInv'
<1>1. TypeOK'
  BY MaxTimeAssumption, ClockAssumption DEF WindowInv, TypeOK, Send
<1>2. Stamps'
  BY DEF WindowInv, TypeOK, Stamps, Send
<1>3. \A d \in Handlers : InProgress(d)'
  BY DEF WindowInv, TypeOK, InProgress, Send
<1>4. nonces[m] = NoRow
  BY DEF WindowInv, Window, Send
<1>5. \A n \in Messages : Window(n)'
  BY <1>4 DEF WindowInv, TypeOK, Window, Send
<1> QED
  BY <1>1, <1>2, <1>3, <1>5 DEF WindowInv

LEMMA DeliverKeeps ==
  ASSUME WindowInv, NEW d \in Handlers, NEW m \in Messages, Deliver(d, m)
  PROVE  WindowInv'
<1>1. TypeOK'
  BY DEF WindowInv, TypeOK, Deliver
<1>2. Stamps' /\ \A n \in Messages : Window(n)'
  BY DEF WindowInv, Stamps, Window, Deliver
<1>3. \A e \in Handlers : InProgress(e)'
  <2> SUFFICES ASSUME NEW e \in Handlers PROVE InProgress(e)'
    OBVIOUS
  <2>1. CASE e = d
    BY <2>1, ClockAssumption DEF WindowInv, TypeOK, Deliver, isTimestampFresh, InProgress
  <2>2. CASE e # d
    BY <2>2 DEF WindowInv, TypeOK, Deliver, InProgress
  <2> QED
    BY <2>1, <2>2
<1> QED
  BY <1>1, <1>2, <1>3 DEF WindowInv

\* expires_at is computed from a clock no earlier than the freshness check.
LEMMA CheckSignatureKeeps ==
  ASSUME WindowInv, NEW d \in Handlers, CheckSignature(d)
  PROVE  WindowInv'
<1>1. TypeOK'
  <2>1. handler[d] \in HandlerState /\ now + 2 * Skew \in Nat
    BY SkewAssumption, MaxTimeAssumption DEF WindowInv, TypeOK, HandlerState
  <2>2. [handler[d] EXCEPT !.at = "consume", !.expires = now + 2 * Skew] \in HandlerState
    BY <2>1 DEF HandlerState
  <2> QED
    BY <2>2 DEF WindowInv, TypeOK, CheckSignature, HandlerState
<1>2. Stamps' /\ \A n \in Messages : Window(n)'
  BY DEF WindowInv, Stamps, Window, CheckSignature
<1>3. \A e \in Handlers : InProgress(e)'
  <2> SUFFICES ASSUME NEW e \in Handlers PROVE InProgress(e)'
    OBVIOUS
  <2>1. CASE e = d
    <3>1. handler[d].msg \in sent /\ stamp[handler[d].msg] <= now + Ahead
      BY DEF WindowInv, CheckSignature, InProgress, Stamps
    <3>2. /\ handler'[d].msg = handler[d].msg /\ handler'[d].since = handler[d].since
          /\ handler'[d].expires = now + 2 * Skew
      BY DEF WindowInv, TypeOK, CheckSignature
    <3>3. UNCHANGED <<now, sent, stamp>>
      BY DEF CheckSignature
    <3>4. InProgress(d) /\ handler[d].at # "idle" /\ stamp[handler[d].msg] \in Nat
      BY DEF WindowInv, TypeOK, CheckSignature
    <3>5. handler'[d].expires + Ahead = now + 2 * Skew + Ahead
      BY <3>2
    <3>6. stamp[handler[d].msg] + 2 * Skew <= now + 2 * Skew + Ahead
      BY <3>1, <3>4, ClockAssumption, SkewAssumption DEF WindowInv, TypeOK
    <3> QED
      BY <2>1, <3>2, <3>3, <3>4, <3>5, <3>6 DEF InProgress
  <2>2. CASE e # d
    BY <2>2 DEF WindowInv, TypeOK, CheckSignature, InProgress
  <2> QED
    BY <2>1, <2>2
<1> QED
  BY <1>1, <1>2, <1>3 DEF WindowInv

\* A handler at its INSERT finds no row only for a message that was never
\* accepted: were it accepted and its row pruned, more than Skew - Ahead,
\* hence at least Delay, would have passed since the message ceased to be
\* fresh.
LEMMA NoRowMeansNew ==
  ASSUME WindowInv, NEW d \in Handlers, handler[d].at # "idle",
         nonces[handler[d].msg] = NoRow
  PROVE  handler[d].msg \in sent /\ accepted[handler[d].msg] = 0
<1> DEFINE m == handler[d].msg
<1>1. /\ m \in Messages /\ m \in sent
      /\ now <= stamp[m] + Skew + Delay
  BY SkewAssumption, ClockAssumption DEF WindowInv, TypeOK, InProgress
<1>2. ~(stamp[m] + 2 * Skew < now + Ahead)
  BY <1>1, SkewAssumption, ClockAssumption DEF WindowInv, TypeOK
<1>3. ~(accepted[m] > 0)
  BY <1>1, <1>2 DEF WindowInv, Window
<1> QED
  BY <1>1, <1>3 DEF WindowInv, TypeOK

LEMMA ConsumeNonceKeeps ==
  ASSUME WindowInv, NEW d \in Handlers, ConsumeNonce(d)
  PROVE  WindowInv'
<1> DEFINE m == handler[d].msg
<1>1. m \in Messages /\ m \in sent /\ accepted[m] = 0
  BY NoRowMeansNew DEF WindowInv, TypeOK, ConsumeNonce
<1>2. TypeOK'
  BY IdleType, <1>1 DEF WindowInv, TypeOK, ConsumeNonce, HandlerState
<1>3. Stamps'
  BY DEF WindowInv, Stamps, ConsumeNonce
<1>4. \A e \in Handlers : InProgress(e)'
  BY BackToIdle DEF WindowInv, InProgress, ConsumeNonce
<1>5. \A n \in Messages : Window(n)'
  <2> SUFFICES ASSUME NEW n \in Messages PROVE Window(n)'
    OBVIOUS
  <2>1. CASE n = m
    <3>1. stamp[m] + 2 * Skew <= handler[d].expires + Ahead
      BY DEF WindowInv, InProgress, ConsumeNonce
    <3>2. nonces'[m] = handler[d].expires /\ accepted'[m] = 1 /\ handler[d].expires \in Nat
      BY <1>1 DEF WindowInv, TypeOK, ConsumeNonce
    <3>3. handler[d].expires # NoRow
      BY <1>1, <3>1, <3>2, SkewAssumption, ClockAssumption DEF WindowInv, TypeOK, NoRow
    <3> QED
      BY <1>1, <2>1, <3>1, <3>2, <3>3 DEF Window, ConsumeNonce
  <2>2. CASE n # m
    BY <2>2 DEF WindowInv, TypeOK, Window, ConsumeNonce
  <2> QED
    BY <2>1, <2>2
<1> QED
  BY <1>2, <1>3, <1>4, <1>5 DEF WindowInv

\* A handler that gives up: refused, or a replay.
LEMMA GiveUpKeeps ==
  ASSUME WindowInv, NEW d \in Handlers, Refuse(d) \/ RejectReplay(d)
  PROVE  WindowInv'
<1>0. /\ handler' = [handler EXCEPT ![d] = Idle]
      /\ UNCHANGED <<now, sent, stamp, nonces, prunes, accepted>>
  BY DEF Refuse, RejectReplay
<1>1. TypeOK'
  BY <1>0, BackToIdle DEF WindowInv, TypeOK, HandlerState
<1>2. Stamps' /\ \A n \in Messages : Window(n)'
  BY <1>0 DEF WindowInv, Stamps, Window
<1>3. \A e \in Handlers : InProgress(e)'
  BY <1>0, BackToIdle DEF WindowInv, InProgress
<1> QED
  BY <1>1, <1>2, <1>3 DEF WindowInv

\* A row goes only once the clock has passed its expires_at.
LEMMA PruneKeeps ==
  ASSUME WindowInv, pruneExpiredNonces
  PROVE  WindowInv'
<1>1. TypeOK'
  BY DEF WindowInv, TypeOK, pruneExpiredNonces, NoRow
<1>2. Stamps' /\ \A e \in Handlers : InProgress(e)'
  BY DEF WindowInv, Stamps, InProgress, pruneExpiredNonces
<1>3. \A n \in Messages : Window(n)'
  <2> SUFFICES ASSUME NEW n \in Messages PROVE Window(n)'
    OBVIOUS
  <2>1. CASE nonces[n] # NoRow /\ nonces[n] < now
    BY <2>1, SkewAssumption, ClockAssumption
    DEF WindowInv, TypeOK, Window, pruneExpiredNonces, NoRow
  <2>2. CASE ~(nonces[n] # NoRow /\ nonces[n] < now)
    BY <2>2 DEF WindowInv, Window, pruneExpiredNonces, NoRow
  <2> QED
    BY <2>1, <2>2
<1> QED
  BY <1>1, <1>2, <1>3 DEF WindowInv

LEMMA TickKeeps ==
  ASSUME WindowInv, Tick
  PROVE  WindowInv'
<1>1. TypeOK'
  BY MaxTimeAssumption DEF WindowInv, TypeOK, Tick
<1>2. Stamps'
  BY ClockAssumption DEF WindowInv, TypeOK, Stamps, Tick
<1>3. \A e \in Handlers : InProgress(e)'
  BY ClockAssumption DEF WindowInv, TypeOK, InProgress, Tick
<1>4. \A n \in Messages : Window(n)'
  BY SkewAssumption, ClockAssumption DEF WindowInv, TypeOK, Window, Tick
<1> QED
  BY <1>1, <1>2, <1>3, <1>4 DEF WindowInv

LEMMA CrashKeeps ==
  ASSUME WindowInv, Crash
  PROVE  WindowInv'
  BY IdleType DEF WindowInv, TypeOK, Stamps, InProgress, Window, Crash, HandlerState

LEMMA WindowInductive ==
  ASSUME WindowInv, [Next]_vars
  PROVE  WindowInv'
<1>1. ASSUME NEW m \in Messages, NEW t \in 0 .. MaxTime + Ahead, Send(m, t)
      PROVE  WindowInv'
  BY <1>1, SendKeeps
<1>2. ASSUME NEW d \in Handlers, Serve(d) PROVE WindowInv'
  BY <1>2, DeliverKeeps, CheckSignatureKeeps, ConsumeNonceKeeps, GiveUpKeeps DEF Serve
<1>3. CASE UNCHANGED vars
  BY <1>3 DEF vars, WindowInv, TypeOK, Stamps, InProgress, Window
<1> QED
  BY <1>1, <1>2, <1>3, PruneKeeps, TickKeeps, CrashKeeps DEF Next

LEMMA WindowAlways == Spec => []WindowInv
  BY InitWindow, WindowInductive, PTL DEF Spec

-----------------------------------------------------------------------------
\* Rows, handlers and clocks stay well typed.
THEOREM TypeCorrect == Spec => []TypeOK
<1>1. WindowInv => TypeOK
  BY DEF WindowInv
<1> QED
  BY <1>1, WindowAlways, PTL

\* No signed request gets through verifyRequest twice.
THEOREM AcceptedOnceHolds == Spec => []AcceptedOnce
<1>1. WindowInv => AcceptedOnce
  BY DEF WindowInv, Window, AcceptedOnce
<1> QED
  BY <1>1, WindowAlways, PTL

\* A pruned nonce belongs to a message that is not fresh any more and that
\* no handler holds.
THEOREM ForgottenIsHarmlessHolds == Spec => []ForgottenIsHarmless
<1>1. WindowInv => ForgottenIsHarmless
  <2> SUFFICES ASSUME WindowInv, NEW m \in Messages, accepted[m] > 0, nonces[m] = NoRow
               PROVE  /\ ~isTimestampFresh(stamp[m])
                      /\ \A d \in Handlers : handler[d].at # "idle" => handler[d].msg # m
    BY DEF ForgottenIsHarmless
  <2>1. ~isTimestampFresh(stamp[m])
    BY SkewAssumption, ClockAssumption DEF WindowInv, TypeOK, Window, isTimestampFresh
  <2>2. \A d \in Handlers : handler[d].at # "idle" => handler[d].msg # m
    BY NoRowMeansNew
  <2> QED
    BY <2>1, <2>2
<1> QED
  BY <1>1, WindowAlways, PTL

\* verifyRequest implements at-most-once delivery: every step is a step of
\* the abstract specification or a stutter.
THEOREM Refinement == Spec => ImplementsAtMostOnce
<1>1. Init => Once!AbstractInit
  BY DEF Init, Once!AbstractInit
<1>2. WindowInv /\ [Next]_vars => [Once!AbstractNext]_Once!abstractVars
  <2> SUFFICES ASSUME WindowInv, [Next]_vars
               PROVE  [Once!AbstractNext]_Once!abstractVars
    OBVIOUS
  <2> USE DEF Once!AbstractNext, Once!abstractVars
  <2>1. ASSUME NEW m \in Messages, NEW t \in 0 .. MaxTime + Ahead, Send(m, t)
        PROVE  Once!Issue({m})
    BY <2>1 DEF Send, Once!Issue
  <2>2. ASSUME NEW d \in Handlers, ConsumeNonce(d)
        PROVE  handler[d].msg \in Messages /\ Once!TakeEffect(handler[d].msg)
    <3>1. /\ handler[d].msg \in Messages /\ handler[d].msg \in sent
          /\ accepted[handler[d].msg] = 0
      BY <2>2, NoRowMeansNew DEF WindowInv, TypeOK, ConsumeNonce
    <3> QED
      BY <2>2, <3>1 DEF ConsumeNonce, Once!TakeEffect
  <2>3. ASSUME NEW d \in Handlers, Serve(d), ~ConsumeNonce(d)
        PROVE  UNCHANGED <<sent, accepted>>
    BY <2>3 DEF Serve, Deliver, Refuse, CheckSignature, RejectReplay
  <2>4. CASE pruneExpiredNonces \/ Tick \/ Crash \/ UNCHANGED vars
    BY <2>4 DEF pruneExpiredNonces, Tick, Crash, vars
  <2> QED
    BY <2>1, <2>2, <2>3, <2>4 DEF Next
<1> QED
  BY <1>1, <1>2, WindowAlways, PTL DEF Spec, ImplementsAtMostOnce, Once!AbstractSpec
=============================================================================
