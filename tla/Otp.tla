-------------------------------- MODULE Otp --------------------------------
(***************************************************************************)
(* One-time login codes of one mobile number                               *)
(* (services/api/src/services/otpService.ts). A code is its place in the   *)
(* order of otp_code.created_at; that a code is guessed, that two codes    *)
(* are equal, and the portal a code was issued for, are left out.          *)
(***************************************************************************)
EXTENDS Handlers, Sequences

CONSTANTS
  PerHour,       \* OTP_REQUESTS_PER_HOUR
  MaxAttempts,   \* OTP_MAX_ATTEMPTS
  Cooldown,      \* OTP_RESEND_COOLDOWN_SECONDS, in ticks
  Ttl,           \* OTP_TTL_SECONDS, in ticks
  Hour,          \* an hour, in ticks
  MaxTicks       \* bound on the clock

ASSUME OtpAssumption ==
  /\ PerHour \in Nat \ {0} /\ MaxAttempts \in Nat \ {0}
  /\ Cooldown \in Nat /\ Ttl \in Nat \ {0} /\ Hour \in Nat \ {0} /\ MaxTicks \in Nat

VARIABLES
  ticks,   \* the clock
  codes,   \* otp_code, oldest first; missed and logins are history: the wrong
           \* guesses compared with a code, and the logins it let in
  otp      \* per request: where its handler stands, and the code it holds

otpVars == <<ticks, codes, otp>>

Code == [at : 0 .. MaxTicks, attempts : Nat, consumed : BOOLEAN, missed : Nat, logins : Nat]
OtpSteps == {"idle", "limit", "cooldown", "sms", "insert", "select", "miss", "consume"}
OtpHandler == [at : OtpSteps, code : Nat]
OtpIdle == [at |-> "idle", code |-> 0]

OtpTypeOK ==
  /\ ticks \in 0 .. MaxTicks
  /\ codes \in Seq(Code)
  /\ otp \in [Requests -> OtpHandler]

OtpInit ==
  /\ ticks = 0
  /\ codes = <<>>
  /\ otp = [r \in Requests |-> OtpIdle]

-----------------------------------------------------------------------------
OtpGoto(r, step) == otp' = [otp EXCEPT ![r] = [@ EXCEPT !.at = step]]
OtpEnd(r) == otp' = [otp EXCEPT ![r] = OtpIdle]

\* Codes requested within the hour that ends at t.
Recent(t) == {i \in 1 .. Len(codes) : codes[i].at <= t /\ codes[i].at + Hour > t}

\* requestOtp.
AskCode(r) ==
  /\ otp[r].at = "idle"
  /\ OtpGoto(r, "limit")
  /\ UNCHANGED <<ticks, codes>>

\* assertWithinHourlyLimit.
HourlyLimit(r) ==
  /\ otp[r].at = "limit"
  /\ IF Cardinality(Recent(ticks)) >= PerHour THEN OtpEnd(r) ELSE OtpGoto(r, "cooldown")
  /\ UNCHANGED <<ticks, codes>>

\* assertResendCooldown.
ResendCooldown(r) ==
  /\ otp[r].at = "cooldown"
  /\ IF codes # <<>> /\ ticks < codes[Len(codes)].at + Cooldown
     THEN OtpEnd(r) ELSE OtpGoto(r, "sms")
  /\ UNCHANGED <<ticks, codes>>

\* sendOtpSms: a failure leaves no row behind.
SendCode(r) ==
  /\ otp[r].at = "sms"
  /\ OtpGoto(r, "insert") \/ OtpEnd(r)
  /\ UNCHANGED <<ticks, codes>>

InsertCode(r) ==
  /\ otp[r].at = "insert"
  /\ codes' = Append(codes, [at |-> ticks, attempts |-> 0, consumed |-> FALSE,
                             missed |-> 0, logins |-> 0])
  /\ OtpEnd(r)
  /\ UNCHANGED ticks

\* verifyOtp with the code of row i; 0 is a code no row has.
VerifyOtp(r, i) ==
  /\ otp[r].at = "idle"
  /\ otp' = [otp EXCEPT ![r] = [at |-> "select", code |-> i]]
  /\ UNCHANGED <<ticks, codes>>

\* The newest row that is neither consumed nor expired decides.
SelectCode(r) ==
  /\ otp[r].at = "select"
  /\ LET good == {i \in 1 .. Len(codes) : ~codes[i].consumed /\ ticks < codes[i].at + Ttl}
     IN IF good = {}
        THEN OtpEnd(r)
        ELSE \E i \in good :
               /\ \A j \in good : j <= i
               /\ IF codes[i].attempts >= MaxAttempts
                  THEN OtpEnd(r)
                  ELSE otp' = [otp EXCEPT ![r] =
                                 [at |-> IF otp[r].code = i THEN "consume" ELSE "miss", code |-> i]]
  /\ UNCHANGED <<ticks, codes>>

\* Mutant: a wrong guess is not counted.
CountMissForgotten(r) ==
  /\ otp[r].at = "miss"
  /\ codes' = [codes EXCEPT ![otp[r].code].missed = @ + 1]
  /\ OtpEnd(r)
  /\ UNCHANGED ticks

\* UPDATE otp_code SET attempts = attempts + 1.
CountMiss(r) ==
  /\ otp[r].at = "miss"
  /\ codes' = [codes EXCEPT ![otp[r].code].missed = @ + 1, ![otp[r].code].attempts = @ + 1]
  /\ OtpEnd(r)
  /\ UNCHANGED ticks

ConsumeCode(r) ==
  /\ otp[r].at = "consume"
  /\ codes' = [codes EXCEPT ![otp[r].code].consumed = TRUE, ![otp[r].code].logins = @ + 1]
  /\ OtpEnd(r)
  /\ UNCHANGED ticks

\* The client is gone or a statement fails; the process dies.
OtpAbandon(r) ==
  /\ otp[r].at # "idle"
  /\ OtpEnd(r)
  /\ UNCHANGED <<ticks, codes>>

Tick ==
  /\ ticks < MaxTicks
  /\ ticks' = ticks + 1
  /\ UNCHANGED <<codes, otp>>

OtpNext ==
  \/ \E r \in Requests :
       \/ AskCode(r) \/ HourlyLimit(r) \/ ResendCooldown(r) \/ SendCode(r) \/ InsertCode(r)
       \/ \E i \in 0 .. Len(codes) : VerifyOtp(r, i)
       \/ SelectCode(r) \/ CountMiss(r) \/ ConsumeCode(r) \/ OtpAbandon(r)
  \/ Tick

OtpSpec == OtpInit /\ [][OtpNext]_otpVars

-----------------------------------------------------------------------------
(* Property.                                                               *)

\* "Attempt-limited, single-use, and per-mobile rate-limited" (otpService.ts):
\* every limit is checked by one statement and used up by a later one, so it
\* is exceeded by requests that overlap, and by no more than are in flight.
CodesAreLimited ==
  /\ \A i \in 1 .. Len(codes) :
       /\ codes[i].missed < MaxAttempts + Cardinality(Requests)
       /\ codes[i].logins <= Cardinality(Requests)
  /\ \A t \in 0 .. ticks : Cardinality(Recent(t)) < PerHour + Cardinality(Requests)
=============================================================================
