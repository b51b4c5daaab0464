------------------------------ MODULE Services ------------------------------
(***************************************************************************)
(* The read-model and the backend's small services side by side. They      *)
(* share no rows, so that an interleaving of two of them shows nothing the *)
(* two do not show alone: in each behaviour one of them serves requests,   *)
(* and the others keep to their initial states.                            *)
(***************************************************************************)
EXTENDS ReadModel, Otp, Support, Payout, SummaryCache, Onboarding,
        SocialPublish

VARIABLE serving   \* the service of this behaviour

Init ==
  /\ serving \in {"read-model", "otp", "support", "payout", "cache", "onboarding",
                 "social"}
  /\ ReadInit /\ OtpInit /\ SupInit /\ PayInit /\ CacheInit /\ OnbInit
  /\ SocInit

Next ==
  \/ /\ serving = "read-model"
     /\ ReadNext
     /\ UNCHANGED <<serving, otpVars, supVars, payVars, cacheVars, onbVars, socVars>>
  \/ /\ serving = "otp"
     /\ OtpNext
     /\ UNCHANGED <<serving, readVars, supVars, payVars, cacheVars, onbVars, socVars>>
  \/ /\ serving = "support"
     /\ SupNext
     /\ UNCHANGED <<serving, readVars, otpVars, payVars, cacheVars, onbVars, socVars>>
  \/ /\ serving = "payout"
     /\ PayNext
     /\ UNCHANGED <<serving, readVars, otpVars, supVars, cacheVars, onbVars, socVars>>
  \/ /\ serving = "cache"
     /\ CacheNext
     /\ UNCHANGED <<serving, readVars, otpVars, supVars, payVars, onbVars, socVars>>
  \/ /\ serving = "onboarding"
     /\ OnbNext
     /\ UNCHANGED <<serving, readVars, otpVars, supVars, payVars, cacheVars, socVars>>
  \/ /\ serving = "social"
     /\ SocNext
     /\ UNCHANGED <<serving, readVars, otpVars, supVars, payVars, cacheVars, onbVars>>

Spec ==
  /\ Init
  /\ [][Next]_<<serving, readVars, otpVars, supVars, payVars, cacheVars, onbVars, socVars>>
=============================================================================
