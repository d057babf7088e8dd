---------------------------- MODULE MCAccessPolicy ----------------------------
(* AccessPolicy on a small instance. *)
EXTENDS AccessPolicy, TLC

OneAlias == "admin" :> "admin"

CriticalMfaDevice ==
  [actions |-> OnSecrets, sensitivities |-> {"critical"}, teams |-> {}, mfa |-> TRUE,
   device |-> TRUE, export |-> FALSE, share |-> FALSE, enabled |-> TRUE]
ProductionShareGuard ==
  [actions |-> {"share_secret"}, sensitivities |-> {}, teams |-> {"Production"}, mfa |-> FALSE,
   device |-> FALSE, export |-> FALSE, share |-> TRUE, enabled |-> TRUE]

ManagingNeedsMfa ==
  [actions |-> {"manage_policy"}, sensitivities |-> {}, teams |-> {}, mfa |-> TRUE,
   device |-> FALSE, export |-> FALSE, share |-> FALSE, enabled |-> TRUE]

SomeRules == {CriticalMfaDevice, ProductionShareGuard, ManagingNeedsMfa}
StarterPack == <<CriticalMfaDevice>>

On(sensitivity, groups, team, ok) ==
  [sensitivity |-> sensitivity, groups |-> groups, team |-> team, has_totp |-> ok,
   revealed |-> ok, audit_ok |-> ok]

SomeContexts ==
  {On("standard", {}, "Personal", FALSE), On("standard", {"ops"}, "Production", TRUE),
   On("high", {}, "Production", TRUE), On("critical", {}, "Personal", TRUE)}
=============================================================================
