------------------------- MODULE AccessPolicyProofs -------------------------
(***************************************************************************)
(* For any devices, groups, rules and contexts, packs of any length and    *)
(* any number of changes: the engine's verdicts are monotone in what a     *)
(* caller proves and in what the settings demand, and no identity gets     *)
(* around the second factor or a rule that binds everybody.                *)
(***************************************************************************)
EXTENDS AccessPolicy, TLAPS

USE DEF Toggles

-----------------------------------------------------------------------------
(* Types. *)

\* Rules may be taken out of a pack.
LEMMA RemovedIsPack ==
  ASSUME NEW S, NEW q \in Seq(S), NEW i \in DOMAIN q
  PROVE  [j \in 1..Len(q) - 1 |-> q[IF j < i THEN j ELSE j + 1]] \in Seq(S)
<1> DEFINE r == [j \in 1..Len(q) - 1 |-> q[IF j < i THEN j ELSE j + 1]]
<1>1. Len(q) \in Nat /\ DOMAIN q = 1..Len(q)
  OBVIOUS
<1>2. Len(q) - 1 \in Nat
  BY <1>1
<1>3. \A j \in 1..Len(q) - 1 : (IF j < i THEN j ELSE j + 1) \in 1..Len(q)
  BY <1>1
<1>4. \A j \in 1..Len(q) - 1 : q[IF j < i THEN j ELSE j + 1] \in S
  BY <1>1, <1>3
<1>5. r \in [1..Len(q) - 1 -> S]
  BY <1>4
<1> QED
  BY <1>2, <1>5

\* Settings stay settings when they are normalized, and once is enough.
LEMMA NormalizedType ==
  ASSUME NEW s \in VaultSettings
  PROVE  Normalized(s) \in VaultSettings /\ Normalized(Normalized(s)) = Normalized(s)
BY DEF Normalized, VaultSettings

\* The desktop's identity is one.
LEMMA DesktopType ==
  ASSUME NEW s \in VaultSettings
  PROVE  DesktopIdentity(s) \in EnterpriseIdentity
BY DEF DesktopIdentity, VaultSettings, EnterpriseIdentity

\* The claims of a token stand for a role: that of some alias, or member.
LEMMA RoleFromClaimsType ==
  ASSUME NEW roles \in Claims, NEW groups \in Claims
  PROVE  RoleFromClaims(roles \o groups) \in Roles
<1> DEFINE names == roles \o groups
           known == {i \in DOMAIN names : names[i] \in DOMAIN Aliases}
           first == CHOOSE i \in known : \A j \in known : i <= j
<1>1. DOMAIN names \subseteq {1, 2}
  BY DEF Claims
<1>2. CASE known = {}
  BY <1>2 DEF RoleFromClaims, Roles
<1>3. CASE known # {}
  <2>1. \E i \in known : \A j \in known : i <= j
    <3>1. known \subseteq {1, 2}
      BY <1>1
    <3>2. CASE 1 \in known
      BY <3>1, <3>2
    <3>3. CASE 1 \notin known
      BY <1>3, <3>1, <3>3
    <3> QED
      BY <3>2, <3>3
  <2> HIDE DEF known
  <2>2. first \in known
    BY <2>1
  <2>3. names[first] \in DOMAIN Aliases
    BY <2>2 DEF known
  <2>4. Aliases[names[first]] \in Roles
    BY <2>3, AccessAssumption
  <2>5. RoleFromClaims(names) = Aliases[names[first]]
    BY <1>3 DEF RoleFromClaims, known
  <2> QED
    BY <2>4, <2>5
<1> QED
  BY <1>2, <1>3

\* A token gives an identity.
LEMMA MapClaimsType ==
  ASSUME NEW roles \in Claims, NEW groups \in Claims, NEW mfa \in BOOLEAN,
         NEW device \in Devices, NEW trusted \in BOOLEAN
  PROVE  MapClaims(roles, groups, mfa, device, trusted) \in EnterpriseIdentity
<1>1. RoleFromClaims(roles \o groups) \in Roles
  BY RoleFromClaimsType
<1>2. \A q \in Claims : NamesIn(q) \subseteq Groups
  BY DEF Claims, NamesIn
<1>3. NamesIn(IF groups = <<>> THEN roles ELSE groups) \subseteq Groups
  BY <1>2
<1> QED
  BY <1>1, <1>3 DEF MapClaims, EnterpriseIdentity

-----------------------------------------------------------------------------
\* Every reachable state is well typed, its settings normalized: TypeOK is inductive.
LEMMA InitTypes == Init => TypeOK
<1> SUFFICES ASSUME Init PROVE TypeOK
  OBVIOUS
<1> DEFINE d == CHOOSE x \in Devices : TRUE
<1>1. d \in Devices
  BY AccessAssumption
<1>2. settings \in VaultSettings /\ settings = Normalized(settings)
  BY <1>1, AccessAssumption DEF Init, VaultSettings, Normalized, Roles
<1> QED
  BY <1>2, AccessAssumption DEF Init, TypeOK

\* What Configure stores, given settings, is settings.
LEMMA ConfigureTypes ==
  ASSUME TypeOK, NEW s \in VaultSettings, Configure(s)
  PROVE  TypeOK'
BY NormalizedType, AccessAssumption DEF Configure, Edit, TypeOK

\* Whoever is presented has an identity or none.
LEMMA PresentTypes ==
  ASSUME TypeOK, NEW id \in EnterpriseIdentity \cup {NoIdentity}, Present(id)
  PROVE  TypeOK'
BY AccessAssumption DEF Present, Edit, TypeOK

LEMMA NextTypes == TypeOK /\ [Next]_vars => TypeOK'
<1> SUFFICES ASSUME TypeOK, [Next]_vars PROVE TypeOK'
  OBVIOUS
<1> USE DEF TypeOK
<1>1. ASSUME NEW t \in Toggles, Toggle(t) PROVE TypeOK'
  <2>1. [settings EXCEPT !.on[t] = ~@] \in VaultSettings
    BY DEF VaultSettings
  <2> QED
    BY <1>1, <2>1, ConfigureTypes DEF Toggle
<1>2. ASSUME NEW r \in Roles, SetRole(r) PROVE TypeOK'
  <2>1. [settings EXCEPT !.role = r] \in VaultSettings
    BY DEF VaultSettings
  <2> QED
    BY <1>2, <2>1, ConfigureTypes DEF SetRole
<1>3. ASSUME NEW d \in Devices, SetDevice(d) \/ Trust(d) \/ Distrust(d) PROVE TypeOK'
  <2>1. /\ [settings EXCEPT !.device = d] \in VaultSettings
        /\ [settings EXCEPT !.trusted = @ \cup {d}] \in VaultSettings
        /\ [settings EXCEPT !.trusted = @ \ {d}] \in VaultSettings
    BY DEF VaultSettings
  <2> QED
    BY <1>3, <2>1, ConfigureTypes DEF SetDevice, Trust, Distrust
<1>4. ASSUME NEW r \in Rules, AddRule(r) PROVE TypeOK'
  <2>0. settings.rules \in Seq(Rules) /\ Append(settings.rules, r) \in Seq(Rules)
    BY DEF VaultSettings
  <2>1. [settings EXCEPT !.rules = Append(@, r)] \in VaultSettings
    BY <2>0 DEF VaultSettings
  <2> QED
    BY <1>4, <2>1, ConfigureTypes DEF AddRule
<1>5. ASSUME NEW i \in 1..MaxRules, RemoveRule(i) PROVE TypeOK'
  <2> DEFINE q == settings.rules
             left == [j \in 1..Len(q) - 1 |-> q[IF j < i THEN j ELSE j + 1]]
  <2>1. q \in Seq(Rules) /\ i \in DOMAIN q
    BY <1>5 DEF VaultSettings, RemoveRule
  <2>2. left \in Seq(Rules)
    BY <2>1, RemovedIsPack
  <2>3. [settings EXCEPT !.rules = left] \in VaultSettings
    BY <2>2 DEF VaultSettings
  <2>4. Configure([settings EXCEPT !.rules = left])
    BY <1>5 DEF RemoveRule
  <2> QED
    BY <2>3, <2>4, ConfigureTypes
<1>6. CASE UseDesktop
  BY <1>6, PresentTypes DEF UseDesktop
<1>7. ASSUME NEW roles \in Claims, NEW groups \in Claims, NEW mfa \in BOOLEAN,
             NEW trusted \in BOOLEAN, NEW d \in Devices, SignIn(roles, groups, mfa, d, trusted)
      PROVE  TypeOK'
  BY <1>7, MapClaimsType, PresentTypes DEF SignIn
<1>8. ASSUME NEW u \in Users, NEW d \in Devices, NEW trusted \in BOOLEAN,
             IdentityFor(u, d, trusted)
      PROVE  TypeOK'
  <2>1. users[u] \in ScimUser
    BY <1>8 DEF IdentityFor
  <2>2. [role |-> users[u].role, groups |-> users[u].groups, device |-> d, trusted |-> trusted,
         mfa |-> TRUE, break_glass |-> FALSE] \in EnterpriseIdentity
    BY <2>1 DEF ScimUser, EnterpriseIdentity
  <2> QED
    BY <1>8, <2>2, PresentTypes DEF IdentityFor
<1>9. ASSUME NEW on \in BOOLEAN, BreakGlass(on) PROVE TypeOK'
  <2>1. [who EXCEPT !.break_glass = on] \in EnterpriseIdentity
    BY <1>9 DEF BreakGlass, EnterpriseIdentity
  <2> QED
    BY <1>9, <2>1, PresentTypes DEF BreakGlass
<1>10. ASSUME NEW u \in Users, NEW role \in Roles, NEW groups \in SUBSET Groups,
              NEW active \in BOOLEAN, UpsertUser(u, role, groups, active)
       PROVE  TypeOK'
  <2>1. [role |-> role, groups |-> groups, active |-> active] \in ScimUser
    BY DEF ScimUser
  <2>2. users' \in [Users -> ScimUser \cup {NoUser}]
    BY <1>10, <2>1 DEF UpsertUser
  <2>3. members' \in [Groups -> SUBSET Users]
    BY <1>10 DEF UpsertUser
  <2> QED
    BY <1>10, <2>2, <2>3, AccessAssumption DEF UpsertUser, Edit
<1>11. ASSUME NEW u \in Users, DeactivateUser(u) PROVE TypeOK'
  <2>1. users[u] \in ScimUser
    BY <1>11 DEF DeactivateUser
  <2>2. [users[u] EXCEPT !.active = FALSE] \in ScimUser
    BY <2>1 DEF ScimUser
  <2>3. users' \in [Users -> ScimUser \cup {NoUser}]
    BY <1>11, <2>2 DEF DeactivateUser
  <2> QED
    BY <1>11, <2>3, AccessAssumption DEF DeactivateUser, Edit
<1>12. CASE UNCHANGED vars
  BY <1>12 DEF vars
<1> QED
  BY <1>1, <1>2, <1>3, <1>4, <1>5, <1>6, <1>7, <1>8, <1>9, <1>10, <1>11, <1>12 DEF Next

\* Settings stay normalized and identities well formed, however many changes are made.
THEOREM AccessTypes == Spec => []TypeOK
BY InitTypes, NextTypes, PTL DEF Spec

-----------------------------------------------------------------------------
(* The verdict. *)

\* With a request that is well typed comes a well-typed identity.
LEMMA IdentityType ==
  ASSUME NEW s \in VaultSettings, NEW w \in EnterpriseIdentity \cup {NoIdentity}
  PROVE  /\ IdentityIn(s, w) \in EnterpriseIdentity
         /\ Listed(s, IdentityIn(s, w)) \in EnterpriseIdentity
<1>1. IdentityIn(s, w) \in EnterpriseIdentity
  BY DesktopType DEF IdentityIn
<1> QED
  BY <1>1 DEF Listed, EnterpriseIdentity

\* Whatever the settings and the identity, there is no high secret without a factor.
LEMMA HighFactor ==
  ASSUME NEW s, NEW id, NEW act \in OnSecrets, NEW ctx,
         s.on["policy_enforcement_enabled"], ctx.sensitivity \in HighSensitivity,
         Permitted(s, id, act, ctx)
  PROVE  id.mfa
<1>1. Granted(Listed(s, id), act, ctx)
  BY DEF Permitted
<1>2. act \in OnSecrets /\ ctx.sensitivity \in HighSensitivity
  OBVIOUS
<1>3. Listed(s, id).mfa
  BY <1>1, <1>2 DEF Granted
<1> QED
  BY <1>3 DEF Listed

\* No reachable state lets a secret of high sensitivity out without a second factor.
THEOREM HighFactorAlways == Spec => []HighNeedsMfa
<1>1. HighNeedsMfa
  <2> SUFFICES ASSUME NEW act \in OnSecrets, NEW ctx \in Contexts, Enforced,
                      ctx.sensitivity \in HighSensitivity, May(settings, who, act, ctx)
               PROVE  Identity.mfa
    BY DEF HighNeedsMfa
  <2> QED
    BY HighFactor DEF Enforced, May, Identity
<1> QED
  BY <1>1, PTL

\* A rule without conditions on the caller that covers a request forbids it, whoever asks.
THEOREM RulesBind == Spec => []RulesBindEverybody
<1>1. RulesBindEverybody
  <2> SUFFICES ASSUME NEW i \in DOMAIN settings.rules, NEW act \in Actions, NEW ctx \in Contexts,
                      Enforced, Unconditional(settings.rules[i]),
                      {"*", act} \cap settings.rules[i].actions # {},
                      settings.rules[i].sensitivities \in
                        {{}} \cup {S \in SUBSET Sensitivities : ctx.sensitivity \in S},
                      settings.rules[i].teams \in
                        {{}} \cup {T \in SUBSET {"Personal", "Production"} : ctx.team \in T},
                      settings.rules[i].export => act = "export_audit",
                      settings.rules[i].share => act = "share_secret"
               PROVE  ~May(settings, who, act, ctx)
    BY DEF RulesBindEverybody
  <2> DEFINE id == Listed(settings, Identity)
  <2>1. Matches(settings.rules[i], id, act, ctx)
    BY DEF Matches, Unconditional
  <2>2. ~Permitted(settings, Identity, act, ctx)
    BY <2>1 DEF Permitted, PackAllows, Enforced
  <2> QED
    BY <2>2 DEF May, Identity
<1> QED
  BY <1>1, PTL

\* Under the same settings, who proves more has at least as much trust in the device.
LEMMA ListedStronger ==
  ASSUME NEW s, NEW id \in EnterpriseIdentity, NEW new \in EnterpriseIdentity, Stronger(id, new)
  PROVE  /\ Stronger(Listed(s, id), Listed(s, new))
         /\ Listed(s, id) \in EnterpriseIdentity /\ Listed(s, new) \in EnterpriseIdentity
BY DEF Stronger, Listed, EnterpriseIdentity

\* Who proves more is granted no less ...
LEMMA GrantedMonotone ==
  ASSUME NEW id \in EnterpriseIdentity, NEW new \in EnterpriseIdentity, Stronger(id, new),
         NEW act, NEW ctx \in Context, Granted(id, act, ctx)
  PROVE  Granted(new, act, ctx)
<1>1. CASE new.break_glass
  BY <1>1 DEF Granted, Stronger, EnterpriseIdentity
<1>2. CASE ~new.break_glass
  <2>1. ~id.break_glass
    BY <1>2 DEF Stronger
  <2>2. /\ act \in Permissions(new.role)
        /\ act \in SensitiveActions => new.trusted
        /\ ctx.sensitivity \in HighSensitivity /\ act \in OnSecrets => new.mfa
    BY <2>1 DEF Granted, Stronger
  <2>3. ctx.groups = {} \/ ctx.groups \cap new.groups # {}
    BY <2>1 DEF Granted, Stronger
  <2> QED
    BY <1>2, <2>2, <2>3 DEF Granted
<1> QED
  BY <1>1, <1>2

\* ... and meets no rule the other did not meet.
LEMMA MatchesAntitone ==
  ASSUME NEW id, NEW new, id.mfa => new.mfa, id.trusted => new.trusted,
         NEW r, NEW act, NEW ctx, Matches(r, new, act, ctx)
  PROVE  Matches(r, id, act, ctx)
BY DEF Matches

LEMMA PermittedMonotone ==
  ASSUME NEW s, NEW id \in EnterpriseIdentity, NEW new \in EnterpriseIdentity, Stronger(id, new),
         NEW act, NEW ctx \in Context, Permitted(s, id, act, ctx)
  PROVE  Permitted(s, new, act, ctx)
<1> DEFINE a == Listed(s, id)
           b == Listed(s, new)
<1>1. Stronger(a, b) /\ a \in EnterpriseIdentity /\ b \in EnterpriseIdentity
  BY ListedStronger
<1>2. (a.mfa => b.mfa) /\ (a.trusted => b.trusted)
  BY <1>1 DEF Stronger
<1> HIDE DEF a, b
<1>3. Granted(a, act, ctx) => Granted(b, act, ctx)
  BY <1>1, GrantedMonotone
<1>4. \A i \in DOMAIN s.rules : ~Matches(s.rules[i], a, act, ctx) => ~Matches(s.rules[i], b, act, ctx)
  BY <1>2, MatchesAntitone
<1> QED
  BY <1>2, <1>3, <1>4 DEF Permitted, PackAllows, a, b

\* No step by which a caller proves more costs a permission.
THEOREM MoreProof == Spec => MoreProofNeverLoses
<1>1. ASSUME TypeOK, TypeOK', settings' = settings, Stronger(Identity, Identity')
      PROVE  Allowed(settings, who) \subseteq Allowed(settings, who')
  <2>1. Identity \in EnterpriseIdentity /\ Identity' \in EnterpriseIdentity
    BY <1>1, IdentityType DEF TypeOK, Identity
  <2>2. \A act \in Actions, ctx \in Contexts :
          Permitted(settings, Identity, act, ctx) => Permitted(settings, Identity', act, ctx)
    BY <1>1, <2>1, PermittedMonotone, AccessAssumption
  <2>3. Identity = IdentityIn(settings, who) /\ Identity' = IdentityIn(settings, who')
    BY <1>1 DEF Identity
  <2> QED
    BY <2>2, <2>3 DEF Allowed, May
<1>2. TypeOK /\ TypeOK' /\ [Next]_vars =>
        [settings' = settings /\ Stronger(Identity, Identity')
           => Allowed(settings, who) \subseteq Allowed(settings, who')]_vars
  BY <1>1
<1> QED
  BY <1>2, AccessTypes, PTL DEF Spec, MoreProofNeverLoses

-----------------------------------------------------------------------------
(* Settings. *)

\* The second settings demand all that the first do.
Tighter(s, new) ==
  /\ \A t \in Toggles : s.on[t] => new.on[t]
  /\ new.trusted \subseteq s.trusted
  /\ Permissions(new.role) \subseteq Permissions(s.role)
  /\ new.device = s.device
  /\ NamesIn(s.rules) \subseteq NamesIn(new.rules)

\* Under tighter settings the desktop's identity proves no more, and another's is the same.
LEMMA TighterIdentity ==
  ASSUME NEW s \in VaultSettings, NEW new \in VaultSettings, Tighter(s, new),
         NEW w \in EnterpriseIdentity \cup {NoIdentity}
  PROVE  Stronger(Listed(new, IdentityIn(new, w)), Listed(s, IdentityIn(s, w)))
<1>1. CASE w = NoIdentity
  <2>1. IdentityIn(new, w) = DesktopIdentity(new) /\ IdentityIn(s, w) = DesktopIdentity(s)
    BY <1>1 DEF IdentityIn
  <2>2. new.on["require_trusted_device"] \/ ~s.on["require_trusted_device"]
    BY DEF Tighter
  <2>3. Stronger(Listed(new, DesktopIdentity(new)), Listed(s, DesktopIdentity(s)))
    BY <2>2 DEF Tighter, Stronger, Listed, DesktopIdentity, VaultSettings
  <2> QED
    BY <2>1, <2>3
<1>2. CASE w # NoIdentity
  <2>1. IdentityIn(new, w) = w /\ IdentityIn(s, w) = w /\ w \in EnterpriseIdentity
    BY <1>2 DEF IdentityIn
  <2>2. new.on["require_trusted_device"] \/ ~s.on["require_trusted_device"]
    BY DEF Tighter
  <2>3. Stronger(Listed(new, w), Listed(s, w))
    BY <2>1, <2>2 DEF Tighter, Stronger, Listed, EnterpriseIdentity
  <2> QED
    BY <2>1, <2>3
<1> QED
  BY <1>1, <1>2

\* Settings with more toggles on and more rules, under which the caller proves no more,
\* permit no more.
LEMMA DemandingPermits ==
  ASSUME NEW s \in VaultSettings, NEW new \in VaultSettings,
         \A t \in Toggles : s.on[t] => new.on[t],
         NamesIn(s.rules) \subseteq NamesIn(new.rules),
         NEW w \in EnterpriseIdentity \cup {NoIdentity},
         Stronger(Listed(new, IdentityIn(new, w)), Listed(s, IdentityIn(s, w))),
         NEW act, NEW ctx \in Context,
         Permitted(new, IdentityIn(new, w), act, ctx)
  PROVE  Permitted(s, IdentityIn(s, w), act, ctx)
<1> DEFINE a == Listed(new, IdentityIn(new, w))
           b == Listed(s, IdentityIn(s, w))
<1>1. Stronger(a, b) /\ a \in EnterpriseIdentity /\ b \in EnterpriseIdentity
  <2>1. IdentityIn(new, w) \in EnterpriseIdentity /\ IdentityIn(s, w) \in EnterpriseIdentity
    BY IdentityType
  <2> QED
    BY <2>1 DEF Listed, EnterpriseIdentity
<1>2. (a.mfa => b.mfa) /\ (a.trusted => b.trusted)
  BY <1>1 DEF Stronger
<1> HIDE DEF a, b
<1>3. SUFFICES ASSUME s.on["policy_enforcement_enabled"]
               PROVE  Permitted(s, IdentityIn(s, w), act, ctx)
  BY DEF Permitted
<1>4. \A t \in Toggles : s.on[t] => new.on[t]
  OBVIOUS
<1>5. new.on["policy_enforcement_enabled"]
  BY <1>3, <1>4
<1>6. Granted(b, act, ctx)
  BY <1>1, <1>5, GrantedMonotone DEF Permitted, a
<1>7. \A i \in DOMAIN s.rules : ~Matches(s.rules[i], b, act, ctx)
  <2> SUFFICES ASSUME NEW i \in DOMAIN s.rules PROVE ~Matches(s.rules[i], b, act, ctx)
    OBVIOUS
  <2>1. PICK j \in DOMAIN new.rules : new.rules[j] = s.rules[i]
    BY DEF NamesIn
  <2>2. ~Matches(new.rules[j], a, act, ctx)
    BY <1>5 DEF Permitted, PackAllows, a
  <2> QED
    BY <1>2, <2>1, <2>2, MatchesAntitone
<1>8. /\ act = "copy_secret" /\ s.on["require_reveal_before_copy"] => ctx.revealed
      /\ act = "share_secret" /\ s.on["require_totp_for_shared"] => ctx.has_totp
      /\ act = "export_audit" /\ s.on["block_export_when_audit_broken"] => ctx.audit_ok
  BY <1>4, <1>5 DEF Permitted
<1>9. /\ s.on["require_mfa_for_high_sensitivity"]
      /\ ctx.sensitivity \in HighSensitivity /\ act \in OnSecrets
      => b.mfa
  BY <1>2, <1>4, <1>5 DEF Permitted, a
<1> QED
  BY <1>6, <1>7, <1>8, <1>9 DEF Permitted, PackAllows, b

\* What tighter settings permit the looser ones permit.
LEMMA TighterAllows ==
  ASSUME NEW s \in VaultSettings, NEW new \in VaultSettings, Tighter(s, new),
         NEW w \in EnterpriseIdentity \cup {NoIdentity}
  PROVE  Allowed(new, w) \subseteq Allowed(s, w)
<1>1. /\ \A t \in Toggles : s.on[t] => new.on[t]
      /\ NamesIn(s.rules) \subseteq NamesIn(new.rules)
  BY DEF Tighter
<1>2. Stronger(Listed(new, IdentityIn(new, w)), Listed(s, IdentityIn(s, w)))
  BY TighterIdentity
<1>3. \A act \in Actions, ctx \in Contexts :
        Permitted(new, IdentityIn(new, w), act, ctx) => Permitted(s, IdentityIn(s, w), act, ctx)
  BY <1>1, <1>2, DemandingPermits, AccessAssumption
<1> QED
  BY <1>3 DEF Allowed, May

\* What is asked for demands all that the settings do, before it is normalized.
LEMMA TighteningIsTighter ==
  ASSUME NEW s \in VaultSettings, NEW asked \in Tightenings(s)
  PROVE  asked \in VaultSettings /\ Tighter(s, asked)
<1>1. ASSUME NEW t \in Toggles, asked = [s EXCEPT !.on[t] = TRUE]
      PROVE  asked \in VaultSettings /\ Tighter(s, asked)
  BY <1>1 DEF VaultSettings, Tighter
<1>2. ASSUME NEW d \in Devices, asked = [s EXCEPT !.trusted = @ \ {d}]
      PROVE  asked \in VaultSettings /\ Tighter(s, asked)
  BY <1>2 DEF VaultSettings, Tighter
<1>3. ASSUME NEW r \in Roles, Permissions(r) \subseteq Permissions(s.role),
             asked = [s EXCEPT !.role = r]
      PROVE  asked \in VaultSettings /\ Tighter(s, asked)
  BY <1>3 DEF VaultSettings, Tighter
<1>4. ASSUME NEW r \in Rules, asked = [s EXCEPT !.rules = Append(@, r)]
      PROVE  asked \in VaultSettings /\ Tighter(s, asked)
  <2>1. s.rules \in Seq(Rules) /\ asked.rules = Append(s.rules, r)
    BY <1>4 DEF VaultSettings
  <2>2. NamesIn(s.rules) \subseteq NamesIn(asked.rules)
    BY <2>1 DEF NamesIn
  <2>3. /\ asked.on = s.on /\ asked.trusted = s.trusted
        /\ asked.role = s.role /\ asked.device = s.device
    BY <1>4 DEF VaultSettings
  <2>4. asked \in VaultSettings
    BY <1>4, <2>1 DEF VaultSettings
  <2> QED
    BY <2>2, <2>3, <2>4 DEF Tighter
<1> QED
  BY <1>1, <1>2, <1>3, <1>4 DEF Tightenings

\* Where a required list holds this device alone, who comes from another one proves no
\* more than before.
LEMMA OthersGainNothing ==
  ASSUME NEW s \in VaultSettings, NEW asked \in Tightenings(s), TrustsItself(asked),
         NEW w \in EnterpriseIdentity \cup {NoIdentity}, IdentityIn(s, w).device # s.device
  PROVE  Allowed(Normalized(asked), w) \subseteq Allowed(s, w)
<1> DEFINE new == Normalized(asked)
<1>1. asked \in VaultSettings /\ Tighter(s, asked)
  BY TighteningIsTighter
<1>2. new \in VaultSettings
  BY <1>1, NormalizedType
<1>3. /\ new.on = asked.on /\ new.rules = asked.rules
      /\ new.trusted = {s.device} /\ new.on["require_trusted_device"]
  BY <1>1 DEF Normalized, TrustsItself, VaultSettings, Tighter
<1>4. w \in EnterpriseIdentity /\ IdentityIn(new, w) = w /\ IdentityIn(s, w) = w
  BY DEF IdentityIn, DesktopIdentity
<1>5. Stronger(Listed(new, w), Listed(s, w))
  BY <1>3, <1>4 DEF Stronger, Listed, EnterpriseIdentity
<1>6. /\ \A t \in Toggles : s.on[t] => new.on[t]
      /\ NamesIn(s.rules) \subseteq NamesIn(new.rules)
  BY <1>1, <1>3 DEF Tighter
<1> HIDE DEF new
<1>7. \A act \in Actions, ctx \in Contexts :
        Permitted(new, IdentityIn(new, w), act, ctx) => Permitted(s, IdentityIn(s, w), act, ctx)
  BY <1>2, <1>4, <1>5, <1>6, DemandingPermits, AccessAssumption
<1>8. Allowed(new, w) \subseteq Allowed(s, w)
  BY <1>7 DEF Allowed, May
<1> QED
  BY <1>8 DEF new

\* No tightening of the settings permits what was refused, but for those that trust this
\* device: these permit what the settings would permit with this device listed, to who
\* comes from it.
THEOREM TighterSettings == Spec => TighteningTrustsOnlyThisDevice
<1>1. ASSUME TypeOK, NEW asked \in Tightenings(settings), Configure(asked)
      PROVE  \/ Allowed(settings', who) \subseteq Allowed(settings, who)
             \/ /\ TrustsItself(asked)
                /\ Identity.device = settings.device
                /\ Allowed(settings', who)
                     \subseteq Allowed([settings EXCEPT !.trusted = {settings.device}], who)
  <2> DEFINE s == settings
             new == Normalized(asked)
             listed == [s EXCEPT !.trusted = {s.device}]
  <2>1. s \in VaultSettings /\ who \in EnterpriseIdentity \cup {NoIdentity} /\ settings' = new
    BY <1>1 DEF TypeOK, Configure
  <2>2. asked \in VaultSettings /\ Tighter(s, asked) /\ new \in VaultSettings
    BY <1>1, <2>1, TighteningIsTighter, NormalizedType
  <2>3. CASE ~TrustsItself(asked)
    <3>1. new = asked
      BY <2>3 DEF Normalized, TrustsItself
    <3>2. Allowed(asked, who) \subseteq Allowed(s, who)
      BY <2>1, <2>2, TighterAllows
    <3> QED
      BY <2>1, <3>1, <3>2
  <2>4. CASE TrustsItself(asked) /\ Identity.device # s.device
    BY <1>1, <2>1, <2>4, OthersGainNothing DEF Identity
  <2>5. CASE TrustsItself(asked) /\ Identity.device = s.device
    <3>1. listed \in VaultSettings
      BY <2>1 DEF VaultSettings
    <3>2. Tighter(listed, new)
      BY <2>1, <2>2, <2>5 DEF Tighter, Normalized, TrustsItself, VaultSettings
    <3>3. Allowed(new, who) \subseteq Allowed(listed, who)
      BY <2>1, <2>2, <3>1, <3>2, TighterAllows
    <3> QED
      BY <2>1, <2>5, <3>3
  <2> QED
    BY <2>3, <2>4, <2>5
<1>2. TypeOK /\ [Next]_vars =>
        [\A asked \in Tightenings(settings) : Configure(asked) =>
           \/ Allowed(settings', who) \subseteq Allowed(settings, who)
           \/ /\ TrustsItself(asked)
              /\ Identity.device = settings.device
              /\ Allowed(settings', who)
                   \subseteq Allowed([settings EXCEPT !.trusted = {settings.device}], who)]_vars
  BY <1>1
<1> QED
  BY <1>2, AccessTypes, PTL DEF Spec, TighteningTrustsOnlyThisDevice
=============================================================================
