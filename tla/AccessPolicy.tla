---------------------------- MODULE AccessPolicy ----------------------------
(***************************************************************************)
(* Who may do what: the policy engine over the settings, the roles and the *)
(* policy pack, and where identities come from - the desktop's own, an     *)
(* OIDC token, the SCIM directory, break-glass.  Settings, identities and  *)
(* the directory change one at a time; a verdict is a function of them.    *)
(***************************************************************************)
EXTENDS Integers, Sequences, FiniteSets

CONSTANTS Devices,      \* device ids
          Groups,       \* names a token or the directory may give as groups
          Aliases,      \* the names that stand for a role, with the role
          Users,        \* users of the SCIM directory
          Rules,        \* policy rules
          StarterRules, \* the rules that are there at first
          Contexts,     \* what may be acted on, and how
          MaxRules,     \* bound: rules in a pack
          MaxEdits      \* bound: changes of any kind

Roles == {"owner", "admin", "auditor", "member", "readonly"}
OnSecrets == {"copy_secret", "reveal_secret", "share_secret"}
SensitiveActions == OnSecrets \cup {"export_audit", "purge_secret", "rotate_secret"}
Actions == SensitiveActions \cup {"manage_policy", "manage_members"}
Sensitivities == {"standard", "high", "critical"}
HighSensitivity == {"high", "critical"}

Context == [sensitivity : Sensitivities, groups : SUBSET Groups, team : {"Personal", "Production"},
            has_totp : BOOLEAN, revealed : BOOLEAN, audit_ok : BOOLEAN]

\* An empty set of sensitivities or teams is any of them.
Rule == [actions : SUBSET (Actions \cup {"*"}) \ {{}}, sensitivities : SUBSET Sensitivities,
         teams : SUBSET {"Personal", "Production"}, mfa : BOOLEAN, device : BOOLEAN,
         export : BOOLEAN, share : BOOLEAN, enabled : BOOLEAN]

ASSUME AccessAssumption ==
  /\ Devices # {}
  /\ Aliases \in [DOMAIN Aliases -> Roles] /\ DOMAIN Aliases \subseteq Groups
  /\ Rules \subseteq Rule /\ Contexts \subseteq Context
  /\ StarterRules \in Seq(Rules)
  /\ MaxRules \in Nat /\ Len(StarterRules) <= MaxRules
  /\ MaxEdits \in Nat

VARIABLES
  settings,  \* the settings the engine reads
  who,       \* the identity supplied with a request, if any
  users,     \* the SCIM directory: its users
  members,   \*   and its groups
  edits      \* how many changes there have been

vars == <<settings, who, users, members, edits>>

Toggles == {"policy_enforcement_enabled", "require_reveal_before_copy", "require_totp_for_shared",
            "block_export_when_audit_broken", "require_trusted_device",
            "require_mfa_for_high_sensitivity"}

VaultSettings == [on : [Toggles -> BOOLEAN], role : Roles, device : Devices,
                  trusted : SUBSET Devices, rules : Seq(Rules)]

EnterpriseIdentity == [role : Roles, groups : SUBSET Groups, device : Devices,
                       trusted : BOOLEAN, mfa : BOOLEAN, break_glass : BOOLEAN]

NoIdentity == [none |-> TRUE]

ScimUser == [role : Roles, groups : SUBSET Groups, active : BOOLEAN]
NoUser == [none |-> TRUE]

\* Slip: this device is listed whenever no other is.
NormalizedAlways(s) == IF s.trusted = {} THEN [s EXCEPT !.trusted = {s.device}] ELSE s

\* When a trusted device is required and none is listed, this one is.
Normalized(s) ==
  IF s.on["require_trusted_device"] /\ s.trusted = {}
    THEN [s EXCEPT !.trusted = {s.device}] ELSE s

(***************************************************************************)
(* The verdict.                                                            *)
(***************************************************************************)
Permissions(role) ==
  CASE role = "owner" -> Actions
    [] role = "admin" -> Actions \ {"purge_secret"}
    [] role = "auditor" -> {"export_audit"}
    [] role = "member" -> OnSecrets
    [] role = "readonly" -> {}

\* Slip: break-glass skips the factors too.
GrantedUnproven(id, act, ctx) == id.break_glass \/ act \in Permissions(id.role)

\* What the role, the device, the factors and the groups allow, or break-glass instead.
Granted(id, act, ctx) ==
  IF id.break_glass THEN id.mfa ELSE
    /\ act \in Permissions(id.role)
    /\ act \in SensitiveActions => id.trusted
    /\ ctx.sensitivity \in HighSensitivity /\ act \in OnSecrets => id.mfa
    /\ ctx.groups = {} \/ ctx.groups \cap id.groups # {}

\* Slip: a rule that asks for a factor applies to who has it.
MatchesProven(r, id, act, ctx) ==
  /\ r.enabled
  /\ "*" \in r.actions \/ act \in r.actions
  /\ r.sensitivities = {} \/ ctx.sensitivity \in r.sensitivities
  /\ r.mfa => id.mfa

\* A rule applies when everything it names does; what asks for a factor or a
\* trusted device applies to who lacks it.
Matches(r, id, act, ctx) ==
  /\ r.enabled
  /\ "*" \in r.actions \/ act \in r.actions
  /\ r.sensitivities = {} \/ ctx.sensitivity \in r.sensitivities
  /\ r.teams = {} \/ ctx.team \in r.teams
  /\ r.mfa => ~id.mfa
  /\ r.device => ~id.trusted
  /\ r.export => act = "export_audit"
  /\ r.share => act = "share_secret"

\* Every rule denies; the first that applies decides, so no order of them matters.
PackAllows(rules, id, act, ctx) == \A i \in DOMAIN rules : ~Matches(rules[i], id, act, ctx)

\* Where a trusted device is required, the caller's word and the list must agree.
Listed(s, id) ==
  IF s.on["require_trusted_device"]
    THEN [id EXCEPT !.trusted = @ /\ id.device \in s.trusted] ELSE id

\* Slip: break-glass is let through before the pack is asked.
PermittedEarly(s, supplied, act, ctx) ==
  LET id == Listed(s, supplied)
  IN \/ ~s.on["policy_enforcement_enabled"]
     \/ id.break_glass /\ id.mfa
     \/ /\ Granted(id, act, ctx)
        /\ PackAllows(s.rules, id, act, ctx)

Permitted(s, supplied, act, ctx) ==
  LET id == Listed(s, supplied)
      on == s.on
  IN on["policy_enforcement_enabled"] =>
       /\ act = "copy_secret" /\ on["require_reveal_before_copy"] => ctx.revealed
       /\ act = "share_secret" /\ on["require_totp_for_shared"] => ctx.has_totp
       /\ act = "export_audit" /\ on["block_export_when_audit_broken"] => ctx.audit_ok
       /\ Granted(id, act, ctx)
       /\ /\ on["require_mfa_for_high_sensitivity"]
          /\ ctx.sensitivity \in HighSensitivity /\ act \in OnSecrets
          => id.mfa
       /\ PackAllows(s.rules, id, act, ctx)

(***************************************************************************)
(* Identities.                                                             *)
(***************************************************************************)
\* The desktop's: the settings' own, with MFA and in no group.
DesktopIdentity(s) ==
  [role |-> s.role, groups |-> {}, device |-> s.device, trusted |-> s.device \in s.trusted,
   mfa |-> TRUE, break_glass |-> FALSE]

IdentityIn(s, w) == IF w = NoIdentity THEN DesktopIdentity(s) ELSE w
Identity == IdentityIn(settings, who)

\* Slip: a name that stands for no role is taken for one.
RoleClaimed(names) == IF names = <<>> THEN "member" ELSE names[1]

\* The role of the first name, among the roles and then the groups, that stands for one.
RoleFromClaims(names) ==
  LET known == {i \in DOMAIN names : names[i] \in DOMAIN Aliases}
  IN IF known = {} THEN "member"
     ELSE Aliases[names[CHOOSE i \in known : \A j \in known : i <= j]]

NamesIn(seq) == {seq[i] : i \in DOMAIN seq}
Claims == {<<>>} \cup {<<g>> : g \in Groups}

\* Without groups of its own a token's roles serve as groups.
MapClaims(roles, groups, mfa, device, trusted) ==
  [role |-> RoleFromClaims(roles \o groups),
   groups |-> NamesIn(IF groups = <<>> THEN roles ELSE groups),
   device |-> device, trusted |-> trusted, mfa |-> mfa, break_glass |-> FALSE]

Init ==
  /\ settings = [on |-> [t \in Toggles |-> TRUE], role |-> "owner",
                 device |-> CHOOSE d \in Devices : TRUE,
                 trusted |-> {CHOOSE d \in Devices : TRUE}, rules |-> StarterRules]
  /\ who = NoIdentity
  /\ users = [u \in Users |-> NoUser]
  /\ members = [g \in Groups |-> {}]
  /\ edits = 0

Edit == edits < MaxEdits /\ edits' = edits + 1

Configure(s) ==
  /\ Edit
  /\ settings' = Normalized(s)
  /\ UNCHANGED <<who, users, members>>

Toggle(t) == Configure([settings EXCEPT !.on[t] = ~@])
SetRole(r) == Configure([settings EXCEPT !.role = r])
SetDevice(d) == Configure([settings EXCEPT !.device = d])
Trust(d) == Configure([settings EXCEPT !.trusted = @ \cup {d}])
Distrust(d) == Configure([settings EXCEPT !.trusted = @ \ {d}])

AddRule(r) ==
  /\ Len(settings.rules) < MaxRules
  /\ Configure([settings EXCEPT !.rules = Append(@, r)])

RemoveRule(i) ==
  /\ i \in DOMAIN settings.rules
  /\ Configure([settings EXCEPT !.rules = [j \in 1..Len(@) - 1 |-> @[IF j < i THEN j ELSE j + 1]]])

Present(id) ==
  /\ Edit
  /\ who' = id
  /\ UNCHANGED <<settings, users, members>>

\* A request comes with the desktop's identity, a token, or a user of the directory;
\* nobody asks whether the user is still active.
UseDesktop == Present(NoIdentity)

SignIn(roles, groups, mfa, device, trusted) ==
  Present(MapClaims(roles, groups, mfa, device, trusted))

IdentityFor(u, device, trusted) ==
  /\ users[u] # NoUser
  /\ Present([role |-> users[u].role, groups |-> users[u].groups, device |-> device,
              trusted |-> trusted, mfa |-> TRUE, break_glass |-> FALSE])

\* The caller says that this is an emergency, or that it is over.
BreakGlass(on) == who # NoIdentity /\ Present([who EXCEPT !.break_glass = on])

\* A user who leaves a group stays in the directory's list of its members.
UpsertUser(u, role, groups, active) ==
  /\ Edit
  /\ users' = [users EXCEPT ![u] = [role |-> role, groups |-> groups, active |-> active]]
  /\ members' = [g \in Groups |-> IF g \in groups THEN members[g] \cup {u} ELSE members[g]]
  /\ UNCHANGED <<settings, who>>

DeactivateUser(u) ==
  /\ Edit
  /\ users[u] # NoUser
  /\ users' = [users EXCEPT ![u].active = FALSE]
  /\ UNCHANGED <<settings, who, members>>

Next ==
  \/ \E t \in Toggles : Toggle(t)
  \/ \E r \in Roles : SetRole(r)
  \/ \E d \in Devices : SetDevice(d) \/ Trust(d) \/ Distrust(d)
  \/ \E r \in Rules : AddRule(r)
  \/ \E i \in 1..MaxRules : RemoveRule(i)
  \/ UseDesktop
  \/ \E roles, groups \in Claims, mfa, trusted \in BOOLEAN, d \in Devices :
       SignIn(roles, groups, mfa, d, trusted)
  \/ \E u \in Users, d \in Devices, trusted \in BOOLEAN : IdentityFor(u, d, trusted)
  \/ \E on \in BOOLEAN : BreakGlass(on)
  \/ \E u \in Users, role \in Roles, groups \in SUBSET Groups, active \in BOOLEAN :
       UpsertUser(u, role, groups, active)
  \/ \E u \in Users : DeactivateUser(u)

Spec == Init /\ [][Next]_vars

(***************************************************************************)
(* Properties.                                                             *)
(***************************************************************************)
\* Every variable has its type: settings are normalized, and an identity's role is a
\* role, whatever names its token or its directory entry carries
\* (settings.py:50-83, identity.py:66-80).
TypeOK ==
  /\ settings \in VaultSettings /\ settings = Normalized(settings)
  /\ who \in EnterpriseIdentity \cup {NoIdentity}
  /\ users \in [Users -> ScimUser \cup {NoUser}]
  /\ members \in [Groups -> SUBSET Users]
  /\ edits \in 0..MaxEdits

May(s, w, act, ctx) == Permitted(s, IdentityIn(s, w), act, ctx)
Allowed(s, w) == {p \in Actions \X Contexts : May(s, w, p[1], p[2])}

Enforced == settings.on["policy_enforcement_enabled"]

\* While the policy is enforced no secret of high sensitivity is revealed, copied or
\* shared without a second factor: not by break-glass, not when the setting for it is
\* off, not under an empty pack (policy.py:87-96, enterprise.py:108-137).
HighNeedsMfa ==
  \A act \in OnSecrets, ctx \in Contexts :
    Enforced /\ ctx.sensitivity \in HighSensitivity /\ May(settings, who, act, ctx)
      => Identity.mfa

Unconditional(r) == r.enabled /\ ~r.mfa /\ ~r.device

\* A rule without conditions on the caller binds every caller, break-glass and owner
\* included, wherever it stands in the pack (policy.py:98-112, policy_pack.py:122-127).
RulesBindEverybody ==
  \A i \in DOMAIN settings.rules, act \in Actions, ctx \in Contexts :
    LET r == settings.rules[i]
    IN /\ Enforced /\ Unconditional(r)
       /\ {"*", act} \cap r.actions # {}
       /\ r.sensitivities \in {{}} \cup {S \in SUBSET Sensitivities : ctx.sensitivity \in S}
       /\ r.teams \in {{}} \cup {T \in SUBSET {"Personal", "Production"} : ctx.team \in T}
       /\ (r.export => act = "export_audit") /\ (r.share => act = "share_secret")
       => ~May(settings, who, act, ctx)

\* The second identity proves all that the first does, from the same device.
Stronger(id, new) ==
  /\ new.device = id.device
  /\ Permissions(id.role) \subseteq Permissions(new.role)
  /\ id.groups \subseteq new.groups
  /\ id.trusted => new.trusted
  /\ id.mfa => new.mfa
  /\ id.break_glass => new.break_glass
  /\ new.break_glass => id.break_glass \/ new.mfa

\* Who proves more - a second factor, a trusted device, a group, a wider role, a
\* break-glass with its factor - is never refused what was permitted before
\* (enterprise.py:99-144, policy_pack.py:78-98).
MoreProofNeverLoses ==
  [][settings' = settings /\ Stronger(Identity, Identity')
       => Allowed(settings, who) \subseteq Allowed(settings, who')]_vars

\* What may be asked for that only tightens the settings: a toggle on, a device off the
\* list, a role with no other permissions, a rule more.
Tightenings(s) ==
  {[s EXCEPT !.on[t] = TRUE] : t \in Toggles}
  \cup {[s EXCEPT !.trusted = @ \ {d}] : d \in Devices}
  \cup {[s EXCEPT !.role = r] : r \in {r \in Roles : Permissions(r) \subseteq Permissions(s.role)}}
  \cup {[s EXCEPT !.rules = Append(@, r)] : r \in Rules}

\* A listed device is required, and none is listed.
TrustsItself(asked) == asked.on["require_trusted_device"] /\ asked.trusted = {}

\* Settings are normalized after they are tightened, which may trust this device: when the
\* requirement is turned on with no device listed, or the last one of a required list is
\* taken off.  Nothing else that tightens the settings permits anything that was refused;
\* and these two do so from this device only, and permit no more than the settings did,
\* or would have done with this device listed (settings.py:60-61, policy.py:51-133).
TighteningTrustsOnlyThisDevice ==
  [][\A asked \in Tightenings(settings) : Configure(asked) =>
       \/ Allowed(settings', who) \subseteq Allowed(settings, who)
       \/ /\ TrustsItself(asked)
          /\ Identity.device = settings.device
          /\ Allowed(settings', who)
               \subseteq Allowed([settings EXCEPT !.trusted = {settings.device}], who)]_vars

\* What the starter rule gives as its reason: "Critical secrets require verified MFA and
\* a trusted device" (policy_pack.py:141).
CriticalNeedsBoth ==
  \A act \in OnSecrets, ctx \in Contexts :
    /\ Enforced /\ ctx.sensitivity = "critical"
    /\ \E i \in DOMAIN settings.rules :
         settings.rules[i].mfa /\ settings.rules[i].device /\ settings.rules[i].enabled
    /\ May(settings, who, act, ctx)
    => Identity.mfa /\ Listed(settings, Identity).trusted
=============================================================================
