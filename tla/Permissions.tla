----------------------------- MODULE Permissions -----------------------------
(* The capabilities, the profiles and the policies of API keys (permissions.ts).  *)
CONSTANT Offered  \* policies that keys are given

MailCapability == {"mail.read", "mail.drafts", "mail.organize", "mail.trash", "mail.delete", "mail.send"}
AdminCapability == {"admin.accounts", "admin.members", "admin.api_keys", "admin.license", "admin.audit"}
Capability == MailCapability \union AdminCapability
NamedProfile == {"read-only", "read-write", "full"}
ProfileCapabilities ==
  [p \in NamedProfile |-> CASE p = "read-only" -> {"mail.read"}
                            [] p = "read-write" -> {"mail.read", "mail.drafts", "mail.organize", "mail.trash"}
                            [] p = "full" -> MailCapability]
PermissionPolicyForProfile(profile, supplemental) ==
  [profile |-> profile, capabilities |-> ProfileCapabilities[profile] \union supplemental, supplemental |-> supplemental]
CustomPermissionPolicy(capabilities) == [profile |-> "custom", capabilities |-> capabilities, supplemental |-> {}]
NormalizePermissionPolicy(policy) ==
  IF policy.profile = "custom" THEN CustomPermissionPolicy(policy.capabilities)
  ELSE PermissionPolicyForProfile(policy.profile, policy.supplemental)
\* The columns of a key, and the policy they are read as.
StoredPolicy(policy) ==
  LET n == NormalizePermissionPolicy(policy) IN
  [profile |-> n.profile, custom |-> IF n.profile = "custom" THEN n.capabilities ELSE {}, supplemental |-> n.supplemental]
DeserializePermissionPolicy(row) ==
  IF row.profile = "custom" THEN CustomPermissionPolicy(row.custom)
  ELSE PermissionPolicyForProfile(row.profile, row.supplemental)

\* The policies that are made of what a user asks for: one of the two, and no empty one.
PermissionPolicy ==
  {CustomPermissionPolicy(c) : c \in (SUBSET Capability) \ {{}}}
    \union {PermissionPolicyForProfile(p, s) : p \in NamedProfile, s \in SUBSET AdminCapability}

ASSUME OfferedAssumption == Offered \subseteq PermissionPolicy
=============================================================================
