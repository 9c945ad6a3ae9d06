----------------------------- MODULE MCOneServer -----------------------------
(* Instances of SendScheduler, AccessControl, LoginLimits and Connections for TLC.     *)
(* They share nothing: which of them a behavior is about, machine says.                *)
EXTENDS MCSendScheduler, AccessControl, LoginLimits, Connections

CONSTANTS h1, h2, h3, b1, b2

MCFirstProvider == [b \in Mbox |-> IF b = b1 THEN "outlook" ELSE "none"]
MCOwnerOf == [b \in Mbox |-> IF b = b1 THEN h2 ELSE Absent]
MCOffered ==
  {CustomPermissionPolicy({"mail.read", "mail.drafts"}), CustomPermissionPolicy({"mail.organize", "mail.send"}),
   CustomPermissionPolicy({"mail.organize", "mail.trash", "mail.delete"}),
   PermissionPolicyForProfile("read-only", {"admin.accounts", "admin.license"}),
   CustomPermissionPolicy({"admin.members", "admin.api_keys", "admin.audit"})}

VARIABLE machine
oneServerVars == <<vars, accessVars, loginVars, connectionsVars, machine>>
FirstKey ==
  [holder |-> h1, policy |-> StoredPolicy(CustomPermissionPolicy({"mail.read", "mail.drafts"})), limited |-> FALSE, within |-> {}]

\* Where a behavior is not about a machine, one of its initial states is enough.
OneServerInit ==
  /\ Init /\ AccessInit /\ LoginLimitsInit /\ ConnectionsInit
  /\ machine \in {"scheduler", "access", "logins", "connections"}
  /\ machine # "access" => \A k \in KeyId : keys[k] = FirstKey
  /\ machine # "connections" => boxLimit = 1
OneServerNext ==
  \/ machine = "scheduler" /\ Next /\ UNCHANGED <<accessVars, loginVars, connectionsVars, machine>>
  \/ machine = "access" /\ AccessNext /\ UNCHANGED <<vars, loginVars, connectionsVars, machine>>
  \/ machine = "logins" /\ LoginLimitsNext /\ UNCHANGED <<vars, accessVars, connectionsVars, machine>>
  \/ machine = "connections" /\ ConnectionsNext /\ UNCHANGED <<vars, accessVars, loginVars, machine>>
OneServerSpec == OneServerInit /\ [][OneServerNext]_oneServerVars
=============================================================================
