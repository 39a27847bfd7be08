------------------------ MODULE PermissionEvaluator ------------------------
(***************************************************************************)
(* The three checks of src/document/permissions.rs.  A user is a record of *)
(* roles and user_permissions (field |-> allowed values), a schema one of  *)
(* permissions (a sequence of [role, allowed], or NoPerms) and fields, a   *)
(* document a function of the fields it has.  A flag that a DocPerm does   *)
(* not set is not in its allowed set.                                      *)
(***************************************************************************)
EXTENDS Naturals, Sequences

CONSTANTS
  Roles,
  Permissions, \* what user_permissions can be
  Docs,
  Schemas,
  Strings,     \* the field values that are JSON strings
  Sensitive,   \* fields named after a password, a secret or a salary
  NoPerms

Users == [roles : SUBSET Roles, user_permissions : Permissions]

AccessActions == {"Read", "Write", "Create", "Delete", "Submit", "Cancel"}

Privileged(user) == user.roles \cap {"Administrator", "System Manager"} # {}

\* Mutant of Grants: the first DocPerm of one of the user's roles decides.
GrantsFirst(perms, roles, action) ==
  LET mine == SelectSeq(perms, LAMBDA p : p.role \in roles)
  IN  mine # <<>> /\ action \in Head(mine).allowed

Grants(perms, roles, action) ==
  \E k \in DOMAIN perms : perms[k].role \in roles /\ action \in perms[k].allowed

check_permission(user, schema, action) ==
  \/ Privileged(user)
  \/ schema.permissions # NoPerms /\ Grants(schema.permissions, user.roles, action)

\* A value that is not a string is not looked at.
check_row_security(user, doc) ==
  \/ Privileged(user)
  \/ \A f \in DOMAIN user.user_permissions \cap DOMAIN doc :
       doc[f] \in Strings => doc[f] \in user.user_permissions[f]

\* The fields of doc that are left.
apply_field_level_security(user, doc, schema) ==
  IF Privileged(user) \/ "Security Manager" \in user.roles THEN DOMAIN doc
  ELSE DOMAIN doc \ (schema.fields \cap Sensitive)

-----------------------------------------------------------------------------
\* All that the checks let a user do with a document.
Access(user, doc, schema) ==
  {<<"may", a>> : a \in {b \in AccessActions : check_permission(user, schema, b)}}
    \cup {<<"row", x>> : x \in {y \in {doc} : check_row_security(user, y)}}
    \cup {<<"field", f>> : f \in apply_field_level_security(user, doc, schema)}

\* The same user with some roles only.
WithRoles(user, roles) == [user EXCEPT !.roles = roles]

RolesSum(user, doc, schema) ==
  Access(user, doc, schema) =
    Access(WithRoles(user, {}), doc, schema)
      \cup UNION {Access(WithRoles(user, {r}), doc, schema) : r \in user.roles}
=============================================================================
