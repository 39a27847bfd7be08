------------------------ MODULE PureFunctions_proofs ------------------------
(***************************************************************************)
(* Proofs about the parts of the system that are functions of their        *)
(* arguments, for all arguments: an answer is right because the argument   *)
(* comes from its set, so that each proof is about one operator.           *)
(***************************************************************************)
EXTENDS PureFunctions, ListLemmas, SequenceTheorems

\* What a behaviour asks is from the set of arguments of the function.
Asked ==
  /\ of = "compile_ast" => arg \in Layouts
  /\ of = "check_permission" => arg \in Cases
  /\ of = "call" => arg \in Requests
  /\ of = "get_list" => arg \in Queries
  /\ of = "json_to_dynamic" => arg \in Jsons
  /\ of = "tenant" => arg \in HostPairs

LEMMA AskedAlways == Spec => []Asked
<1>1. Init => Asked
  BY DEF Init, Asked
<1>2. Asked /\ [Next]_vars => Asked'
  <2> SUFFICES ASSUME Asked, [Next]_vars PROVE Asked'
    OBVIOUS
  <2>1. CASE UNCHANGED vars
    BY <2>1 DEF vars, Asked
  <2>2. CASE Next
    <3>1. \/ of' = "compile_ast" /\ arg' \in Layouts
          \/ of' = "check_permission" /\ arg' \in Cases
          \/ of' = "call" /\ arg' \in Requests
          \/ of' = "get_list" /\ arg' \in Queries
          \/ of' = "json_to_dynamic" /\ arg' \in Jsons
          \/ of' = "tenant" /\ arg' \in HostPairs
      BY <2>2 DEF Next, Ask
    <3>2. Cases' = Cases /\ Requests' = Requests /\ Queries' = Queries /\ HostPairs' = HostPairs
      OBVIOUS
    <3> QED
      BY <3>1, <3>2 DEF Asked
  <2> QED
    BY <2>1, <2>2
<1> QED
  BY <1>1, <1>2, PTL DEF Spec

-----------------------------------------------------------------------------
(* Permissions *)

LEMMA WithRolesIs ==
  ASSUME NEW user \in Users, NEW roles
  PROVE  /\ WithRoles(user, roles).roles = roles
         /\ WithRoles(user, roles).user_permissions = user.user_permissions
  BY DEF WithRoles, Users

\* Being privileged is a matter of one role.
LEMMA PrivilegedByOne ==
  ASSUME NEW user \in Users
  PROVE  /\ ~Privileged(WithRoles(user, {}))
         /\ Privileged(user) <=> \E r \in user.roles : Privileged(WithRoles(user, {r}))
<1>1. WithRoles(user, {}).roles = {}
  BY WithRolesIs
<1>2. ~Privileged(WithRoles(user, {}))
  BY <1>1 DEF Privileged
<1>3. ASSUME NEW r
      PROVE  Privileged(WithRoles(user, {r})) <=> r \in {"Administrator", "System Manager"}
  <2>1. WithRoles(user, {r}).roles = {r}
    BY WithRolesIs
  <2> QED
    BY <2>1 DEF Privileged
<1>4. Privileged(user) <=> \E r \in user.roles : r \in {"Administrator", "System Manager"}
  BY DEF Privileged
<1> QED
  BY <1>2, <1>3, <1>4

LEMMA PermissionByOne ==
  ASSUME NEW user \in Users, NEW schema, NEW action
  PROVE  /\ ~check_permission(WithRoles(user, {}), schema, action)
         /\ check_permission(user, schema, action) <=>
              \E r \in user.roles : check_permission(WithRoles(user, {r}), schema, action)
<1>1. ~Grants(schema.permissions, {}, action)
  BY DEF Grants
<1>2. Grants(schema.permissions, user.roles, action) <=>
        \E r \in user.roles : Grants(schema.permissions, {r}, action)
  BY DEF Grants
<1>3. \A roles : WithRoles(user, roles).roles = roles
  BY WithRolesIs
<1>4. check_permission(user, schema, action) <=>
        \/ Privileged(user)
        \/ schema.permissions # NoPerms /\ Grants(schema.permissions, user.roles, action)
  BY DEF check_permission
<1>5. \A roles : check_permission(WithRoles(user, roles), schema, action) <=>
        \/ Privileged(WithRoles(user, roles))
        \/ schema.permissions # NoPerms /\ Grants(schema.permissions, roles, action)
  BY <1>3, Zenon DEF check_permission
<1> QED
  BY <1>1, <1>2, <1>4, <1>5, PrivilegedByOne, Zenon

LEMMA RowByOne ==
  ASSUME NEW user \in Users, NEW doc
  PROVE  check_row_security(user, doc) <=>
           \/ check_row_security(WithRoles(user, {}), doc)
           \/ \E r \in user.roles : check_row_security(WithRoles(user, {r}), doc)
<1> DEFINE Rows == \A f \in DOMAIN user.user_permissions \cap DOMAIN doc :
                     doc[f] \in Strings => doc[f] \in user.user_permissions[f]
<1>1. ASSUME NEW roles
      PROVE  check_row_security(WithRoles(user, roles), doc) <=>
               Privileged(WithRoles(user, roles)) \/ Rows
  <2>1. WithRoles(user, roles).user_permissions = user.user_permissions
    BY WithRolesIs
  <2> QED
    BY <2>1 DEF check_row_security
<1>2. check_row_security(user, doc) <=> Privileged(user) \/ Rows
  BY Zenon DEF check_row_security
<1> HIDE DEF Rows
<1> QED
  BY <1>1, <1>2, PrivilegedByOne, Zenon

LEMMA FieldsByOne ==
  ASSUME NEW user \in Users, NEW doc, NEW schema, NEW f
  PROVE  f \in apply_field_level_security(user, doc, schema) <=>
           \/ f \in apply_field_level_security(WithRoles(user, {}), doc, schema)
           \/ \E r \in user.roles :
                f \in apply_field_level_security(WithRoles(user, {r}), doc, schema)
<1> DEFINE Sees(u) == Privileged(u) \/ "Security Manager" \in u.roles
           Public == f \in DOMAIN doc \ (schema.fields \cap Sensitive)
<1>1. \A u : f \in apply_field_level_security(u, doc, schema) <=>
               IF Sees(u) THEN f \in DOMAIN doc ELSE Public
  BY DEF apply_field_level_security
<1>2. \A roles : WithRoles(user, roles).roles = roles
  BY WithRolesIs
<1>3. ~Sees(WithRoles(user, {}))
  <2>1. WithRoles(user, {}).roles = {}
    BY WithRolesIs
  <2> QED
    BY <2>1, PrivilegedByOne
<1>5. Sees(user) <=> \E r \in user.roles : Sees(WithRoles(user, {r}))
  <2>1. ASSUME NEW r
        PROVE  "Security Manager" \in WithRoles(user, {r}).roles <=> r = "Security Manager"
    <3>1. WithRoles(user, {r}).roles = {r}
      BY WithRolesIs
    <3> QED
      BY <3>1
  <2> QED
    BY <2>1, PrivilegedByOne
<1>4. Public => f \in DOMAIN doc
  OBVIOUS
<1> HIDE DEF Sees, Public
<1> QED
  BY <1>1, <1>3, <1>4, <1>5

LEMMA RolesSumAlways ==
  ASSUME NEW user \in Users, NEW doc, NEW schema
  PROVE  RolesSum(user, doc, schema)
<1> DEFINE Opens(u, z) ==
             \/ \E a \in AccessActions : z = <<"may", a>> /\ check_permission(u, schema, a)
             \/ z = <<"row", doc>> /\ check_row_security(u, doc)
             \/ \E f \in apply_field_level_security(u, doc, schema) : z = <<"field", f>>
           Sum == Access(WithRoles(user, {}), doc, schema)
                    \cup UNION {Access(WithRoles(user, {r}), doc, schema) : r \in user.roles}
<1>1. \A u, z : z \in Access(u, doc, schema) <=> Opens(u, z)
  BY DEF Access
<1>2. ASSUME NEW z
      PROVE  Opens(user, z) <=> \/ Opens(WithRoles(user, {}), z)
                                \/ \E r \in user.roles : Opens(WithRoles(user, {r}), z)
  <2>1. CASE \E a \in AccessActions : z = <<"may", a>>
    <3>1. PICK a \in AccessActions : z = <<"may", a>>
      BY <2>1
    <3>2. \A u : Opens(u, z) <=> check_permission(u, schema, a)
      BY <3>1
    <3> HIDE DEF Opens
    <3>3. check_permission(user, schema, a) <=>
            \E r \in user.roles : check_permission(WithRoles(user, {r}), schema, a)
      BY PermissionByOne
    <3>4. ~check_permission(WithRoles(user, {}), schema, a)
      BY PermissionByOne
    <3> QED
      BY <3>2, <3>3, <3>4, Zenon
  <2>2. CASE z = <<"row", doc>>
    <3>1. \A u : Opens(u, z) <=> check_row_security(u, doc)
      BY <2>2
    <3> HIDE DEF Opens
    <3> QED
      BY <3>1, RowByOne
  <2>3. CASE \E f : z = <<"field", f>>
    <3>1. PICK f : z = <<"field", f>>
      BY <2>3
    <3>2. \A u : Opens(u, z) <=> f \in apply_field_level_security(u, doc, schema)
      BY <3>1
    <3> HIDE DEF Opens
    <3> QED
      BY <3>2, FieldsByOne
  <2> QED
    BY <2>1, <2>2, <2>3
<1>3. \A z : z \in Sum <=> \/ z \in Access(WithRoles(user, {}), doc, schema)
                           \/ \E r \in user.roles : z \in Access(WithRoles(user, {r}), doc, schema)
  OBVIOUS
<1> HIDE DEF Opens
<1>4. \A z : z \in Access(user, doc, schema) <=> z \in Sum
  <2> HIDE DEF Sum
  <2> QED
    BY <1>1, <1>2, <1>3
<1> QED
  BY <1>4 DEF RolesSum

(***************************************************************************)
(* For every user, document and schema: what the checks let a user do is   *)
(* the sum of what each role lets it do, in any order of the DocPerms.     *)
(***************************************************************************)
THEOREM RolesAlwaysAddUp == Spec => []RolesAddUp
<1>1. Asked => RolesAddUp
  BY RolesSumAlways DEF Asked, RolesAddUp, Cases
<1> QED
  BY <1>1, AskedAlways, PTL

-----------------------------------------------------------------------------
(* Tokens *)

\* Two calls of get_paseto_key agree exactly when both find the same secret.
LEMMA KeysAgree ==
  ASSUME NEW e \in Environments, NEW f \in Environments
  PROVE  get_paseto_key(e, 1) = get_paseto_key(f, 2) <=> e \in Keys /\ e = f
  BY DEF get_paseto_key, Ephemeral

(***************************************************************************)
(* For every set of secrets: the middleware serves a request exactly when  *)
(* its token was made with the secret of the environment and is in order.  *)
(***************************************************************************)
THEOREM TokensAlwaysNeedSecret == Spec => []TokensNeedSecret
<1>1. ASSUME NEW c \in Requests
      PROVE  NeedsSecret(c)
  <2>1. /\ Minted(c).form = c.form /\ Minted(c).aad = c.aad /\ Minted(c).when = c.when
        /\ Minted(c).user = c.user /\ Minted(c).key = get_paseto_key(c.minted_in, 1)
    BY DEF Minted, Token
  <2>2. c.env \in Environments /\ c.minted_in \in Environments
    BY DEF Requests
  <2>3. Minted(c).key = get_paseto_key(c.env, 2) <=> c.env \in Keys /\ c.minted_in = c.env
    BY <2>1, <2>2, KeysAgree
  <2> QED
    BY <2>1, <2>3 DEF NeedsSecret, call, Decrypts
<1>2. Asked => TokensNeedSecret
  BY <1>1 DEF Asked, TokensNeedSecret
<1> QED
  BY <1>2, AskedAlways, PTL

-----------------------------------------------------------------------------
(* Tenants *)

\* What sanitizing makes of a label, character by character.
LEMMA SanitizedChars ==
  ASSUME NEW n \in Nat, NEW s, DOMAIN s = 1..n
  PROVE  /\ Sanitized(s) = [k \in 1..n |-> IF s[k] \in Alphanumeric THEN s[k] ELSE "_"]
         /\ DOMAIN Sanitized(s) = 1..n
         /\ \A k \in 1..n : Sanitized(s)[k] = IF s[k] \in Alphanumeric THEN s[k] ELSE "_"
  BY DEF Sanitized

\* The name of the default tenant, and what sanitizing turns into it.
LEMMA SanitizedIs ==
  Sanitized(DefaultSite) = DefaultSite /\ Sanitized(<<"d", "-", "s">>) = DefaultSite
<1> DEFINE hyphen == <<"d", "-", "s">>
           default == <<"d", "_", "s">>
<1>1. hyphen[1] = "d" /\ hyphen[2] = "-" /\ hyphen[3] = "s" /\ DOMAIN hyphen = 1..3
  OBVIOUS
<1>2. /\ default[1] = "d" /\ default[2] = "_" /\ default[3] = "s" /\ DOMAIN default = 1..3
      /\ default = [k \in 1..3 |-> default[k]]
  OBVIOUS
<1>3. "d" \in Alphanumeric /\ "s" \in Alphanumeric
  BY TenantAssumption
<1>4. "-" \notin Alphanumeric /\ "_" \notin Alphanumeric
  BY TenantAssumption
<1>a. \A k \in 1..3 : k = 1 \/ k = 2 \/ k = 3
  OBVIOUS
<1> HIDE DEF hyphen, default
<1>5. \A k \in 1..3 : default[k] = IF hyphen[k] \in Alphanumeric THEN hyphen[k] ELSE "_"
  BY <1>1, <1>2, <1>3, <1>4, <1>a, Zenon
<1>6. \A k \in 1..3 : default[k] = IF default[k] \in Alphanumeric THEN default[k] ELSE "_"
  BY <1>2, <1>3, <1>4, <1>a, Zenon
<1>7. Sanitized(hyphen) = [k \in 1..3 |-> IF hyphen[k] \in Alphanumeric THEN hyphen[k] ELSE "_"]
  BY <1>1, SanitizedChars
<1>8. Sanitized(default) = [k \in 1..3 |-> IF default[k] \in Alphanumeric THEN default[k] ELSE "_"]
  BY <1>2, SanitizedChars
<1>9. Sanitized(hyphen) = default /\ Sanitized(default) = default
  BY <1>2, <1>5, <1>6, <1>7, <1>8
<1> QED
  BY <1>9 DEF hyphen, default, DefaultSite

LEMMA SameLength ==
  ASSUME NEW m \in Nat, NEW n \in Nat, 1..m = 1..n
  PROVE  m = n
<1>1. ASSUME m < n PROVE FALSE
  <2>1. n \in 1..n /\ n \notin 1..m
    BY <1>1
  <2> QED
    BY <2>1
<1>2. ASSUME n < m PROVE FALSE
  <2>1. m \in 1..m /\ m \notin 1..n
    BY <1>2
  <2> QED
    BY <2>1
<1> QED
  BY <1>1, <1>2

\* Labels of host names stay apart: only one character is replaced.
LEMMA SanitizedApart ==
  ASSUME NEW s \in Seq(Alphanumeric \cup {"-"}), NEW t \in Seq(Alphanumeric \cup {"-"}),
         Sanitized(s) = Sanitized(t)
  PROVE  s = t
<1>0. /\ Len(s) \in Nat /\ DOMAIN s = 1..Len(s)
      /\ Len(t) \in Nat /\ DOMAIN t = 1..Len(t)
  OBVIOUS
<1>1. 1..Len(s) = 1..Len(t)
  BY <1>0, SanitizedChars
<1>2. Len(s) = Len(t)
  BY <1>0, <1>1, SameLength
<1>3. ASSUME NEW k \in 1..Len(s)
      PROVE  s[k] = t[k]
  <2>1. Sanitized(s)[k] = IF s[k] \in Alphanumeric THEN s[k] ELSE "_"
    BY <1>0, SanitizedChars
  <2>2. Sanitized(t)[k] = IF t[k] \in Alphanumeric THEN t[k] ELSE "_"
    BY <1>0, <1>1, SanitizedChars
  <2>3. s[k] \in Alphanumeric \cup {"-"} /\ t[k] \in Alphanumeric \cup {"-"}
    BY <1>2
  <2> QED
    BY <2>1, <2>2, <2>3, TenantAssumption
<1> QED
  BY <1>2, <1>3

\* Only one label gives the default tenant.
LEMMA SanitizedDefault ==
  ASSUME NEW s \in Seq(Alphanumeric \cup {"-"}), Sanitized(s) = DefaultSite
  PROVE  s = <<"d", "-", "s">>
<1>1. {"d", "-", "s"} \subseteq Alphanumeric \cup {"-"}
  BY TenantAssumption
<1>2. <<"d", "-", "s">> \in Seq({"d", "-", "s"})
  OBVIOUS
<1>3. <<"d", "-", "s">> \in Seq(Alphanumeric \cup {"-"})
  BY <1>1, <1>2
<1> QED
  BY <1>3, SanitizedIs, SanitizedApart

\* The tenant of a name is the default one exactly when it is not a site.
LEMMA TenantOfSite ==
  ASSUME NEW name \in HostNames
  PROVE  /\ IsSite(name) =>
              /\ OfName(name) = Sanitized(name[1]) /\ OfName(name) # DefaultSite
              /\ name[1] \in Seq(Alphanumeric \cup {"-"})
         /\ ~IsSite(name) => OfName(name) = DefaultSite
<1>0. name \in Seq(Seq(Alphanumeric \cup {"-"}))
  BY TenantAssumption
<1>1. Len(name) \in Nat
  BY <1>0
<1>2. Len(name) > 1 => name[1] \in Seq(Alphanumeric \cup {"-"})
  BY <1>0, <1>1
<1>3. CASE IsSite(name)
  BY <1>1, <1>2, <1>3, SanitizedDefault DEF IsSite, OfName
<1>4. CASE ~IsSite(name)
  <2>1. CASE name \in LocalNames \/ Len(name) < 2
    BY <1>4, <2>1, SanitizedIs DEF OfName
  <2>2. CASE ~(name \in LocalNames \/ Len(name) < 2)
    <3>1. name[1] \in {DefaultSite, <<"d", "-", "s">>} /\ OfName(name) = Sanitized(name[1])
      BY <1>1, <1>4, <2>2 DEF IsSite, OfName
    <3> QED
      BY <1>4, <3>1, SanitizedIs
  <2> QED
    BY <2>1, <2>2
<1> QED
  BY <1>3, <1>4

(***************************************************************************)
(* For all host names: two sites share a tenant only when they are one     *)
(* site, whichever way the name came, and no site is the default tenant.   *)
(***************************************************************************)
THEOREM SitesAlwaysKeptApart == Spec => []SitesKeptApart
<1>1. ASSUME NEW a \in Hosts, NEW b \in Hosts
      PROVE  KeptApart(a, b)
  <2>1. a.name \in HostNames /\ b.name \in HostNames
    BY DEF Hosts
  <2>2. /\ OfHost(a) = OfName(a.name) /\ OfServerName(a.name) = OfName(a.name)
        /\ OfHost(b) = OfName(b.name)
    BY <2>1, TenantAssumption DEF OfHost, OfServerName
  <2>3. OfHost(NoHost) = DefaultSite
    BY DEF OfHost
  <2>4. CASE IsSite(a.name) /\ IsSite(b.name)
    BY <2>1, <2>2, <2>3, <2>4, TenantOfSite, SanitizedApart DEF KeptApart
  <2>5. CASE IsSite(a.name) /\ ~IsSite(b.name)
    BY <2>1, <2>2, <2>3, <2>5, TenantOfSite DEF KeptApart
  <2> QED
    BY <2>4, <2>5 DEF KeptApart
<1>2. Asked => SitesKeptApart
  BY <1>1 DEF Asked, SitesKeptApart, HostPairs
<1> QED
  BY <1>2, AskedAlways, PTL
-----------------------------------------------------------------------------
(* Pages of a list *)

\* What a SELECT finds is a list of documents of the table, and no longer.
LEMMA FoundIs ==
  ASSUME NEW S, NEW t \in Seq(S), NEW where, NEW binding
  PROVE  /\ Found(t, where, binding) \in Seq(S)
         /\ Len(Found(t, where, binding)) \in Nat
         /\ Len(Found(t, where, binding)) <= Len(t)
<1> DEFINE N == Len(t)
           chunks == [n \in DOMAIN t |->
             IF \A k \in where : k \in DOMAIN t[n] /\ t[n][k] = binding[k]
               THEN <<t[n]>> ELSE << >>]
<1>1. N \in Nat /\ DOMAIN t = 1..N
  OBVIOUS
<1>2. \A n \in 1..N : chunks[n] \in Seq(S) /\ Len(chunks[n]) <= 1
  <2> SUFFICES ASSUME NEW n \in 1..N PROVE chunks[n] \in Seq(S) /\ Len(chunks[n]) <= 1
    OBVIOUS
  <2>1. t[n] \in S
    OBVIOUS
  <2>2. <<t[n]>> \in Seq(S) /\ Len(<<t[n]>>) = 1
    BY <2>1
  <2>3. << >> \in Seq(S) /\ Len(<< >>) = 0
    OBVIOUS
  <2>4. chunks[n] = <<t[n]>> \/ chunks[n] = << >>
    BY <1>1
  <2> HIDE DEF chunks
  <2>5. CASE chunks[n] = <<t[n]>>
    BY <2>2, <2>5
  <2>6. CASE chunks[n] = << >>
    BY <2>3, <2>6
  <2> QED
    BY <2>4, <2>5, <2>6
<1>3. chunks \in [1..N -> Seq(S)]
  BY <1>1, <1>2
<1>4. Found(t, where, binding) = FlattenSeq(chunks)
  BY DEF Found
<1> HIDE DEF chunks, N
<1>5. PICK flat : IsFlattening(flat, chunks, N, S)
  BY <1>1, <1>3, FlattenSteps
<1> DEFINE G == {n \in 0..N : Len(flat[n]) <= n}
<1>6. 0 \in G
  BY <1>1, <1>5 DEF IsFlattening
<1>7. ASSUME NEW n \in 1..N, n - 1 \in G
      PROVE  n \in G
  <2>0. n - 1 \in 0..N /\ n \in 0..N
    BY <1>1
  <2>1. flat[n] = flat[n - 1] \o chunks[n]
    BY <1>5 DEF IsFlattening
  <2>2. flat[n - 1] \in Seq(S)
    BY <1>5, <2>0 DEF IsFlattening
  <2>3. /\ Len(flat[n]) = Len(flat[n - 1]) + Len(chunks[n])
        /\ Len(flat[n - 1]) \in Nat /\ Len(chunks[n]) \in Nat
    BY <1>2, <2>1, <2>2, Concatenated
  <2>4. Len(chunks[n]) <= 1 /\ Len(flat[n - 1]) <= n - 1
    BY <1>2, <1>7
  <2>5. \A c, f, g \in Nat : c <= 1 /\ f <= n - 1 /\ g = f + c => g <= n
    BY <1>1
  <2>6. Len(flat[n]) <= n
    <3> DEFINE c == Len(chunks[n])
               f == Len(flat[n - 1])
               g == Len(flat[n])
    <3>1. c \in Nat /\ f \in Nat /\ g = f + c /\ c <= 1 /\ f <= n - 1
      BY <2>3, <2>4
    <3> HIDE DEF c, f, g
    <3>2. g \in Nat
      BY <3>1
    <3>3. g <= n
      BY <2>5, <3>1, <3>2
    <3> QED
      BY <3>3 DEF g
  <2> QED
    BY <2>0, <2>6
<1>8. N \in G
  <2> HIDE DEF G
  <2> QED
    BY <1>1, <1>6, <1>7, UpTo
<1>9. flat[N] \in Seq(S) /\ FlattenSeq(chunks) = flat[N]
  BY <1>1, <1>5 DEF IsFlattening
<1> QED
  BY <1>4, <1>8, <1>9 DEF N

LEMMA Product ==
  ASSUME NEW n \in Nat, NEW L \in Nat \ {0}
  PROVE  /\ n * L \in Nat /\ n * L >= n /\ 0 * L = 0
         /\ n # 0 => n - 1 \in Nat /\ (n - 1) * L \in Nat /\ n * L = (n - 1) * L + L
<1>1. n * (L - 1) \in Nat /\ n * L = n * (L - 1) + n
  OBVIOUS
<1>2. n # 0 => n - 1 \in Nat /\ (n - 1) * L \in Nat /\ n * L = (n - 1) * L + L
  OBVIOUS
<1> QED
  BY <1>1, <1>2

\* A page is the part of what is found that begins at its offset.
LEMMA PageIs ==
  ASSUME NEW q \in Queries, NEW n \in Nat \ {0},
         q.doctype \in Identifiers, DOMAIN q.filters \subseteq Identifiers \ {"limit", "offset"}
  PROVE  LET found == Found(q.table, DOMAIN q.filters, q.filters)
             last  == n * q.limit
         IN  Page(q, n) = SubSeq(found, (n - 1) * q.limit + 1,
                                 IF last < Len(found) THEN last ELSE Len(found))
<1> DEFINE offset == (n - 1) * q.limit
           binding == Binding(q.filters, q.limit, offset)
           found == Found(q.table, DOMAIN q.filters, q.filters)
           S == {q.table[k] : k \in DOMAIN q.table}
<1>1. /\ q.limit \in Nat \ {0} /\ q.table \in Seq(S)
      /\ \A k \in DOMAIN q.table : q.table[k] = [f \in DOMAIN q.table[k] |-> q.table[k][f]]
  BY DatabaseAssumption DEF Queries
<1>2. /\ binding["limit"] = q.limit /\ binding["offset"] = offset
      /\ \A k \in DOMAIN q.filters : binding[k] = q.filters[k]
  BY DEF Binding
<1>3. offset + q.limit = n * q.limit /\ offset \in Nat
  BY <1>1
<1> HIDE DEF binding, offset
<1>4. Found(q.table, DOMAIN q.filters, binding) = found
  BY <1>2 DEF Found
<1> HIDE DEF found
<1>5. Select(q.table, DOMAIN q.filters, binding) =
        SubSeq(found, offset + 1, IF n * q.limit < Len(found) THEN n * q.limit ELSE Len(found))
  BY <1>2, <1>3, <1>4 DEF Select
<1> DEFINE docs == Select(q.table, DOMAIN q.filters, binding)
<1>6. found \in Seq(S) /\ Len(found) \in Nat
  BY <1>1, FoundIs DEF found
<1>7. docs \in Seq(S)
  <2>1. n * q.limit \in Nat
    BY <1>1
  <2> DEFINE last == IF n * q.limit < Len(found) THEN n * q.limit ELSE Len(found)
  <2>2. last \in Nat /\ last <= Len(found) /\ offset + 1 \in Nat /\ offset + 1 > 0
    BY <1>3, <1>6, <2>1
  <2>3. \A i \in (offset + 1)..last : found[i] \in S
    BY <1>6, <2>2
  <2>4. docs = SubSeq(found, offset + 1, last)
    BY <1>5
  <2> HIDE DEF last, docs
  <2> QED
    BY <2>2, <2>3, <2>4, SubSeqProperties
<1>8. Page(q, n) = [k \in DOMAIN docs |-> Project(docs[k], {})]
  BY DEF Page, get_list, binding, offset
<1> HIDE DEF docs
<1>9. ASSUME NEW k \in DOMAIN docs
      PROVE  Project(docs[k], {}) = docs[k]
  <2>1. docs[k] \in S
    BY <1>7
  <2>2. PICK m \in DOMAIN q.table : docs[k] = q.table[m]
    BY <2>1
  <2>3. q.table[m] = [f \in DOMAIN q.table[m] |-> q.table[m][f]]
    BY <1>1
  <2> QED
    BY <2>2, <2>3 DEF Project
<1>10. docs = [k \in DOMAIN docs |-> docs[k]]
  BY <1>7
<1>11. Page(q, n) = docs
  BY <1>8, <1>9, <1>10
<1> QED
  BY <1>5, <1>11 DEF docs, found, offset

\* Where the nth page ends.
EndOf(n, L, found) == IF n * L < Len(found) THEN n * L ELSE Len(found)

\* The first n pages are a prefix of what is found.
LEMMA PagesJoin ==
  ASSUME NEW S, NEW found \in Seq(S), NEW L \in Nat \ {0}, NEW n \in Nat \ {0}
  PROVE  SubSeq(found, 1, EndOf(n - 1, L, found))
             \o SubSeq(found, (n - 1) * L + 1, EndOf(n, L, found))
           = SubSeq(found, 1, EndOf(n, L, found))
<1> DEFINE before == EndOf(n - 1, L, found)
           after == EndOf(n, L, found)
           M == Len(found)
           first == (n - 1) * L
           last == n * L
<1>1. M \in Nat /\ first \in Nat /\ last = first + L /\ L \in Nat \ {0}
  <2>1. n - 1 \in Nat /\ (n - 1) * L \in Nat /\ n * L = (n - 1) * L + L
    BY Product
  <2> QED
    BY <2>1
<1>2. /\ before = IF first < M THEN first ELSE M
      /\ after = IF last < M THEN last ELSE M
  BY DEF EndOf
<1> SUFFICES SubSeq(found, 1, before) \o SubSeq(found, first + 1, after)
               = SubSeq(found, 1, after)
  OBVIOUS
<1> HIDE DEF before, after
<1>3. SubSeq(found, 1, M) = found
  BY SubSeqFull
<1> HIDE DEF first, last
<1>4. CASE first < M
  <2>1. before = first /\ after \in Nat /\ first <= after /\ after <= M
    <3> HIDE DEF M
    <3> QED
      BY <1>1, <1>2, <1>4
  <2>2. 1 \in 1..(M + 1) /\ first \in (1 - 1)..M /\ after \in first..M
    <3> HIDE DEF M
    <3> QED
      BY <1>1, <2>1
  <2>3. SubSeq(found, 1, first) \o SubSeq(found, first + 1, after) = SubSeq(found, 1, after)
    BY <2>2, ConcatAdjacentSubSeq
  <2> QED
    BY <2>1, <2>3
<1>5. CASE ~(first < M)
  <2>1. before = M /\ after = M /\ M < first + 1 /\ first + 1 \in Int /\ M \in Int
    <3> HIDE DEF M
    <3> QED
      BY <1>1, <1>2, <1>5
  <2>2. SubSeq(found, first + 1, after) = << >>
    BY <2>1, SubSeqEmpty
  <2>3. found \o << >> = found
    OBVIOUS
  <2> QED
    BY <1>3, <2>1, <2>2, <2>3
<1> QED
  BY <1>4, <1>5

LEMMA PagesAlwaysAll ==
  ASSUME NEW q \in Queries
  PROVE  PagesAreAll(q)
<1> SUFFICES ASSUME q.doctype \in Identifiers,
                    DOMAIN q.filters \subseteq Identifiers \ {"limit", "offset"}
             PROVE  Pages(q) = Found(q.table, DOMAIN q.filters, q.filters)
  BY DEF PagesAreAll
<1> DEFINE found == Found(q.table, DOMAIN q.filters, q.filters)
           M == Len(found)
           N == Len(q.table) + 1
           L == q.limit
           End(n) == IF n * L < M THEN n * L ELSE M
           S == {q.table[k] : k \in DOMAIN q.table}
           pages == [n \in 1..N |-> Page(q, n)]
<1>1. L \in Nat \ {0} /\ q.table \in Seq(S)
  BY DatabaseAssumption DEF Queries
<1>2. found \in Seq(S) /\ M \in Nat /\ N \in Nat /\ M < N
  BY <1>1, FoundIs
<1>3. \A n \in 1..N : Page(q, n) = SubSeq(found, (n - 1) * L + 1, End(n))
  BY PageIs
<1>4. Pages(q) = FlattenSeq(pages)
  BY DEF Pages
<1>5. \A n \in 1..N : pages[n] = Page(q, n)
  OBVIOUS
<1>6. pages = [n \in 1..N |-> pages[n]]
  OBVIOUS
<1> HIDE DEF pages, found, L, N, S
<1>7. \A n \in Nat : n * L \in Nat /\ n * L >= n
  BY <1>1, Product
<1>8. \A n \in Nat : End(n) = EndOf(n, L, found)
  BY DEF EndOf
<1>9. \A n \in Nat : End(n) \in 0..M
  BY <1>2, <1>7
<1>10. \A n \in 1..N : (n - 1) * L + 1 \in Nat \ {0}
  <2> SUFFICES ASSUME NEW n \in 1..N PROVE (n - 1) * L + 1 \in Nat \ {0}
    OBVIOUS
  <2>1. n - 1 \in Nat
    BY <1>2
  <2>2. (n - 1) * L \in Nat
    BY <1>7, <2>1
  <2> QED
    BY <2>2
<1>11. End(0) = 0 /\ End(N) = M
  <2>1. 0 * L = 0 /\ N * L >= N /\ N * L \in Nat
    BY <1>1, <1>2, <1>7, Product
  <2> QED
    BY <1>2, <2>1
<1> HIDE DEF End
<1>12. pages \in [1..N -> Seq(S)]
  <2> SUFFICES ASSUME NEW n \in 1..N PROVE pages[n] \in Seq(S)
    BY <1>6
  <2> DEFINE first == (n - 1) * L + 1
  <2>1. first \in Nat \ {0} /\ pages[n] = SubSeq(found, first, End(n))
    BY <1>3, <1>5, <1>10
  <2>3. n \in Nat
    BY <1>2
  <2>4. End(n) \in 0..M
    BY <1>9, <2>3
  <2> HIDE DEF first
  <2>2. first \in Int /\ End(n) \in Int /\ \A i \in first..End(n) : found[i] \in S
    BY <1>2, <2>1, <2>4
  <2> QED
    BY <2>1, <2>2, SubSeqProperties
<1>13. PICK flat : IsFlattening(flat, pages, N, S)
  BY <1>2, <1>12, FlattenSteps
<1> DEFINE G == {n \in 0..N : flat[n] = SubSeq(found, 1, End(n))}
<1>14. 0 \in G
  <2>1. SubSeq(found, 1, 0) = << >>
    BY SubSeqEmpty
  <2> QED
    BY <1>2, <1>11, <1>13, <2>1 DEF IsFlattening
<1>15. ASSUME NEW n \in 1..N, n - 1 \in G
      PROVE  n \in G
  <2>1. n \in 0..N /\ n \in Nat \ {0}
    BY <1>2
  <2>2. flat[n] = flat[n - 1] \o pages[n]
    BY <1>13 DEF IsFlattening
  <2>3. flat[n - 1] = SubSeq(found, 1, End(n - 1))
    BY <1>15
  <2>4. SubSeq(found, 1, End(n - 1)) \o SubSeq(found, (n - 1) * L + 1, End(n))
          = SubSeq(found, 1, End(n))
    <3>1. n - 1 \in Nat
      BY <2>1
    <3>2. End(n - 1) = EndOf(n - 1, L, found) /\ End(n) = EndOf(n, L, found)
      BY <1>8, <2>1, <3>1
    <3>3. SubSeq(found, 1, EndOf(n - 1, L, found))
              \o SubSeq(found, (n - 1) * L + 1, EndOf(n, L, found))
            = SubSeq(found, 1, EndOf(n, L, found))
      BY <1>1, <1>2, <2>1, PagesJoin
    <3> QED
      BY <3>2, <3>3
  <2> QED
    BY <1>3, <1>5, <2>1, <2>2, <2>3, <2>4
<1>16. N \in G
  <2>1. \A n \in 1..N : n - 1 \in G => n \in G
    BY <1>15
  <2> HIDE DEF G
  <2>2. \A n \in 0..N : n \in G
    BY <1>2, <1>14, <2>1, UpTo
  <2> QED
    BY <1>2, <2>2
<1>17. SubSeq(found, 1, M) = found
  BY <1>2, SubSeqFull
<1>18. FlattenSeq(pages) = flat[N] /\ flat[N] = SubSeq(found, 1, End(N))
  BY <1>13, <1>16 DEF IsFlattening
<1> QED
  BY <1>4, <1>11, <1>17, <1>18 DEF found

(***************************************************************************)
(* For every table, limit and set of filters: the pages are all documents  *)
(* that match, once each and in order.                                     *)
(***************************************************************************)
THEOREM PagesAlwaysCoverList == Spec => []PagesCoverList
<1>1. Asked => PagesCoverList
  BY PagesAlwaysAll DEF Asked, PagesCoverList
<1> QED
  BY <1>1, AskedAlways, PTL
-----------------------------------------------------------------------------
(* Values of scripts *)

\* A function f on the values X that is defined by recursion over the parts
\* of a value, where it has any.
IsRecursion(f, X, inner, tag, base) ==
  f = [x \in X |-> IF x \in inner THEN <<tag[x], [k \in DOMAIN x[2] |-> f[x[2][k]]]>>
                   ELSE base[x]]

\* There is one when the parts of a value of a level are of the level below.
LEMMA RecursionIsDefined ==
  ASSUME NEW N \in Nat, NEW level, level[0] = {},
         \A n \in 1..N : level[n - 1] \subseteq level[n],
         NEW inner, NEW tag, NEW base,
         \A n \in 1..N : \A x \in level[n] : x \in inner =>
           \A k \in DOMAIN x[2] : x[2][k] \in level[n - 1]
  PROVE  \E f : IsRecursion(f, level[N], inner, tag, base)
<1> DEFINE Step(f, x) == IF x \in inner THEN <<tag[x], [k \in DOMAIN x[2] |-> f[x[2][k]]]>>
                         ELSE base[x]
           Solves(f, n) == f = [x \in level[n] |-> Step(f, x)]
           G == {n \in 0..N : \E f : Solves(f, n)}
<1>1. 0 \in G
  <2>1. Solves([x \in {} |-> x], 0)
    OBVIOUS
  <2> HIDE DEF Solves
  <2> QED
    BY <2>1
<1>2. ASSUME NEW n \in 1..N, n - 1 \in G
      PROVE  n \in G
  <2>1. PICK f : Solves(f, n - 1)
    BY <1>2
  <2> DEFINE g == [x \in level[n] |-> Step(f, x)]
  <2>2. ASSUME NEW x \in level[n - 1]
        PROVE  g[x] = f[x]
    <3>1. x \in level[n]
      BY <2>2
    <3>2. f[x] = Step(f, x)
      BY <2>1, <2>2
    <3> HIDE DEF Step
    <3> QED
      BY <3>1, <3>2
  <2>3. ASSUME NEW x \in level[n]
        PROVE  Step(f, x) = Step(g, x)
    <3>1. CASE x \in inner
      <4>1. \A k \in DOMAIN x[2] : x[2][k] \in level[n - 1]
        BY <2>3, <3>1
      <4>2. \A k \in DOMAIN x[2] : g[x[2][k]] = f[x[2][k]]
        <5> HIDE DEF g
        <5> QED
          BY <2>2, <4>1
      <4> HIDE DEF g
      <4>3. [k \in DOMAIN x[2] |-> f[x[2][k]]] = [k \in DOMAIN x[2] |-> g[x[2][k]]]
        BY <4>2
      <4> QED
        BY <4>3
    <3>2. CASE x \notin inner
      BY <3>2
    <3> QED
      BY <3>1, <3>2
  <2>4. Solves(g, n)
    <3> HIDE DEF Step
    <3>1. g = [x \in level[n] |-> Step(f, x)]
      OBVIOUS
    <3> HIDE DEF g
    <3> QED
      BY <2>3, <3>1
  <2> HIDE DEF Solves, g
  <2> QED
    BY <2>4
<1> HIDE DEF G
<1>3. N \in G
  <2>1. \A n \in 0..N : n \in G
    BY <1>1, <1>2, UpTo
  <2> QED
    BY <2>1
<1> QED
  BY <1>3 DEF G, IsRecursion

\* The values that are nested less than n deep.
Below == [n \in 0..(MaxNesting + 1) |-> {j \in Jsons : Nesting[j] < n}]

LEMMA BelowGrows ==
  /\ MaxNesting + 1 \in Nat /\ Below[0] = {} /\ Below[MaxNesting + 1] = Jsons
  /\ \A n \in 1..(MaxNesting + 1) :
       /\ Below[n - 1] \subseteq Below[n] /\ Below[n] \subseteq Jsons
       /\ \A j \in Below[n] : j[1] \in Composite =>
            \A k \in DOMAIN j[2] : j[2][k] \in Below[n - 1]
<1>1. MaxNesting \in Nat /\ \A j \in Jsons : Nesting[j] \in Nat /\ Nesting[j] <= MaxNesting
  BY ValuesAssumption
<1>2. /\ MaxNesting + 1 \in Nat
      /\ 0 \in 0..(MaxNesting + 1) /\ MaxNesting + 1 \in 0..(MaxNesting + 1)
  BY <1>1
<1>3. \A n \in 0..(MaxNesting + 1) : Below[n] = {j \in Jsons : Nesting[j] < n}
  BY DEF Below
<1>4. Below[0] = {} /\ Below[MaxNesting + 1] = Jsons
  <2>1. Below[0] = {}
    BY <1>1, <1>2, <1>3
  <2>2. \A j \in Jsons : Nesting[j] < MaxNesting + 1
    BY <1>1
  <2>3. Below[MaxNesting + 1] = {j \in Jsons : Nesting[j] < MaxNesting + 1}
    BY <1>2, <1>3
  <2> QED
    BY <2>1, <2>2, <2>3
<1>5. ASSUME NEW n \in 1..(MaxNesting + 1)
      PROVE  /\ Below[n - 1] \subseteq Below[n] /\ Below[n] \subseteq Jsons
             /\ \A j \in Below[n] : j[1] \in Composite =>
                  \A k \in DOMAIN j[2] : j[2][k] \in Below[n - 1]
  <2>1. n \in 0..(MaxNesting + 1) /\ n - 1 \in 0..(MaxNesting + 1)
    BY <1>1
  <2>2. /\ Below[n] = {j \in Jsons : Nesting[j] < n}
        /\ Below[n - 1] = {j \in Jsons : Nesting[j] < n - 1}
    BY <1>3, <2>1
  <2>3. Below[n - 1] \subseteq Below[n] /\ Below[n] \subseteq Jsons
    BY <1>1, <2>1, <2>2
  <2>4. ASSUME NEW j \in Below[n], j[1] \in Composite, NEW k \in DOMAIN j[2]
        PROVE  j[2][k] \in Below[n - 1]
    <3>1. j \in Jsons /\ Nesting[j] < n
      BY <2>2
    <3>2. j[2][k] \in Jsons /\ Nesting[j[2][k]] < Nesting[j]
      BY <2>4, <3>1, ValuesAssumption
    <3>3. Nesting[j] \in Nat /\ Nesting[j[2][k]] \in Nat
      BY <1>1, <3>1, <3>2
    <3> QED
      BY <2>1, <2>2, <3>1, <3>2, <3>3
  <2> QED
    BY <2>3, <2>4
<1> QED
  BY <1>2, <1>4, <1>5

Composites == {j \in Jsons : j[1] \in Composite}

LEMMA JsonRecursionIsDefined ==
  ASSUME NEW tag, NEW base
  PROVE  \E f : IsRecursion(f, Jsons, Composites, tag, base)
<1> DEFINE N == MaxNesting + 1
<1>1. /\ N \in Nat /\ Below[0] = {}
      /\ \A n \in 1..N : Below[n - 1] \subseteq Below[n]
      /\ \A n \in 1..N : \A j \in Below[n] : j \in Composites =>
           \A k \in DOMAIN j[2] : j[2][k] \in Below[n - 1]
  BY BelowGrows DEF Composites
<1> HIDE DEF N
<1>2. \E f : IsRecursion(f, Below[N], Composites, tag, base)
  BY <1>1, RecursionIsDefined
<1> QED
  BY <1>2, BelowGrows DEF N

\* What json_to_dynamic makes of a value.
DynamicOf(f, j) ==
  CASE j[1] = "array"  -> <<"array", [k \in DOMAIN j[2] |-> f[j[2][k]]]>>
    [] j[1] = "object" -> <<"map", [k \in DOMAIN j[2] |-> f[j[2][k]]]>>
    [] j[1] = "null"   -> Unit
    [] j[1] = "int"    -> Number(j[2])
    [] OTHER           -> j

LEMMA DynamicIs ==
  json_to_dynamic = [j \in Jsons |-> DynamicOf(json_to_dynamic, j)]
<1> DEFINE tag == [j \in Jsons |-> IF j[1] = "array" THEN "array" ELSE "map"]
           base == [j \in Jsons |-> IF j[1] = "null" THEN Unit
                                    ELSE IF j[1] = "int" THEN Number(j[2]) ELSE j]
           Step(f, j) == IF j \in Composites THEN <<tag[j], [k \in DOMAIN j[2] |-> f[j[2][k]]]>>
                         ELSE base[j]
<1>1. \E f : f = [j \in Jsons |-> Step(f, j)]
  <2> HIDE DEF tag, base
  <2>1. \E f : IsRecursion(f, Jsons, Composites, tag, base)
    BY JsonRecursionIsDefined
  <2> QED
    BY <2>1 DEF IsRecursion
<1>2. ASSUME NEW f, NEW j \in Jsons
      PROVE  Step(f, j) = DynamicOf(f, j)
  <2>1. j \in Composites <=> j[1] \in Composite
    BY DEF Composites
  <2>2. tag[j] = IF j[1] = "array" THEN "array" ELSE "map"
    OBVIOUS
  <2>3. base[j] = IF j[1] = "null" THEN Unit ELSE IF j[1] = "int" THEN Number(j[2]) ELSE j
    OBVIOUS
  <2> HIDE DEF tag, base
  <2> QED
    BY <2>1, <2>2, <2>3 DEF DynamicOf, Composite
<1> HIDE DEF Step
<1>3. \E f : f = [j \in Jsons |-> DynamicOf(f, j)]
  BY <1>1, <1>2
<1>4. json_to_dynamic = CHOOSE f : f = [j \in Jsons |-> DynamicOf(f, j)]
  BY DEF json_to_dynamic, DynamicOf
<1> QED
  BY <1>3, <1>4

WidenedOf(f, j) ==
  IF j[1] \in Composite THEN <<j[1], [k \in DOMAIN j[2] |-> f[j[2][k]]]>>
  ELSE IF j[1] = "int" /\ j[2] > I64Max THEN <<"float", AsF64[j[2]]>>
  ELSE j

LEMMA WidenedIs == Widened = [j \in Jsons |-> WidenedOf(Widened, j)]
<1> DEFINE tag == [j \in Jsons |-> j[1]]
           base == [j \in Jsons |-> IF j[1] = "int" /\ j[2] > I64Max THEN <<"float", AsF64[j[2]]>>
                                    ELSE j]
           Step(f, j) == IF j \in Composites THEN <<tag[j], [k \in DOMAIN j[2] |-> f[j[2][k]]]>>
                         ELSE base[j]
<1>1. \E f : f = [j \in Jsons |-> Step(f, j)]
  <2> HIDE DEF tag, base
  <2>1. \E f : IsRecursion(f, Jsons, Composites, tag, base)
    BY JsonRecursionIsDefined
  <2> QED
    BY <2>1 DEF IsRecursion
<1>2. ASSUME NEW f, NEW j \in Jsons
      PROVE  Step(f, j) = WidenedOf(f, j)
  BY DEF Composites, WidenedOf
<1> HIDE DEF Step
<1>3. \E f : f = [j \in Jsons |-> WidenedOf(f, j)]
  BY <1>1, <1>2
<1>4. Widened = CHOOSE f : f = [j \in Jsons |-> WidenedOf(f, j)]
  BY DEF Widened, WidenedOf
<1> QED
  BY <1>3, <1>4

\* A value and what becomes of it in a script.
LEMMA DynamicShape ==
  ASSUME NEW j \in Jsons
  PROVE  /\ json_to_dynamic[j] \in Dynamics
         /\ j[1] \in Composite =>
              /\ \A k \in DOMAIN j[2] : j[2][k] \in Jsons
              /\ json_to_dynamic[j] = <<IF j[1] = "array" THEN "array" ELSE "map",
                                       [k \in DOMAIN j[2] |-> json_to_dynamic[j[2][k]]]>>
         /\ j[1] \notin Composite =>
              /\ json_to_dynamic[j] = IF j = Null THEN Unit
                                      ELSE IF j[1] = "int" THEN Number(j[2]) ELSE j
              /\ json_to_dynamic[j][1] \in {"bool", "int", "float", "string", "unit"}
<1>1. json_to_dynamic[j] = DynamicOf(json_to_dynamic, j)
  BY DynamicIs
<1>2. json_to_dynamic[j] \in Dynamics
  BY DEF Dynamics
<1>3. CASE j[1] \in Composite
  <2>1. \A k \in DOMAIN j[2] : j[2][k] \in Jsons
    BY <1>3, ValuesAssumption
  <2>2. json_to_dynamic[j] = <<IF j[1] = "array" THEN "array" ELSE "map",
                               [k \in DOMAIN j[2] |-> json_to_dynamic[j[2][k]]]>>
    BY <1>1, <1>3 DEF DynamicOf, Composite
  <2> QED
    BY <1>2, <1>3, <2>1, <2>2
<1>4. CASE j[1] \notin Composite
  <2>1. j[1] \in {"bool", "int", "float", "string"} \/ j = Null
    BY <1>4, ValuesAssumption
  <2>2. j[1] = "null" <=> j = Null
    BY <2>1 DEF Null
  <2>3. json_to_dynamic[j] = IF j = Null THEN Unit
                             ELSE IF j[1] = "int" THEN Number(j[2]) ELSE j
    BY <1>1, <1>4, <2>2 DEF DynamicOf, Composite, Null
  <2>4. Unit[1] = "unit" /\ Number(j[2])[1] \in {"int", "float"}
    BY DEF Unit, Number
  <2> QED
    BY <1>2, <1>4, <2>1, <2>3, <2>4
<1> QED
  BY <1>3, <1>4

\* What dynamic_to_json makes of a value.
JsonOf(f, d) ==
  CASE d[1] = "array" -> <<"array", [k \in DOMAIN d[2] |-> f[d[2][k]]]>>
    [] d[1] = "map"   -> <<"object", [k \in DOMAIN d[2] |-> f[d[2][k]]]>>
    [] d[1] \in {"bool", "int", "float", "string"} -> d
    [] OTHER          -> Null

LEMMA JsonIs == dynamic_to_json = [d \in Dynamics |-> JsonOf(dynamic_to_json, d)]
<1> DEFINE N == MaxNesting + 1
           inner == {d \in Dynamics : d[1] \in {"array", "map"}}
           tag == [d \in Dynamics |-> IF d[1] = "array" THEN "array" ELSE "object"]
           base == [d \in Dynamics |->
                      IF d[1] \in {"bool", "int", "float", "string"} THEN d ELSE Null]
           level == [n \in 0..N |-> {json_to_dynamic[j] : j \in Below[n]}]
           Step(f, d) == IF d \in inner THEN <<tag[d], [k \in DOMAIN d[2] |-> f[d[2][k]]]>>
                         ELSE base[d]
<1>1. /\ N \in Nat /\ Below[0] = {} /\ Below[N] = Jsons
      /\ 0 \in 0..N /\ N \in 0..N /\ \A n \in 1..N : n \in 0..N /\ n - 1 \in 0..N
  BY BelowGrows
<1>2. \A n \in 1..N :
        /\ Below[n - 1] \subseteq Below[n] /\ Below[n] \subseteq Jsons
        /\ \A j \in Below[n] : j[1] \in Composite =>
             \A k \in DOMAIN j[2] : j[2][k] \in Below[n - 1]
  BY BelowGrows
<1>3. \A n \in 0..N : level[n] = {json_to_dynamic[j] : j \in Below[n]}
  OBVIOUS
<1> HIDE DEF N, level
<1>4. level[0] = {} /\ level[N] = Dynamics
  BY <1>1, <1>3 DEF Dynamics
<1>5. \A n \in 1..N : level[n - 1] \subseteq level[n]
  BY <1>1, <1>2, <1>3
<1>6. ASSUME NEW n \in 1..N, NEW d \in level[n], d \in inner, NEW k \in DOMAIN d[2]
      PROVE  d[2][k] \in level[n - 1]
  <2>1. PICK j \in Below[n] : d = json_to_dynamic[j]
    BY <1>1, <1>3, <1>6
  <2>2. j \in Jsons
    BY <1>2, <2>1
  <2>3. j[1] \in Composite
    BY <1>6, <2>1, <2>2, DynamicShape
  <2>4. d[2] = [i \in DOMAIN j[2] |-> json_to_dynamic[j[2][i]]]
    BY <2>1, <2>2, <2>3, DynamicShape
  <2>5. k \in DOMAIN j[2] /\ d[2][k] = json_to_dynamic[j[2][k]]
    BY <1>6, <2>4
  <2>6. j[2][k] \in Below[n - 1]
    BY <1>2, <2>1, <2>3, <2>5
  <2> QED
    BY <1>1, <1>3, <2>5, <2>6
<1>7. \E f : f = [d \in Dynamics |-> Step(f, d)]
  <2> HIDE DEF inner, tag, base
  <2>1. \E f : IsRecursion(f, level[N], inner, tag, base)
    <3>1. \A n \in 1..N : \A d \in level[n] : d \in inner =>
            \A k \in DOMAIN d[2] : d[2][k] \in level[n - 1]
      BY <1>6
    <3> QED
      BY <1>1, <1>4, <1>5, <3>1, RecursionIsDefined
  <2> QED
    BY <1>4, <2>1 DEF IsRecursion
<1>8. ASSUME NEW f, NEW d \in Dynamics
      PROVE  Step(f, d) = JsonOf(f, d)
  <2>1. d \in inner <=> d[1] \in {"array", "map"}
    OBVIOUS
  <2>2. tag[d] = IF d[1] = "array" THEN "array" ELSE "object"
    OBVIOUS
  <2>3. base[d] = IF d[1] \in {"bool", "int", "float", "string"} THEN d ELSE Null
    OBVIOUS
  <2> HIDE DEF inner, tag, base
  <2> QED
    BY <2>1, <2>2, <2>3 DEF JsonOf
<1> HIDE DEF Step
<1>9. \E f : f = [d \in Dynamics |-> JsonOf(f, d)]
  BY <1>7, <1>8
<1>10. dynamic_to_json = CHOOSE f : f = [d \in Dynamics |-> JsonOf(f, d)]
  BY DEF dynamic_to_json, JsonOf
<1> QED
  BY <1>9, <1>10

LEMMA ValuesComeBack ==
  ASSUME NEW j \in Jsons
  PROVE  ComesBack(j)
<1> DEFINE N == MaxNesting + 1
           G == {n \in 0..N : \A i \in Below[n] : ComesBack(i)}
<1>1. /\ N \in Nat /\ Below[0] = {} /\ Below[N] = Jsons
      /\ \A n \in 1..N :
           /\ Below[n] \subseteq Jsons
           /\ \A i \in Below[n] : i[1] \in Composite =>
                \A k \in DOMAIN i[2] : i[2][k] \in Below[n - 1]
  BY BelowGrows
<1> HIDE DEF N
<1>2. 0 \in G
  BY <1>1
<1>3. ASSUME NEW n \in 1..N, n - 1 \in G
      PROVE  n \in G
  <2> SUFFICES ASSUME NEW i \in Below[n] PROVE ComesBack(i)
    BY <1>1
  <2> DEFINE d == json_to_dynamic[i]
  <2>1. i \in Jsons
    BY <1>1
  <2>2. Widened[i] = WidenedOf(Widened, i)
    BY <2>1, WidenedIs
  <2>3. dynamic_to_json[d] = JsonOf(dynamic_to_json, d)
    BY <2>1, DynamicShape, JsonIs
  <2>4. CASE i[1] \in Composite
    <3>1. \A k \in DOMAIN i[2] : dynamic_to_json[json_to_dynamic[i[2][k]]] = Widened[i[2][k]]
      BY <1>1, <1>3, <2>4 DEF ComesBack
    <3>2. d = <<IF i[1] = "array" THEN "array" ELSE "map",
                [k \in DOMAIN i[2] |-> json_to_dynamic[i[2][k]]]>>
      BY <2>1, <2>4, DynamicShape
    <3> HIDE DEF d
    <3>3. /\ d[1] = IF i[1] = "array" THEN "array" ELSE "map"
          /\ d[2] = [k \in DOMAIN i[2] |-> json_to_dynamic[i[2][k]]]
      BY <3>2
    <3>4. dynamic_to_json[d] =
            <<IF d[1] = "array" THEN "array" ELSE "object",
              [k \in DOMAIN d[2] |-> dynamic_to_json[d[2][k]]]>>
      BY <2>3, <3>3 DEF JsonOf
    <3>5. [k \in DOMAIN d[2] |-> dynamic_to_json[d[2][k]]]
            = [k \in DOMAIN i[2] |-> Widened[i[2][k]]]
      BY <3>1, <3>3
    <3>6. (IF d[1] = "array" THEN "array" ELSE "object") = i[1]
      BY <2>4, <3>3 DEF Composite
    <3>7. Widened[i] = <<i[1], [k \in DOMAIN i[2] |-> Widened[i[2][k]]]>>
      BY <2>2, <2>4 DEF WidenedOf
    <3> QED
      BY <3>4, <3>5, <3>6, <3>7 DEF ComesBack, d
  <2>5. CASE i[1] \notin Composite
    <3>1. /\ d = IF i = Null THEN Unit ELSE IF i[1] = "int" THEN Number(i[2]) ELSE i
          /\ d[1] \in {"bool", "int", "float", "string", "unit"}
      BY <2>1, <2>5, DynamicShape
    <3>2. /\ i[1] \in {"bool", "int", "float", "string"} \/ i = Null
          /\ i = <<i[1], i[2]>> /\ (i[1] = "int" => i[2] \in Int) /\ I64Max \in Int
      BY <2>1, <2>5, ValuesAssumption
    <3> HIDE DEF d
    <3>3. dynamic_to_json[d] = IF d[1] = "unit" THEN Null ELSE d
      BY <2>3, <3>1 DEF JsonOf
    <3>4. Widened[i] = IF i[1] = "int" /\ i[2] > I64Max THEN <<"float", AsF64[i[2]]>> ELSE i
      BY <2>2, <2>5 DEF WidenedOf
    <3>5. CASE i = Null
      BY <3>1, <3>3, <3>4, <3>5 DEF Null, Unit, ComesBack, d
    <3>6. CASE i # Null /\ i[1] = "int"
      <4>1. d = Number(i[2])
        BY <3>1, <3>6
      <4>2. Number(i[2]) = Widened[i] /\ Number(i[2])[1] # "unit"
        BY <3>2, <3>4, <3>6 DEF Number
      <4> QED
        BY <3>3, <4>1, <4>2 DEF ComesBack, d
    <3>7. CASE i # Null /\ i[1] # "int"
      BY <3>1, <3>2, <3>3, <3>4, <3>7 DEF ComesBack, d
    <3> QED
      BY <3>5, <3>6, <3>7
  <2> QED
    BY <2>4, <2>5
<1> HIDE DEF G
<1>4. N \in G
  <2>1. \A n \in 0..N : n \in G
    BY <1>1, <1>2, <1>3, UpTo
  <2> QED
    BY <1>1, <2>1
<1> QED
  BY <1>1, <1>4 DEF G

(***************************************************************************)
(* For every JSON value, however it is built up: a script that returns it  *)
(* gives back what it was given, but for integers beyond i64.              *)
(***************************************************************************)
THEOREM ValuesAlwaysSurvive == Spec => []ValuesSurvive
<1>1. Asked => ValuesSurvive
  BY ValuesComeBack DEF Asked, ValuesSurvive
<1> QED
  BY <1>1, AskedAlways, PTL
-----------------------------------------------------------------------------
(* Layouts *)

\* The layouts that are less than n deep.
Shallow == [n \in 0..(MaxDepth + 1) |-> {node \in Layouts : Depth[node] < n}]

LEMMA ShallowGrows ==
  /\ MaxDepth + 1 \in Nat /\ Shallow[0] = {} /\ Shallow[MaxDepth + 1] = Layouts
  /\ \A n \in 1..(MaxDepth + 1) :
       /\ Shallow[n - 1] \subseteq Shallow[n] /\ Shallow[n] \subseteq Layouts
       /\ \A node \in Shallow[n] :
            \A k \in DOMAIN node.children : node.children[k] \in Shallow[n - 1]
<1>1. MaxDepth \in Nat /\ \A node \in Layouts : Depth[node] \in Nat /\ Depth[node] <= MaxDepth
  BY LayoutsAssumption
<1>2. /\ MaxDepth + 1 \in Nat
      /\ 0 \in 0..(MaxDepth + 1) /\ MaxDepth + 1 \in 0..(MaxDepth + 1)
  BY <1>1
<1>3. \A n \in 0..(MaxDepth + 1) : Shallow[n] = {node \in Layouts : Depth[node] < n}
  BY DEF Shallow
<1>4. Shallow[0] = {} /\ Shallow[MaxDepth + 1] = Layouts
  <2>1. Shallow[0] = {}
    BY <1>1, <1>2, <1>3
  <2>2. \A node \in Layouts : Depth[node] < MaxDepth + 1
    BY <1>1
  <2>3. Shallow[MaxDepth + 1] = {node \in Layouts : Depth[node] < MaxDepth + 1}
    BY <1>2, <1>3
  <2> QED
    BY <2>1, <2>2, <2>3
<1>5. ASSUME NEW n \in 1..(MaxDepth + 1)
      PROVE  /\ Shallow[n - 1] \subseteq Shallow[n] /\ Shallow[n] \subseteq Layouts
             /\ \A node \in Shallow[n] :
                  \A k \in DOMAIN node.children : node.children[k] \in Shallow[n - 1]
  <2>1. n \in 0..(MaxDepth + 1) /\ n - 1 \in 0..(MaxDepth + 1)
    BY <1>1
  <2>2. /\ Shallow[n] = {node \in Layouts : Depth[node] < n}
        /\ Shallow[n - 1] = {node \in Layouts : Depth[node] < n - 1}
    BY <1>3, <2>1
  <2>3. Shallow[n - 1] \subseteq Shallow[n] /\ Shallow[n] \subseteq Layouts
    BY <1>1, <2>1, <2>2
  <2>4. ASSUME NEW node \in Shallow[n], NEW k \in DOMAIN node.children
        PROVE  node.children[k] \in Shallow[n - 1]
    <3>1. node \in Layouts /\ Depth[node] < n
      BY <2>2
    <3>2. node.children[k] \in Layouts /\ Depth[node.children[k]] < Depth[node]
      <4>1. node.children \in Seq(Layouts) /\ Depth[node.children[k]] < Depth[node]
        BY <3>1, LayoutsAssumption
      <4> QED
        BY <4>1
    <3>3. Depth[node] \in Nat /\ Depth[node.children[k]] \in Nat
      BY <1>1, <3>1, <3>2
    <3> QED
      BY <2>1, <2>2, <3>1, <3>2, <3>3
  <2> QED
    BY <2>3, <2>4
<1> QED
  BY <1>2, <1>4, <1>5

\* What compile_ast makes of a node and the results of its children.
Compiled(results, node) ==
  IF Fault(node) # NoError THEN Err(Fault(node))
  ELSE IF node.tag \in VoidTags THEN Ok(<<Open("void", node)>>)
  ELSE LET children == Children(results)
       IN  IF children.error # NoError THEN children ELSE Ok(Body(node, children.html))

LEMMA CompiledIs == compile_ast = [node \in Layouts |-> Compiled(OfChildren(compile_ast, node), node)]
<1> DEFINE N == MaxDepth + 1
           Step(f, node) == Compiled(OfChildren(f, node), node)
           Solves(f, n) == f = [node \in Shallow[n] |-> Step(f, node)]
           G == {n \in 0..N : \E f : Solves(f, n)}
<1>1. N \in Nat /\ Shallow[0] = {} /\ Shallow[N] = Layouts
  BY ShallowGrows
<1>2. \A n \in 1..N : Shallow[n - 1] \subseteq Shallow[n] /\ Shallow[n] \subseteq Layouts
  BY ShallowGrows
<1>3. 0 \in G
  <2>1. Solves([node \in {} |-> node], 0)
    BY <1>1
  <2> HIDE DEF Solves
  <2> QED
    BY <1>1, <2>1
<1>4. ASSUME NEW n \in 1..N, n - 1 \in G
      PROVE  n \in G
  <2>1. PICK f : Solves(f, n - 1)
    BY <1>4
  <2> DEFINE g == [node \in Shallow[n] |-> Step(f, node)]
  <2> HIDE DEF N, Step
  <2>2. ASSUME NEW node \in Shallow[n - 1]
        PROVE  g[node] = f[node]
    BY <1>2, <2>1
  <2>3. ASSUME NEW node \in Shallow[n]
        PROVE  OfChildren(f, node) = OfChildren(g, node)
    <3>1. \A k \in DOMAIN node.children : node.children[k] \in Shallow[n - 1]
      BY ShallowGrows DEF N
    <3> HIDE DEF g
    <3> QED
      BY <2>2, <3>1 DEF OfChildren
  <2>4. \A node \in Shallow[n] : Step(f, node) = Step(g, node)
    <3> HIDE DEF g
    <3> QED
      BY <2>3 DEF Step
  <2>5. g = [node \in Shallow[n] |-> Step(f, node)]
    OBVIOUS
  <2> HIDE DEF g
  <2>6. Solves(g, n)
    BY <2>4, <2>5
  <2> HIDE DEF Solves
  <2> QED
    BY <1>1, <2>6
<1> HIDE DEF N, G
<1>5. N \in G
  <2>1. \A n \in 0..N : n \in G
    BY <1>1, <1>3, <1>4, UpTo
  <2> QED
    BY <1>1, <2>1
<1>6. \E f : f = [node \in Layouts |-> Compiled(OfChildren(f, node), node)]
  BY <1>1, <1>5 DEF G
<1>7. compile_ast = CHOOSE f : f = [node \in Layouts |-> Compiled(OfChildren(f, node), node)]
  BY DEF compile_ast, Compiled
<1> QED
  BY <1>6, <1>7

RenderedOf(nodes, node) ==
  <<node>> \o IF node.tag \in VoidTags THEN <<>> ELSE FlattenSeq(nodes)

LEMMA RenderedOfIs == Rendered = [node \in Layouts |-> RenderedOf(OfChildren(Rendered, node), node)]
<1> DEFINE N == MaxDepth + 1
           Step(f, node) == RenderedOf(OfChildren(f, node), node)
           Solves(f, n) == f = [node \in Shallow[n] |-> Step(f, node)]
           G == {n \in 0..N : \E f : Solves(f, n)}
<1>1. N \in Nat /\ Shallow[0] = {} /\ Shallow[N] = Layouts
  BY ShallowGrows
<1>2. \A n \in 1..N : Shallow[n - 1] \subseteq Shallow[n] /\ Shallow[n] \subseteq Layouts
  BY ShallowGrows
<1>3. 0 \in G
  <2>1. Solves([node \in {} |-> node], 0)
    BY <1>1
  <2> HIDE DEF Solves
  <2> QED
    BY <1>1, <2>1
<1>4. ASSUME NEW n \in 1..N, n - 1 \in G
      PROVE  n \in G
  <2>1. PICK f : Solves(f, n - 1)
    BY <1>4
  <2> DEFINE g == [node \in Shallow[n] |-> Step(f, node)]
  <2> HIDE DEF N, Step
  <2>2. ASSUME NEW node \in Shallow[n - 1]
        PROVE  g[node] = f[node]
    BY <1>2, <2>1
  <2>3. ASSUME NEW node \in Shallow[n]
        PROVE  OfChildren(f, node) = OfChildren(g, node)
    <3>1. \A k \in DOMAIN node.children : node.children[k] \in Shallow[n - 1]
      BY ShallowGrows DEF N
    <3> HIDE DEF g
    <3> QED
      BY <2>2, <3>1 DEF OfChildren
  <2>4. \A node \in Shallow[n] : Step(f, node) = Step(g, node)
    <3> HIDE DEF g
    <3> QED
      BY <2>3 DEF Step
  <2>5. g = [node \in Shallow[n] |-> Step(f, node)]
    OBVIOUS
  <2> HIDE DEF g
  <2>6. Solves(g, n)
    BY <2>4, <2>5
  <2> HIDE DEF Solves
  <2> QED
    BY <1>1, <2>6
<1> HIDE DEF N, G
<1>5. N \in G
  <2>1. \A n \in 0..N : n \in G
    BY <1>1, <1>3, <1>4, UpTo
  <2> QED
    BY <1>1, <2>1
<1>6. \E f : f = [node \in Layouts |-> RenderedOf(OfChildren(f, node), node)]
  BY <1>1, <1>5 DEF G
<1>7. Rendered = CHOOSE f : f = [node \in Layouts |-> RenderedOf(OfChildren(f, node), node)]
  BY DEF Rendered, RenderedOf
<1> QED
  BY <1>6, <1>7

ShownOf(children, node) ==
  LET void == node.tag \in VoidTags
  IN  [tag |-> node.tag, names |-> OwnNames(node), text |-> node.text /\ ~void,
       children |-> IF void THEN <<>> ELSE children]

LEMMA ShownOfIs == Shown = [node \in Layouts |-> ShownOf(OfChildren(Shown, node), node)]
<1> DEFINE N == MaxDepth + 1
           Step(f, node) == ShownOf(OfChildren(f, node), node)
           Solves(f, n) == f = [node \in Shallow[n] |-> Step(f, node)]
           G == {n \in 0..N : \E f : Solves(f, n)}
<1>1. N \in Nat /\ Shallow[0] = {} /\ Shallow[N] = Layouts
  BY ShallowGrows
<1>2. \A n \in 1..N : Shallow[n - 1] \subseteq Shallow[n] /\ Shallow[n] \subseteq Layouts
  BY ShallowGrows
<1>3. 0 \in G
  <2>1. Solves([node \in {} |-> node], 0)
    BY <1>1
  <2> HIDE DEF Solves
  <2> QED
    BY <1>1, <2>1
<1>4. ASSUME NEW n \in 1..N, n - 1 \in G
      PROVE  n \in G
  <2>1. PICK f : Solves(f, n - 1)
    BY <1>4
  <2> DEFINE g == [node \in Shallow[n] |-> Step(f, node)]
  <2> HIDE DEF N, Step
  <2>2. ASSUME NEW node \in Shallow[n - 1]
        PROVE  g[node] = f[node]
    BY <1>2, <2>1
  <2>3. ASSUME NEW node \in Shallow[n]
        PROVE  OfChildren(f, node) = OfChildren(g, node)
    <3>1. \A k \in DOMAIN node.children : node.children[k] \in Shallow[n - 1]
      BY ShallowGrows DEF N
    <3> HIDE DEF g
    <3> QED
      BY <2>2, <3>1 DEF OfChildren
  <2>4. \A node \in Shallow[n] : Step(f, node) = Step(g, node)
    <3> HIDE DEF g
    <3> QED
      BY <2>3 DEF Step
  <2>5. g = [node \in Shallow[n] |-> Step(f, node)]
    OBVIOUS
  <2> HIDE DEF g
  <2>6. Solves(g, n)
    BY <2>4, <2>5
  <2> HIDE DEF Solves
  <2> QED
    BY <1>1, <2>6
<1> HIDE DEF N, G
<1>5. N \in G
  <2>1. \A n \in 0..N : n \in G
    BY <1>1, <1>3, <1>4, UpTo
  <2> QED
    BY <1>1, <2>1
<1>6. \E f : f = [node \in Layouts |-> ShownOf(OfChildren(f, node), node)]
  BY <1>1, <1>5 DEF G
<1>7. Shown = CHOOSE f : f = [node \in Layouts |-> ShownOf(OfChildren(f, node), node)]
  BY DEF Shown, ShownOf
<1> QED
  BY <1>6, <1>7

\* The errors of two lists of nodes, one after the other.
LEMMA FirstFaultJoin ==
  ASSUME NEW a \in Seq(Layouts), NEW b \in Seq(Layouts),
         NEW d, FirstFault(d, a), NEW e, FirstFault(e, b)
  PROVE  FirstFault(IF d # NoError THEN d ELSE e, a \o b)
<1> DEFINE nodes == a \o b
<1>1. /\ Len(a) \in Nat /\ Len(b) \in Nat /\ Len(nodes) = Len(a) + Len(b)
      /\ \A k \in 1..Len(a) : nodes[k] = a[k]
      /\ \A k \in 1..Len(b) : nodes[Len(a) + k] = b[k]
      /\ \A k \in 1..Len(nodes) : k > Len(a) =>
           k - Len(a) \in 1..Len(b) /\ nodes[k] = b[k - Len(a)]
  BY Concatenated
<1>2. DOMAIN a = 1..Len(a) /\ DOMAIN b = 1..Len(b) /\ DOMAIN nodes = 1..Len(nodes)
  OBVIOUS
<1> HIDE DEF nodes
<1>3. CASE d # NoError
  <2>1. PICK n \in DOMAIN a : /\ d = Fault(a[n])
                              /\ \A m \in 1..(n - 1) : Fault(a[m]) = NoError
    BY <1>3 DEF FirstFault
  <2>2. n \in DOMAIN nodes /\ nodes[n] = a[n] /\ \A m \in 1..(n - 1) : m \in 1..Len(a)
    BY <1>1, <1>2
  <2>3. \A m \in 1..(n - 1) : Fault(nodes[m]) = NoError
    BY <1>1, <2>1, <2>2
  <2> QED
    BY <1>3, <2>1, <2>2, <2>3 DEF FirstFault, nodes
<1>4. CASE d = NoError
  <2>1. \A n \in 1..Len(a) : Fault(a[n]) = NoError
    BY <1>2, <1>4 DEF FirstFault
  <2>2. CASE e = NoError
    <3>1. \A n \in 1..Len(b) : Fault(b[n]) = NoError
      BY <1>2, <2>2 DEF FirstFault
    <3>2. ASSUME NEW n \in DOMAIN nodes
          PROVE  Fault(nodes[n]) = NoError
      <4>1. CASE n \in 1..Len(a)
        BY <1>1, <2>1, <4>1
      <4>2. CASE n \notin 1..Len(a)
        <5>1. n \in 1..Len(nodes) /\ n > Len(a)
          BY <1>1, <1>2, <4>2
        <5> QED
          BY <1>1, <3>1, <5>1
      <4> QED
        BY <4>1, <4>2
    <3> QED
      BY <1>4, <2>2, <3>2 DEF FirstFault, nodes
  <2>3. CASE e # NoError
    <3>1. PICK n \in DOMAIN b : /\ e = Fault(b[n])
                                /\ \A m \in 1..(n - 1) : Fault(b[m]) = NoError
      BY <2>3 DEF FirstFault
    <3> DEFINE place == Len(a) + n
    <3>2. place \in DOMAIN nodes /\ nodes[place] = b[n]
      BY <1>1, <1>2
    <3>3. ASSUME NEW m \in 1..(place - 1)
          PROVE  Fault(nodes[m]) = NoError
      <4>1. CASE m \in 1..Len(a)
        BY <1>1, <2>1, <4>1
      <4>2. CASE m \notin 1..Len(a)
        <5>1. m \in 1..Len(nodes) /\ m > Len(a) /\ m - Len(a) \in 1..(n - 1)
          BY <1>1, <1>2, <3>1, <4>2
        <5> QED
          BY <1>1, <3>1, <5>1
      <4> QED
        BY <4>1, <4>2
    <3> HIDE DEF place
    <3> QED
      BY <1>4, <2>3, <3>1, <3>2, <3>3 DEF FirstFault, nodes
  <2> QED
    BY <2>2, <2>3
<1> QED
  BY <1>3, <1>4

\* The loop over the children stops at the first error, in document order.
LEMMA FirstFaultChildren ==
  ASSUME NEW N \in Nat, NEW results, DOMAIN results = 1..N,
         NEW nodes \in [1..N -> Seq(Layouts)],
         \A k \in 1..N : FirstFault(results[k].error, nodes[k])
  PROVE  /\ FlattenSeq(nodes) \in Seq(Layouts)
         /\ FirstFault(Children(results).error, FlattenSeq(nodes))
<1> DEFINE failed == {k \in 1..N : results[k].error # NoError}
           first == CHOOSE k \in failed : \A i \in failed : k <= i
           So(n) == IF failed = {} \/ n < first THEN NoError ELSE results[first].error
           G(flat) == {n \in 0..N : FirstFault(So(n), flat[n])}
<1>1. Children(results) = IF failed = {} THEN Ok(Html(results)) ELSE results[first]
  BY DEF Children
<1>2. failed # {} => /\ first \in 1..N /\ results[first].error # NoError
                     /\ \A i \in 1..N : results[i].error # NoError => first <= i
  <2> SUFFICES ASSUME failed # {}
               PROVE  first \in failed /\ \A i \in failed : first <= i
    OBVIOUS
  <2>1. failed \in SUBSET Nat
    OBVIOUS
  <2> HIDE DEF failed
  <2>2. \E k \in failed : \A i \in failed : k <= i
    BY <2>1, Least
  <2> QED
    BY <2>2
<1>3. failed = {} => \A i \in 1..N : results[i].error = NoError
  OBVIOUS
<1> HIDE DEF failed, first
<1>4. PICK flat : IsFlattening(flat, nodes, N, Layouts)
  BY FlattenSteps
<1>5. flat \in [0..N -> Seq(Layouts)] /\ FlattenSeq(nodes) = flat[N] /\ 0 \in 0..N /\ N \in 0..N
  BY <1>4 DEF IsFlattening
<1>6. 0 \in G(flat)
  <2>1. flat[0] = << >>
    BY <1>4 DEF IsFlattening
  <2>2. FirstFault(NoError, << >>)
    BY DEF FirstFault
  <2>3. So(0) = NoError
    BY <1>2
  <2> QED
    BY <1>5, <2>1, <2>2, <2>3
<1>7. ASSUME NEW n \in 1..N, n - 1 \in G(flat)
      PROVE  n \in G(flat)
  <2>1. n \in 0..N /\ n - 1 \in 0..N
    OBVIOUS
  <2>2. flat[n] = flat[n - 1] \o nodes[n]
    BY <1>4 DEF IsFlattening
  <2>3. flat[n - 1] \in Seq(Layouts) /\ nodes[n] \in Seq(Layouts)
    BY <1>5, <2>1
  <2>4. FirstFault(So(n - 1), flat[n - 1]) /\ FirstFault(results[n].error, nodes[n])
    BY <1>7
  <2> DEFINE d == So(n - 1)
             e == results[n].error
  <2>5. So(n) = IF d # NoError THEN d ELSE e
    <3>1. CASE failed = {}
      BY <1>3, <3>1
    <3>2. CASE failed # {}
      BY <1>2, <3>2
    <3> QED
      BY <3>1, <3>2
  <2>6. FirstFault(IF d # NoError THEN d ELSE e, flat[n - 1] \o nodes[n])
    <3> HIDE DEF d, e
    <3>1. FirstFault(d, flat[n - 1]) /\ FirstFault(e, nodes[n])
      BY <2>4 DEF d, e
    <3> QED
      BY <2>3, <3>1, FirstFaultJoin
  <2> HIDE DEF So, d, e
  <2> QED
    BY <2>1, <2>2, <2>5, <2>6
<1>8. N \in G(flat)
  <2>1. \A n \in 0..N : n \in G(flat)
    <3> HIDE DEF G
    <3> QED
      BY <1>6, <1>7, UpTo
  <2> QED
    BY <1>5, <2>1
<1>9. Children(results).error = So(N)
  BY <1>1, <1>2 DEF Ok
<1> HIDE DEF So
<1> QED
  BY <1>5, <1>8, <1>9

LEMMA BlocksAlwaysFirst ==
  ASSUME NEW node \in Layouts
  PROVE  BlocksFirst(node)
<1> DEFINE N == MaxDepth + 1
           Good(v) == /\ Rendered[v] \in Seq(Layouts)
                      /\ FirstFault(compile_ast[v].error, Rendered[v])
           G == {n \in 0..N : \A v \in Shallow[n] : Good(v)}
<1>1. /\ N \in Nat /\ Shallow[0] = {} /\ Shallow[N] = Layouts
      /\ \A n \in 1..N :
           /\ Shallow[n] \subseteq Layouts
           /\ \A v \in Shallow[n] : \A k \in DOMAIN v.children : v.children[k] \in Shallow[n - 1]
  BY ShallowGrows
<1> HIDE DEF N
<1>2. 0 \in G
  BY <1>1
<1>3. ASSUME NEW n \in 1..N, n - 1 \in G
      PROVE  n \in G
  <2> SUFFICES ASSUME NEW v \in Shallow[n] PROVE Good(v)
    BY <1>1
  <2> DEFINE results == OfChildren(compile_ast, v)
             nodes == OfChildren(Rendered, v)
             M == Len(v.children)
  <2>1. v \in Layouts
    BY <1>1
  <2>2. M \in Nat /\ DOMAIN v.children = 1..M
    <3>1. v.children \in Seq(Layouts)
      BY <2>1, LayoutsAssumption
    <3> QED
      BY <3>1
  <2>3. compile_ast[v] = Compiled(results, v) /\ Rendered[v] = RenderedOf(nodes, v)
    BY <2>1, CompiledIs, RenderedOfIs
  <2>4. \A k \in 1..M : Good(v.children[k])
    BY <1>1, <1>3, <2>2
  <2>5. DOMAIN results = 1..M /\ nodes \in [1..M -> Seq(Layouts)]
    BY <2>2, <2>4 DEF OfChildren
  <2>6. \A k \in 1..M : FirstFault(results[k].error, nodes[k])
    BY <2>2, <2>4 DEF OfChildren
  <2> HIDE DEF results, nodes, M
  <2>7. /\ FlattenSeq(nodes) \in Seq(Layouts)
        /\ FirstFault(Children(results).error, FlattenSeq(nodes))
    BY <2>2, <2>5, <2>6, FirstFaultChildren
  <2>8. <<v>> \in Seq(Layouts) /\ DOMAIN <<v>> = 1..1 /\ <<v>>[1] = v
    BY <2>1
  <2>9. FirstFault(Fault(v), <<v>>)
    BY <2>8 DEF FirstFault
  <2> DEFINE rest == IF v.tag \in VoidTags THEN << >> ELSE FlattenSeq(nodes)
             error == IF v.tag \in VoidTags THEN NoError ELSE Children(results).error
  <2>10. rest \in Seq(Layouts) /\ Rendered[v] = <<v>> \o rest
    BY <2>3, <2>7 DEF RenderedOf
  <2>11. FirstFault(error, rest)
    <3>1. FirstFault(NoError, << >>)
      BY DEF FirstFault
    <3> QED
      BY <2>7, <3>1
  <2>12. compile_ast[v].error = IF Fault(v) # NoError THEN Fault(v) ELSE error
    BY <2>3 DEF Compiled, Ok, Err
  <2> HIDE DEF rest, error
  <2>13. FirstFault(IF Fault(v) # NoError THEN Fault(v) ELSE error, <<v>> \o rest)
    BY <2>8, <2>9, <2>10, <2>11, FirstFaultJoin
  <2>14. <<v>> \o rest \in Seq(Layouts)
    BY <2>8, <2>10
  <2> QED
    BY <2>10, <2>12, <2>13, <2>14
<1> HIDE DEF G
<1>4. N \in G
  <2>1. \A n \in 0..N : n \in G
    BY <1>1, <1>2, <1>3, UpTo
  <2> QED
    BY <1>1, <2>1
<1> QED
  BY <1>1, <1>4 DEF G, BlocksFirst

\* The stacks that a reader has after each of the tokens of a page.
IsRead(read, stack, html) ==
  /\ read = [n \in 0..Len(html) |-> read[n]]
  /\ read[0] = stack
  /\ \A n \in 1..Len(html) : read[n] = Read(read[n - 1], html[n])

Reads(stack, html, result) ==
  \E read : IsRead(read, stack, html) /\ read[Len(html)] = result

LEMMA ReadsShort ==
  ASSUME NEW stack, NEW token
  PROVE  /\ Reads(stack, << >>, stack)
         /\ Reads(stack, <<token>>, Read(stack, token))
<1>1. Reads(stack, << >>, stack)
  <2> DEFINE read == [n \in 0..0 |-> stack]
  <2>1. read[0] = stack /\ Len(<< >>) = 0 /\ 1..0 = {}
    OBVIOUS
  <2>2. read = [n \in 0..0 |-> read[n]]
    OBVIOUS
  <2> HIDE DEF read
  <2> QED
    BY <2>1, <2>2 DEF Reads, IsRead
<1>2. Reads(stack, <<token>>, Read(stack, token))
  <2> DEFINE read == [n \in 0..1 |-> IF n = 0 THEN stack ELSE Read(stack, token)]
  <2>1. read[0] = stack /\ read[1] = Read(stack, token)
    OBVIOUS
  <2>2. Len(<<token>>) = 1 /\ <<token>>[1] = token /\ \A n \in 1..1 : n = 1 /\ n - 1 = 0
    OBVIOUS
  <2>3. read = [n \in 0..1 |-> read[n]]
    OBVIOUS
  <2> HIDE DEF read
  <2> QED
    BY <2>1, <2>2, <2>3 DEF Reads, IsRead
<1> QED
  BY <1>1, <1>2

LEMMA ReadsJoin ==
  ASSUME NEW S, NEW a \in Seq(S), NEW b \in Seq(S),
         NEW x, NEW y, NEW z, Reads(x, a, y), Reads(y, b, z)
  PROVE  Reads(x, a \o b, z)
<1> DEFINE html == a \o b
           A == Len(a)
           B == Len(b)
<1>1. PICK r : IsRead(r, x, a) /\ r[A] = y
  BY DEF Reads
<1>2. PICK q : IsRead(q, y, b) /\ q[B] = z
  BY DEF Reads
<1>3. /\ A \in Nat /\ B \in Nat /\ Len(html) = A + B
      /\ \A k \in 1..A : html[k] = a[k]
      /\ \A k \in 1..(A + B) : k > A => k - A \in 1..B /\ html[k] = b[k - A]
  BY Concatenated
<1>4. r[0] = x /\ \A n \in 1..A : r[n] = Read(r[n - 1], a[n])
  BY <1>1 DEF IsRead
<1>5. q[0] = y /\ \A n \in 1..B : q[n] = Read(q[n - 1], b[n])
  BY <1>2 DEF IsRead
<1> HIDE DEF html, A, B
<1> DEFINE read == [n \in 0..(A + B) |-> IF n <= A THEN r[n] ELSE q[n - A]]
<1>6. read = [n \in 0..(A + B) |-> read[n]]
  OBVIOUS
<1>7. \A n \in 0..(A + B) : read[n] = IF n <= A THEN r[n] ELSE q[n - A]
  OBVIOUS
<1> HIDE DEF read
<1>8. read[0] = x
  BY <1>3, <1>4, <1>7
<1>9. read[A + B] = z
  <2>1. A + B \in 0..(A + B) /\ (A + B <= A <=> B = 0) /\ (A + B) - A = B
    BY <1>3
  <2>2. read[A + B] = IF B = 0 THEN r[A + B] ELSE q[B]
    BY <1>7, <2>1
  <2>3. CASE B = 0
    <3>1. A + B = A /\ z = y
      BY <1>2, <1>3, <1>5, <2>3
    <3> QED
      BY <1>1, <2>2, <2>3, <3>1
  <2>4. CASE B # 0
    BY <1>2, <2>2, <2>4
  <2> QED
    BY <2>3, <2>4
<1>10. ASSUME NEW n \in 1..(A + B)
       PROVE  read[n] = Read(read[n - 1], html[n])
  <2>1. n \in 0..(A + B) /\ n - 1 \in 0..(A + B)
    BY <1>3
  <2>2. CASE n <= A
    <3>1. n \in 1..A /\ n - 1 <= A
      BY <1>3, <2>2
    <3>2. read[n] = r[n] /\ read[n - 1] = r[n - 1]
      BY <1>7, <2>1, <2>2, <3>1
    <3> QED
      BY <1>3, <1>4, <3>1, <3>2
  <2>3. CASE n > A
    <3>1. n - A \in 1..B /\ html[n] = b[n - A]
      BY <1>3, <2>3
    <3>2. read[n] = q[n - A]
      BY <1>3, <1>7, <2>1, <2>3
    <3>3. read[n - 1] = q[(n - A) - 1]
      <4>1. CASE n - 1 = A
        <5>1. (n - A) - 1 = 0 /\ n - 1 <= A
          BY <1>3, <4>1
        <5> QED
          BY <1>1, <1>5, <1>7, <2>1, <4>1, <5>1
      <4>2. CASE n - 1 # A
        <5>1. ~(n - 1 <= A) /\ (n - 1) - A = (n - A) - 1
          BY <1>3, <2>3, <4>2
        <5> QED
          BY <1>7, <2>1, <5>1
      <4> QED
        BY <4>1, <4>2
    <3> QED
      BY <1>5, <3>1, <3>2, <3>3
  <2> QED
    BY <1>3, <2>2, <2>3
<1>11. Len(html) = A + B
  BY <1>3
<1> QED
  BY <1>6, <1>8, <1>9, <1>10, <1>11 DEF Reads, IsRead, html

\* Parse is what such a reading ends with.
LEMMA ParseIs ==
  ASSUME NEW stack, NEW html, Len(html) \in Nat, NEW result, Reads(stack, html, result)
  PROVE  Parse(stack, html) = result
<1> DEFINE N == Len(html)
           Solves(f) == f = [n \in 0..N |-> IF n = 0 THEN stack ELSE Read(f[n - 1], html[n])]
           chosen == CHOOSE f : Solves(f)
<1>1. PICK read : IsRead(read, stack, html) /\ read[N] = result
  BY DEF Reads
<1>2. /\ read = [n \in 0..N |-> read[n]] /\ read[0] = stack
      /\ \A n \in 1..N : read[n] = Read(read[n - 1], html[n])
  BY <1>1 DEF IsRead
<1>3. Parse(stack, html) = chosen[N]
  BY DEF Parse
<1>4. Solves(read)
  <2>1. \A n \in 0..N : read[n] = IF n = 0 THEN stack ELSE Read(read[n - 1], html[n])
    BY <1>2
  <2> HIDE DEF N
  <2> QED
    BY <1>2, <2>1
<1>5. Solves(chosen)
  <2> HIDE DEF Solves
  <2> QED
    BY <1>4
<1> HIDE DEF chosen
<1>6. /\ chosen[0] = stack
      /\ \A n \in 1..N : chosen[n] = Read(chosen[n - 1], html[n])
  BY <1>5
<1> HIDE DEF Solves, N
<1> DEFINE G == {n \in 0..N : chosen[n] = read[n]}
<1>7. N \in Nat
  BY DEF N
<1>8. 0 \in G
  BY <1>2, <1>6, <1>7
<1>9. ASSUME NEW n \in 1..N, n - 1 \in G
      PROVE  n \in G
  BY <1>2, <1>6, <1>7, <1>9
<1> HIDE DEF G
<1>10. \A n \in 0..N : n \in G
  BY <1>7, <1>8, <1>9, UpTo
<1>11. N \in G
  BY <1>7, <1>10
<1> QED
  BY <1>1, <1>3, <1>11 DEF G

\* A node of the stack that has the first n of its children.
Partly(tag, names, text, shown, n, stack) ==
  [top   |-> [tag |-> tag, names |-> names, text |-> text, children |-> [k \in 1..n |-> shown[k]]],
   below |-> <<stack>>]

LEMMA AdoptOne ==
  ASSUME NEW tag, NEW names, NEW text, NEW shown, NEW n \in Nat \ {0}, NEW stack
  PROVE  Adopt(Partly(tag, names, text, shown, n - 1, stack), shown[n])
           = Partly(tag, names, text, shown, n, stack)
<1> DEFINE before == [k \in 1..(n - 1) |-> shown[k]]
           after == [k \in 1..n |-> shown[k]]
           S == {shown[k] : k \in 1..n}
<1>1. before \in Seq(S) /\ Len(before) = n - 1
  OBVIOUS
<1>2. Append(before, shown[n]) = after
  <2>1. n \in 1..n /\ shown[n] \in S
    OBVIOUS
  <2>2. Append(before, shown[n]) = [k \in 1..n |-> IF k = n THEN shown[n] ELSE before[k]]
    BY <1>1, <2>1
  <2>3. \A k \in 1..n : (IF k = n THEN shown[n] ELSE before[k]) = shown[k]
    OBVIOUS
  <2> QED
    BY <2>2, <2>3
<1> HIDE DEF before, after
<1> DEFINE top == [tag |-> tag, names |-> names, text |-> text, children |-> before]
<1>3. [top EXCEPT !.children = Append(@, shown[n])]
        = [tag |-> tag, names |-> names, text |-> text, children |-> after]
  <2>1. top.children = before
    OBVIOUS
  <2>2. [top EXCEPT !.children = after]
          = [tag |-> tag, names |-> names, text |-> text, children |-> after]
    BY Z3
  <2>3. [top EXCEPT !.children = Append(top.children, shown[n])]
          = [top EXCEPT !.children = after]
    BY <1>2, <2>1
  <2>4. [top EXCEPT !.children = Append(@, shown[n])]
          = [top EXCEPT !.children = Append(top.children, shown[n])]
    OBVIOUS
  <2> QED
    BY <2>2, <2>3, <2>4
<1>4. /\ Partly(tag, names, text, shown, n - 1, stack) = [top |-> top, below |-> <<stack>>]
      /\ Partly(tag, names, text, shown, n, stack)
           = [top |-> [tag |-> tag, names |-> names, text |-> text, children |-> after],
              below |-> <<stack>>]
  BY DEF Partly, before, after
<1> HIDE DEF top
<1> DEFINE unfinished == Partly(tag, names, text, shown, n - 1, stack)
<1>5. unfinished.top = top /\ unfinished.below = <<stack>>
  BY <1>4
<1> HIDE DEF unfinished
<1>6. Adopt(unfinished, shown[n])
        = [top |-> [unfinished.top EXCEPT !.children = Append(@, shown[n])],
           below |-> unfinished.below]
  BY Zenon DEF Adopt
<1>7. Adopt(unfinished, shown[n])
        = [top |-> [top EXCEPT !.children = Append(@, shown[n])], below |-> <<stack>>]
  BY <1>5, <1>6, Zenon
<1> QED
  BY <1>3, <1>4, <1>7 DEF unfinished

\* What a list of pages adds to an unfinished node.
LEMMA ReadsChildren ==
  ASSUME NEW N \in Nat, NEW S, NEW htmls \in [1..N -> Seq(S)], NEW shown,
         \A k \in 1..N : \A s : Reads(s, htmls[k], Adopt(s, shown[k])),
         NEW tag, NEW names, NEW text, NEW stack
  PROVE  /\ FlattenSeq(htmls) \in Seq(S)
         /\ Reads(Partly(tag, names, text, shown, 0, stack), FlattenSeq(htmls),
                  Partly(tag, names, text, shown, N, stack))
<1> DEFINE At(n) == Partly(tag, names, text, shown, n, stack)
<1>1. PICK flat : IsFlattening(flat, htmls, N, S)
  BY FlattenSteps
<1>2. flat \in [0..N -> Seq(S)] /\ FlattenSeq(htmls) = flat[N] /\ 0 \in 0..N /\ N \in 0..N
  BY <1>1 DEF IsFlattening
<1> DEFINE G == {n \in 0..N : Reads(At(0), flat[n], At(n))}
<1>3. \A n \in 1..N : Adopt(At(n - 1), shown[n]) = At(n)
  BY AdoptOne
<1> HIDE DEF At
<1>4. 0 \in G
  <2>1. flat[0] = << >>
    BY <1>1 DEF IsFlattening
  <2> QED
    BY <1>2, <2>1, ReadsShort
<1>5. ASSUME NEW n \in 1..N, n - 1 \in G
      PROVE  n \in G
  <2>1. n \in 0..N /\ n - 1 \in 0..N
    OBVIOUS
  <2>2. flat[n] = flat[n - 1] \o htmls[n]
    BY <1>1 DEF IsFlattening
  <2>3. flat[n - 1] \in Seq(S) /\ htmls[n] \in Seq(S)
    BY <1>2, <2>1
  <2>4. Reads(At(0), flat[n - 1], At(n - 1))
    BY <1>5
  <2>5. Reads(At(n - 1), htmls[n], At(n))
    BY <1>3
  <2>6. Reads(At(0), flat[n - 1] \o htmls[n], At(n))
    BY <2>3, <2>4, <2>5, ReadsJoin
  <2> QED
    BY <2>1, <2>2, <2>6
<1> HIDE DEF G
<1>6. N \in G
  <2>1. \A n \in 0..N : n \in G
    BY <1>4, <1>5, UpTo
  <2> QED
    BY <1>2, <2>1
<1> QED
  BY <1>2, <1>6 DEF G, At

\* The tokens of pages.
Tokens ==
  {Text} \cup {Open("open", v) : v \in Layouts} \cup {Open("void", v) : v \in Layouts}
    \cup {Close(v) : v \in Layouts}

\* Children compiles if each of the children does.
LEMMA ChildrenAreOk ==
  ASSUME NEW N \in Nat, NEW results, DOMAIN results = 1..N, Children(results).error = NoError
  PROVE  /\ \A k \in 1..N : results[k].error = NoError
         /\ Children(results).html = Html(results)
<1> DEFINE failed == {k \in 1..N : results[k].error # NoError}
           first == CHOOSE k \in failed : \A i \in failed : k <= i
<1>1. Children(results) = IF failed = {} THEN Ok(Html(results)) ELSE results[first]
  BY DEF Children
<1>2. failed # {} => first \in failed
  <2>1. failed \in SUBSET Nat
    OBVIOUS
  <2> HIDE DEF failed
  <2>2. failed # {} => \E k \in failed : \A i \in failed : k <= i
    BY <2>1, Least
  <2> QED
    BY <2>2
<1>3. failed = {}
  <2> HIDE DEF first
  <2> QED
    BY <1>1, <1>2
<1> QED
  BY <1>1, <1>3 DEF Ok

\* A node that is not self-closing: its page is read as the node with what
\* its children are read as.
LEMMA ReadsBody ==
  ASSUME NEW v \in Layouts, NEW inside \in Seq(Tokens), NEW shown, NEW N \in Nat, NEW stack,
         Reads(Partly(v.tag, Written(v), v.text, shown, 0, stack), inside,
               Partly(v.tag, Written(v), v.text, shown, N, stack))
  PROVE  /\ Body(v, inside) \in Seq(Tokens)
         /\ Reads(stack, Body(v, inside),
                  Adopt(stack, [tag |-> v.tag, names |-> Written(v), text |-> v.text,
                                children |-> [k \in 1..N |-> shown[k]]]))
<1> DEFINE At(text, n) == Partly(v.tag, Written(v), text, shown, n, stack)
           opening == Open("open", v)
           text == IF v.text THEN <<Text>> ELSE << >>
           closing == Close(v)
           leaf == [tag |-> v.tag, names |-> Written(v), text |-> v.text,
                    children |-> [k \in 1..N |-> shown[k]]]
<1>1. /\ <<opening>> \in Seq(Tokens) /\ text \in Seq(Tokens) /\ <<closing>> \in Seq(Tokens)
  <2>1. opening \in Tokens /\ Text \in Tokens /\ closing \in Tokens
    BY DEF Tokens
  <2> QED
    BY <2>1
<1>2. Body(v, inside) = ((<<opening>> \o text) \o inside) \o <<closing>>
  BY DEF Body
<1>3. Reads(stack, <<opening>>, At(FALSE, 0))
  <2>1. Read(stack, opening) = At(FALSE, 0)
    <3>1. opening[1] = "open" /\ opening[2] = v.tag /\ opening[3] = Written(v)
      BY DEF Open
    <3>2. [k \in 1..0 |-> shown[k]] = << >>
      OBVIOUS
    <3> HIDE DEF opening
    <3> QED
      BY <3>1, <3>2 DEF Read, Leaf, Partly
  <2> QED
    BY <2>1, ReadsShort
<1>4. Reads(At(FALSE, 0), text, At(v.text, 0))
  <2>1. v.text \in BOOLEAN
    BY LayoutsAssumption
  <2>2. Read(At(FALSE, 0), Text) = At(TRUE, 0)
    BY DEF Read, Text, Partly
  <2>3. CASE v.text
    <3>1. v.text = TRUE /\ text = <<Text>>
      BY <2>1, <2>3
    <3> HIDE DEF At, text
    <3> QED
      BY <2>2, <3>1, ReadsShort
  <2>4. CASE ~v.text
    <3>1. v.text = FALSE /\ text = << >>
      BY <2>1, <2>4
    <3> HIDE DEF At, text
    <3> QED
      BY <3>1, ReadsShort
  <2> QED
    BY <2>3, <2>4
<1>5. Reads(At(v.text, N), <<closing>>, Adopt(stack, leaf))
  <2>1. Read(At(v.text, N), closing) = Adopt(stack, leaf)
    <3>1. closing[1] = "close" /\ closing[2] = v.tag
      BY DEF Close
    <3>2. At(v.text, N).top = leaf /\ At(v.text, N).below = <<stack>>
      BY DEF Partly
    <3>3. leaf.tag = v.tag /\ <<stack>> # << >> /\ Head(<<stack>>) = stack
      OBVIOUS
    <3> HIDE DEF closing, leaf, At
    <3> QED
      BY <3>1, <3>2, <3>3 DEF Read
  <2> QED
    BY <2>1, ReadsShort
<1>6. Reads(At(v.text, 0), inside, At(v.text, N))
  OBVIOUS
<1> HIDE DEF At, opening, text, closing, leaf
<1> DEFINE first == <<opening>>
           last == <<closing>>
           two == first \o text
           three == two \o inside
<1>7. first \in Seq(Tokens) /\ two \in Seq(Tokens) /\ three \in Seq(Tokens)
  BY <1>1, Concatenated
<1>8. Body(v, inside) \in Seq(Tokens)
  BY <1>1, <1>2, <1>7, Concatenated
<1>9. Body(v, inside) = three \o last /\ last \in Seq(Tokens)
  BY <1>1, <1>2
<1>10. Reads(stack, first, At(FALSE, 0)) /\ Reads(At(v.text, N), last, Adopt(stack, leaf))
  BY <1>3, <1>5
<1>11. Reads(stack, two, At(v.text, 0))
  <2> HIDE DEF first
  <2> QED
    BY <1>1, <1>4, <1>7, <1>10, ReadsJoin
<1>12. Reads(stack, three, At(v.text, N))
  <2> HIDE DEF two
  <2> QED
    BY <1>6, <1>7, <1>11, ReadsJoin
<1>13. Reads(stack, Body(v, inside), Adopt(stack, leaf))
  <2> HIDE DEF three, last
  <2> QED
    BY <1>7, <1>9, <1>10, <1>12, ReadsJoin
<1> QED
  BY <1>8, <1>13 DEF leaf

\* A name of one word is written as it is.
LEMMA WrittenNames == ASSUME NEW v PROVE Written(v) = OwnNames(v)
  BY DEF Written, OwnNames, Plain

LEMMA ParsesAlwaysBack ==
  ASSUME NEW node \in Layouts
  PROVE  ParsesBack(node)
<1> DEFINE N == MaxDepth + 1
           PageOf(v) == compile_ast[v].html
           Good(v) == compile_ast[v].error = NoError =>
                        /\ PageOf(v) \in Seq(Tokens)
                        /\ \A s : Reads(s, PageOf(v), Adopt(s, Shown[v]))
           G == {n \in 0..N : \A v \in Shallow[n] : Good(v)}
<1>1. /\ N \in Nat /\ Shallow[0] = {} /\ Shallow[N] = Layouts
      /\ \A n \in 1..N :
           /\ Shallow[n] \subseteq Layouts
           /\ \A v \in Shallow[n] : \A k \in DOMAIN v.children : v.children[k] \in Shallow[n - 1]
  BY ShallowGrows
<1> HIDE DEF N
<1>2. 0 \in G
  BY <1>1
<1>3. ASSUME NEW n \in 1..N, n - 1 \in G
      PROVE  n \in G
  <2> SUFFICES ASSUME NEW v \in Shallow[n], compile_ast[v].error = NoError
               PROVE  /\ PageOf(v) \in Seq(Tokens)
                      /\ \A s : Reads(s, PageOf(v), Adopt(s, Shown[v]))
    BY <1>1
  <2> DEFINE results == OfChildren(compile_ast, v)
             shown == OfChildren(Shown, v)
             M == Len(v.children)
  <2>1. v \in Layouts
    BY <1>1
  <2>2. M \in Nat /\ DOMAIN v.children = 1..M
    <3>1. v.children \in Seq(Layouts)
      BY <2>1, LayoutsAssumption
    <3> QED
      BY <3>1
  <2>3. compile_ast[v] = Compiled(results, v) /\ Shown[v] = ShownOf(shown, v)
    BY <2>1, CompiledIs, ShownOfIs
  <2>4. \A k \in 1..M : Good(v.children[k])
    BY <1>1, <1>3, <2>2
  <2>5. /\ results = [k \in 1..M |-> compile_ast[v.children[k]]]
        /\ shown = [k \in 1..M |-> Shown[v.children[k]]]
    BY <2>2 DEF OfChildren
  <2>6. /\ \A k \in 1..M : results[k] = compile_ast[v.children[k]]
        /\ \A k \in 1..M : shown[k] = Shown[v.children[k]]
        /\ DOMAIN results = 1..M /\ shown = [k \in 1..M |-> shown[k]]
    <3> HIDE DEF results, shown, M
    <3> QED
      BY <2>5
  <2> HIDE DEF results, shown, M
  <2>7. Fault(v) = NoError
    BY <2>3 DEF Compiled, Err
  <2>8. CASE v.tag \in VoidTags
    <3>1. PageOf(v) = <<Open("void", v)>>
      BY <2>3, <2>7, <2>8 DEF Compiled, Ok
    <3>2. Open("void", v) \in Tokens
      BY <2>1 DEF Tokens
    <3>3. Shown[v] = Leaf(Open("void", v))
      BY <2>3, <2>8, WrittenNames DEF ShownOf, Leaf, Open
    <3>4. \A s : Read(s, Open("void", v)) = Adopt(s, Leaf(Open("void", v)))
      <4>1. Open("void", v)[1] = "void"
        BY DEF Open
      <4> QED
        BY <4>1 DEF Read
    <3> QED
      BY <3>1, <3>2, <3>3, <3>4, ReadsShort
  <2>9. CASE v.tag \notin VoidTags
    <3> DEFINE children == Children(results)
               htmls == [k \in 1..M |-> results[k].html]
    <3>1. children.error = NoError
      BY <2>3, <2>7, <2>9 DEF Compiled
    <3>2. PageOf(v) = Body(v, children.html)
      BY <2>3, <2>7, <2>9, <3>1 DEF Compiled, Ok
    <3>3. /\ \A k \in 1..M : results[k].error = NoError
          /\ children.html = FlattenSeq(htmls)
      BY <2>2, <2>6, <3>1, ChildrenAreOk DEF Html
    <3> HIDE DEF children
    <3>4. ASSUME NEW k \in 1..M
          PROVE  /\ htmls[k] \in Seq(Tokens)
                 /\ \A s : Reads(s, htmls[k], Adopt(s, shown[k]))
      BY <2>4, <2>6, <3>3
    <3>5. htmls \in [1..M -> Seq(Tokens)]
      BY <3>4
    <3> HIDE DEF htmls
    <3>6. ASSUME NEW s
          PROVE  /\ children.html \in Seq(Tokens)
                 /\ Reads(Partly(v.tag, Written(v), v.text, shown, 0, s), children.html,
                          Partly(v.tag, Written(v), v.text, shown, M, s))
      <4>1. \A k \in 1..M : \A t : Reads(t, htmls[k], Adopt(t, shown[k]))
        BY <3>4
      <4>2. /\ FlattenSeq(htmls) \in Seq(Tokens)
            /\ Reads(Partly(v.tag, Written(v), v.text, shown, 0, s), FlattenSeq(htmls),
                     Partly(v.tag, Written(v), v.text, shown, M, s))
        BY <2>2, <3>5, <4>1, ReadsChildren
      <4> QED
        BY <3>3, <4>2
    <3>7. ASSUME NEW s
          PROVE  /\ PageOf(v) \in Seq(Tokens)
                 /\ Reads(s, PageOf(v), Adopt(s, [tag |-> v.tag, names |-> Written(v), text |-> v.text,
                                                children |-> [k \in 1..M |-> shown[k]]]))
      BY <2>1, <2>2, <3>2, <3>6, ReadsBody
    <3>8. Shown[v] = [tag |-> v.tag, names |-> Written(v), text |-> v.text,
                      children |-> [k \in 1..M |-> shown[k]]]
      <4>1. v.text \in BOOLEAN
        BY <2>1, LayoutsAssumption
      <4>2. (v.text /\ ~FALSE) = v.text
        BY <4>1
      <4> QED
        BY <2>3, <2>6, <2>9, <4>2, WrittenNames DEF ShownOf
    <3> QED
      BY <3>7, <3>8
  <2> QED
    BY <2>8, <2>9
<1> HIDE DEF G
<1>4. N \in G
  <2>1. \A n \in 0..N : n \in G
    BY <1>1, <1>2, <1>3, UpTo
  <2> QED
    BY <1>1, <2>1
<1>5. Good(node)
  BY <1>1, <1>4 DEF G
<1> SUFFICES ASSUME compile_ast[node].error = NoError
             PROVE  Parse(Root("root"), PageOf(node)) = Adopt(Root("root"), Shown[node])
  BY DEF ParsesBack
<1> DEFINE html == PageOf(node)
<1>6. html \in Seq(Tokens) /\ Reads(Root("root"), html, Adopt(Root("root"), Shown[node]))
  BY <1>5
<1> HIDE DEF html
<1>7. Len(html) \in Nat
  BY <1>6
<1> QED
  BY <1>6, <1>7, ParseIs DEF html

(***************************************************************************)
(* For every layout, however deep: its page is the layout, each node with  *)
(* its own attributes when their names are of one word, or its error is    *)
(* that of the first node in the page that is unsafe.                      *)
(***************************************************************************)
THEOREM PagesAlwaysReadBack == Spec => []PagesReadBack
<1>1. Asked => PagesReadBack
  BY ParsesAlwaysBack, BlocksAlwaysFirst DEF Asked, PagesReadBack
<1> QED
  BY <1>1, AskedAlways, PTL
=============================================================================
