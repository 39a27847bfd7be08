--------------------------- MODULE TenantResolver ---------------------------
(***************************************************************************)
(* How a site's name becomes a tenant id, written twice in the code: from  *)
(* the Host header in crates/frappe-net/src/middleware/tenant.rs and from  *)
(* the TLS server name in crates/frappe-net/src/h3_server.rs.  A name is   *)
(* its sequence of labels, a label a sequence of characters; a header may  *)
(* have a port besides.                                                    *)
(***************************************************************************)
EXTENDS Naturals, Sequences

CONSTANTS
  HostNames,      \* the names that clients use
  Alphanumeric,   \* the characters that sanitizing keeps
  LocalNames,     \* the names "localhost" and "127.0.0.1"
  NoHost          \* no header, or no server name

\* A Host header.
Hosts == [name : HostNames, port : BOOLEAN]

\* Host names are made of letters, digits and hyphens.
ASSUME TenantAssumption ==
  /\ HostNames \subseteq Seq(Seq(Alphanumeric \cup {"-"}))
  /\ {"d", "s"} \subseteq Alphanumeric
  /\ {"-", "_"} \cap Alphanumeric = {}
  /\ NoHost \notin HostNames \cup Hosts

\* "default_site", abbreviated.
DefaultSite == <<"d", "_", "s">>

\* Mutant of Sanitized: filter instead of map.
SanitizedByFilter(label) == SelectSeq(label, LAMBDA c : c \in Alphanumeric)

\* map(|c| if c.is_ascii_alphanumeric() { c } else { '_' })
Sanitized(label) ==
  [k \in DOMAIN label |-> IF label[k] \in Alphanumeric THEN label[k] ELSE "_"]

\* The tenant of a name without its port.
OfName(name) ==
  Sanitized(IF name \in LocalNames \/ Len(name) < 2 THEN DefaultSite ELSE name[1])

\* TenantResolverMiddleware::call
OfHost(host) == IF host = NoHost THEN DefaultSite ELSE OfName(host.name)

\* H3Server::run
OfServerName(sni) == IF sni = NoHost THEN DefaultSite ELSE OfName(sni)

-----------------------------------------------------------------------------
\* The sites of a domain: a label in front of it.  "default-site" is not one.
IsSite(name) ==
  /\ Len(name) > 1 /\ name \notin LocalNames
  /\ name[1] \notin {DefaultSite, <<"d", "-", "s">>}

KeptApart(a, b) ==
  IsSite(a.name) =>
    /\ OfServerName(a.name) = OfHost(a)
    /\ OfHost(a) # OfHost(NoHost)
    /\ IsSite(b.name) => (OfHost(a) = OfHost(b) <=> a.name[1] = b.name[1])
    /\ ~IsSite(b.name) => OfHost(a) # OfHost(b)
=============================================================================
