----------------------------- MODULE MCResources -----------------------------
(* Schemas of Resources for TLC, each a part of that of a switch. *)
EXTENDS Resources

Column(to, relation, kind) == [to |-> to, relation |-> relation, kind |-> kind]
Table(root, key, plural, columns) ==
  [root |-> root, key |-> key, scope |-> {}, plural |-> plural, columns |-> columns]

\* A table whose index has the parent in the column besides the name.
Scoped(table, column) == [table EXCEPT !.scope = {column}]

NoColumns == [c \in {} |-> None]

\* Children in a list, and rows at the top that they refer to.
Bridges ==
  "System" :> Table(TRUE, "uuid", "system", "bridges" :> Column("Bridge", "child", "list"))
  @@ "Bridge" :> Table(FALSE, "name", "bridges", "ports" :> Column("Port", "reference", "list"))
  @@ "Port" :> Table(FALSE, "name", "ports", NoColumns)

\* Children under a key, and children that refer to their parent and have a name
\* of their own only below it.
Vrfs ==
  "System" :> Table(TRUE, "uuid", "system", "vrfs" :> Column("VRF", "child", "list"))
  @@ "VRF" :> Table(FALSE, "name", "vrfs", "bgp_routers" :> Column("BGP_Router", "child", "kv"))
  @@ "BGP_Router" :> Table(FALSE, "uuid", "bgp_routers", NoColumns)
  @@ "Route" :> Scoped(Table(TRUE, "name", "routes", "vrf" :> Column("VRF", "parent", "one")), "vrf")

\* Children that their parent refers to as well.
Nexthops ==
  "System" :> Table(TRUE, "uuid", "system", "vrfs" :> Column("VRF", "child", "list"))
  @@ "VRF" :> Table(FALSE, "name", "vrfs", "default" :> Column("Route", "reference", "one"))
  @@ "Route" :> Table(TRUE, "name", "routes", "vrf" :> Column("VRF", "parent", "one"))

\* Children under the keys of children under keys.
Routers ==
  "System" :> Table(TRUE, "uuid", "system", "bgp_routers" :> Column("BGP_Router", "child", "kv"))
  @@ "BGP_Router" :> Table(FALSE, "uuid", "bgp_routers", "bgp_neighbors" :> Column("BGP_Neighbor", "child", "kv"))
  @@ "BGP_Neighbor" :> Table(FALSE, "uuid", "bgp_neighbors", NoColumns)

\* Rows of the root set that others may refer to.
Interfaces ==
  "System" :> Table(TRUE, "uuid", "system", "ports" :> Column("Port", "child", "list"))
  @@ "Port" :> Table(FALSE, "name", "ports", "interfaces" :> Column("Interface", "reference", "list"))
  @@ "Interface" :> Table(TRUE, "name", "interfaces", NoColumns)

\* Children of a row without parent, and theirs.
Profiles ==
  "System" :> Table(TRUE, "uuid", "system", NoColumns)
  @@ "Profile" :> Table(TRUE, "name", "profiles", "entries" :> Column("Entry", "child", "list"))
  @@ "Entry" :> Table(FALSE, "name", "entries", "rules" :> Column("Rule", "child", "list"))
  @@ "Rule" :> Table(FALSE, "name", "rules", NoColumns)

\* A column with one child.
Single ==
  "System" :> Table(TRUE, "uuid", "system", "radius" :> Column("Radius", "child", "one"))
  @@ "Radius" :> Table(FALSE, "name", "radius", "servers" :> Column("Server", "child", "list"))
  @@ "Server" :> Table(FALSE, "name", "servers", NoColumns)

AllSchemas == {Bridges, Vrfs, Nexthops, Routers, Interfaces, Profiles, Single}
=============================================================================
