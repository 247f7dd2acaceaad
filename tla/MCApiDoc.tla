------------------------------- MODULE MCApiDoc -------------------------------
(* Schemas for the parser and the generator of the document.                  *)
EXTENDS ApiDoc

Plain(category) ==
  [relation |-> "plain", category |-> category, target |-> None, plural |-> FALSE, kv |-> FALSE,
   optional |-> TRUE, dict |-> FALSE, follows |-> None]
Rel(relation, target, category) ==
  [Plain(category) EXCEPT !.relation = relation, !.target = target, !.plural = TRUE]
Raw(root, index, columns) == [root |-> root, many |-> TRUE, index |-> index, columns |-> columns]

\* VRF is a child of System, as BGP may be, and has children of both kinds and ports; ports
\* and sensors are at the top.  Every table without root is referred to from
\* a column, or ovsdb-server would collect its rows.
File(vrfs, name, asn, port, temp, tempIndex) ==
  [System |-> Raw(TRUE, {}, [vrfs |-> Rel("child", "VRF", vrfs), hostname |-> Plain("configuration")]),
   VRF    |-> Raw(FALSE, {"name"},
                  [name |-> Plain(name), ports |-> Rel("reference", "Port", "configuration"),
                   neighbors |-> Rel("child", "Neighbor", vrfs), state |-> Plain("status")]),
   BGP    |-> Raw(TRUE, {"vrf", "asn"},
                  [vrf |-> [Rel("parent", "VRF", "status") EXCEPT !.plural = FALSE], asn |-> Plain(asn),
                   note |-> Plain(None)]),
   Neighbor |-> Raw(FALSE, {}, [as |-> Plain("dynamic"), up |-> Plain("statistics")]),
   Port   |-> Raw(FALSE, {"name"}, [name |-> Plain(port)]),
   Sensor |-> Raw(TRUE, tempIndex, [place |-> Plain(temp), limit |-> Plain("configuration")])]

\* BGP is in a column of System as well.
Claimed(f) ==
  [f EXCEPT !.System.columns = [c \in DOMAIN @ \cup {"routers"} |->
     IF c = "routers" THEN Rel("child", "BGP", "configuration") ELSE @[c]]]

MCPlural == [System |-> "systems", VRF |-> "vrfs", BGP |-> "bgps", Neighbor |-> "bgp_neighbors",
             Port |-> "ports", Sensor |-> "sensors"]

\* One category at a time differs.
DocFiles ==
  {File("configuration", "configuration", asn, port, "status", {"place"}) :
     asn \in {"configuration", "status"}, port \in {"configuration", "status"}}
  \cup {File("status", "status", "configuration", "configuration", "configuration", {})}
  \cup {[File("configuration", "configuration", "status", "configuration", "status", {})
           EXCEPT !.VRF.columns.neighbors.plural = FALSE]}
  \cup {[File("configuration", "configuration", "status", "status", "status", {})
           EXCEPT !.Sensor.columns = <<>>]}

\* Files whose parents are told in two ways, or not at all.
ParentFiles ==
  {Claimed(File("configuration", "configuration", "configuration", "status", "status", {"place"})),
   [File("configuration", "configuration", "status", "status", "status", {"place"})
      EXCEPT !.Neighbor.columns.as.follows = "missing"]}

\* Tables that no single id identifies: two columns, or the parent alone.
IndexFiles ==
  {[File("configuration", "configuration", "status", "status", "status", {"place", "limit"})
      EXCEPT !.BGP.index = {"vrf"}]}

AllFiles == DocFiles \cup ParentFiles \cup IndexFiles
\* A root table without an index.
NoIndex == {File("configuration", "configuration", "configuration", "configuration", "status", {})}
AllMutable == {File("configuration", "configuration", "configuration", "configuration", "configuration", {})}
Immutable == {File("status", "configuration", "configuration", "configuration", "configuration", {})}
DivergingFiles == NoIndex \cup AllMutable \cup Immutable \cup IndexFiles

MCFetched == [BGP |-> "partial", Sensor |-> "full"]
=============================================================================
