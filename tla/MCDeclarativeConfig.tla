------------------------ MODULE MCDeclarativeConfig ------------------------
EXTENDS DeclarativeConfig

Table(top, kids, ref) ==
  [top |-> top, indexed |-> TRUE, mutable |-> TRUE, kids |-> kids, ref |-> ref]
Kid(table, kind) == [table |-> table, kind |-> kind]
Leaf == [top |-> FALSE, indexed |-> TRUE, mutable |-> TRUE, kids |-> NoMap, ref |-> "P"]

\* T has children of three kinds and refers to P, which has none.
MCSchema ==
  [T |-> Table(TRUE, [kv |-> Kid("N", "kv"), list |-> Kid("C", "list"),
                      back |-> Kid("R", "back")], "P"),
   P |-> Table(TRUE, NoMap, "P"),
   N |-> [Leaf EXCEPT !.indexed = FALSE], C |-> Leaf, R |-> Leaf]

\* Children that have children, and one alone, under a top table of their own.
MCDeep == [U |-> Table(TRUE, [list |-> Kid("D", "list"), one |-> Kid("F", "single")], "U"),
           D |-> [Leaf EXCEPT !.kids = [back |-> Kid("E", "back")], !.ref = "U"],
           E |-> [Leaf EXCEPT !.ref = "U"], F |-> [Leaf EXCEPT !.ref = "U"]]

\* Both.
MCBoth == [t \in DOMAIN MCSchema \cup DOMAIN MCDeep |->
             IF t \in DOMAIN MCSchema THEN MCSchema[t] ELSE MCDeep[t]]

MCOrders ==
  {<<"P", "T", "kv", "list", "back", "one", "t1", "t2", "p1", "p2", "n1", "n2", "c1", "c2", "r1", "r2", "f1", "f2", "U">>,
   <<"U", "T", "P", "f2", "f1", "one", "back", "list", "kv", "r2", "r1", "c2", "c1", "n2", "n1", "p2", "p1", "t2", "t1">>}

InDb(t, index, kids, up, owner) ==
  [table |-> t, index |-> index, v |-> "x", ref |-> NoRow, kids |-> kids, up |-> up,
   owner |-> owner]

TKids == [kv |-> {}, list |-> {}]
OneT == <<InDb("T", "t1", TKids, NoRow, "config")>>
TwoTops == OneT \o <<InDb("P", "p1", NoMap, NoRow, "config")>>
\* Row u has c1 and c2, and c1 has r1 and r2, of which the owners are given.
DeepRows(u, r1, r2) ==
  <<InDb("U", "t1", [list |-> {[slot |-> "c1", row |-> u + 1], [slot |-> "c2", row |-> u + 2]}, one |-> {}],
         NoRow, "config"),
    InDb("D", "c1", NoMap, NoRow, "config"), InDb("D", "c2", NoMap, NoRow, "config"),
    InDb("E", "r1", NoMap, u + 1, r1), InDb("E", "r2", NoMap, u + 1, r2)>>

MCRows == {TwoTops}
OneRow == {OneT}
TwoParents == {TwoTops \o <<InDb("T", "t2", TKids, NoRow, "config")>>}
\* r1 was made by the system.
SystemRows == {DeepRows(1, "status", "config")}
BackwardRows == {DeepRows(1, "config", "config")}
AllRows == {TwoTops, TwoTops \o DeepRows(3, "config", "config")}

Data(v, ref, kids) == [v |-> v, ref |-> ref, kids |-> kids]
Some(indexes, d) == [i \in indexes |-> d]
Simple == Data("x", Empty, NoMap)
P1 == [p1 |-> Simple]

\* The columns of f that are not empty.
Full(f) == [key \in {k \in DOMAIN f : f[k] # NoMap} |-> f[key]]

KidsGiven(kvs, lists, backs) ==
  Full([kv |-> kvs, list |-> lists, back |-> backs])

Kvs == {NoMap, Some({"n1"}, Data("y", "p1", NoMap)), Some({"n1", "n2"}, Simple)}
Lists == {NoMap, Some({"c1"}, Data(Empty, "p1", NoMap)), Some({"c1", "c2"}, Simple)}
Backs == {NoMap, Some({"r1"}, Simple), Some({"r1"}, Data("y", "p1", NoMap))}

\* Configurations that keep the rows of the top.
MCInputs ==
  {[T |-> [t1 |-> Data("x", "p1", KidsGiven(kvs, lists, NoMap))], P |-> P1] :
     kvs \in Kvs, lists \in Lists}
  \cup {[T |-> [t1 |-> Data(Empty, Empty, KidsGiven(NoMap, lists, backs))], P |-> P1] :
          lists \in {NoMap, Some({"c1"}, Simple)}, backs \in Backs}

\* A row of the top more, or less.
TopInputs == {[P |-> Some(ps, Simple)] : ps \in {{"p1"}, {"p1", "p2"}}}
\* A new row with a backward child.
NewParents == {[T |-> [t1 |-> Simple, t2 |-> Data("x", Empty, KidsGiven(NoMap, NoMap, [r1 |-> Simple]))],
                P |-> P1]}
\* A child of one parent or the other.
Moves == {[T |-> [t1 |-> Simple, t2 |-> Data("x", Empty, [list |-> [c1 |-> Simple]])], P |-> P1],
          [T |-> [t1 |-> Data("x", Empty, [list |-> [c1 |-> Simple]]), t2 |-> Simple], P |-> P1]}
\* The table P is left out.
NoP == {[T |-> [t1 |-> Simple]]}
\* t1 refers to p1, which is in the configuration or is not.
Refs == {[T |-> [t1 |-> Data("x", "p1", NoMap)]], [T |-> [t1 |-> Data("x", "p1", NoMap)], P |-> P1]}
EmptyKvs == {[T |-> [t1 |-> Data("x", Empty, [kv |-> [n1 |-> Data(Empty, Empty, NoMap), n2 |-> Simple]])],
              P |-> P1]}
Nothing == {NoMap}
\* Any part of what the deeper rows hold.
Parts ==
  LET backs == {Full([back |-> Some(is, Data(v, Empty, NoMap))]) :
                  is \in SUBSET {"r1", "r2"}, v \in {"x", "y"}}
  IN {[T |-> [t1 |-> Simple], P |-> P1,
       U |-> [t1 |-> Data("x", Empty, Full([list |-> [c \in cs |-> Data("x", Empty, kids)]]))]] :
        cs \in SUBSET {"c1", "c2"}, kids \in backs}
\* A child alone, and another in its place.
Singles ==
  {[T |-> [t1 |-> Simple], P |-> P1, U |-> [t1 |-> Data("x", Empty, [one |-> Some({f}, Simple)])]] :
     f \in {"f1", "f2"}}
AllInputs == MCInputs \cup Parts \cup Singles
=============================================================================
