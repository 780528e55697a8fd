--------------------------- MODULE MCCatalogStore ---------------------------
(***************************************************************************)
(* An instance of CatalogStore: relations that can be views of each other, *)
(* in a circle too, refer to one with a key of either type, look it up for *)
(* an allocation or pin its revision.                                      *)
(***************************************************************************)
EXTENDS CatalogStore

Table(name, refs, rules, key, terms) ==
    [name |-> name, view |-> FALSE, deps |-> <<>>, refs |-> refs, rules |-> rules,
     key |-> key, pin |-> Absent, terms |-> terms]
View(name, deps, pin, terms) ==
    [name |-> name, view |-> TRUE, deps |-> deps, refs |-> {}, rules |-> {},
     key |-> "int", pin |-> pin, terms |-> terms]

Library ==
    [ a1 |-> Table("a", {}, {}, "int", [x |-> 4]),
      a2 |-> Table("a", {}, {}, "text", [x |-> 1, y |-> 4]),
      a3 |-> View("a", <<"c">>, Absent, [x |-> 4]),
      b1 |-> Table("b", {"a", "c"}, {}, "int", [x |-> 1]),
      b2 |-> View("b", <<"a">>, "a1", [y |-> 4]),
      b3 |-> View("b", <<"a", "c">>, Absent, [y |-> 1]),
      b4 |-> View("b", <<"a">>, "a2", [x |-> 1]),
      c1 |-> Table("c", {}, {"a"}, "int", [y |-> 1]),
      c2 |-> View("c", <<"b">>, Absent, [x |-> 4]) ]

Put(v) == [put |-> v]
Removal(n) == [remove |-> n]
(* One writer can break every rule of a catalog, the other comes in between. *)
Changing ==
    [ w1 |-> {<<Put("a2")>>, <<Put("a3")>>, <<Put("c1")>>, <<Put("c2"), Put("b3")>>,
              <<Put("a1"), Put("b2")>>, <<Put("a2"), Put("b4")>>,
              <<Put("a2"), Removal("b")>>, <<Removal("c"), Put("c1")>>},
      w2 |-> {<<Put("b2")>>, <<Removal("b")>>} ]
=============================================================================
