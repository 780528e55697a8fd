---------------------------- MODULE MCQueryGraph ----------------------------
(***************************************************************************)
(* Instances of QueryGraph.  The proposals are chosen so that every        *)
(* operator meets every kind of input; fields k and j are paired by        *)
(* authored relationships, m is a measure.                                 *)
(***************************************************************************)
EXTENDS QueryGraph

Leaf(slots, grain, rows) == CheckedNode([kind |-> "rows"], slots, grain, rows)
UpToTwo(S) == {T \in SUBSET S : Cardinality(T) <= 2}
KeySlot(id, null) == Slot("int64", null, id)
Measured == Slot("int64", TRUE, Null)
KM == [k : {Null, 0}, m : {Null, 1}] \ {[k |-> Null, m |-> Null]}

ByKey(null) ==
    {Leaf([k |-> KeySlot("k", null), m |-> Measured], {"k"}, Once(rows)) :
        rows \in {R \in UpToTwo({r \in KM : r.k = Null => null}) :
                     \A r, o \in R : r.k = o.k => r = o}}

(* What the row queries of the proposals can give. *)
RowQueries ==
    [ by_key |-> ByKey(FALSE),
      by_null |-> ByKey(TRUE),
      by_two |-> {Leaf([k |-> KeySlot("k", TRUE), j |-> KeySlot("j", FALSE)], {"k", "j"}, Once(rows)) :
                     rows \in UpToTwo([k : {Null, 0}, j : {0, 1}] \ {[k |-> Null, j |-> 1]})},
      total |-> {Leaf([m |-> Measured], {}, Once({row})) : row \in [m : {Null, 1}]},
      plain |-> {Leaf([k |-> KeySlot("k", TRUE), m |-> Measured], NoGrain, bag) :
                     bag \in UNION {[rows -> 1 .. 2] : rows \in UpToTwo(KM)}} ]

(* One key, a complete tuple, and tuples that repeat a field of the right or of the left side. *)
Authored == {<< <<"k", "k">> >>, << <<"k", "k">>, <<"j", "j">> >>,
             << <<"k", "k">>, <<"k", "j">> >>, << <<"k", "k">>, <<"j", "k">> >>}

Pred(kind, slot, value, kids) == [kind |-> kind, slot |-> slot, value |-> value, kids |-> kids]
Trees == << Pred("eq", "k", 0, <<>>), Pred("is_null", "m", 0, <<>>), Pred("eq", "m", 1, <<>>),
            Pred("not", "", 0, <<1>>),
            Pred("all", "", 0, <<1, 2>>), Pred("any", "", 0, <<3, 1>>),
            Pred("any", "", 0, <<5, 3>>), Pred("not", "", 0, <<6>>),
            Pred("all", "", 0, <<3, 8>>), Pred("all", "", 0, <<6, 2>>) >>

RowsOf(query) == [kind |-> "rows", inputs |-> <<>>, query |-> query]
Of(kind, inputs) == [kind |-> kind, inputs |-> inputs, query |-> ""]

Keyed == {"by_key", "by_null", "by_two", "total"}

Transformed == {<<RowsOf(q), Of(op, <<1>>)>> : q \in {"by_null", "plain"}, op \in Unary}
Combined == {<<RowsOf(q), RowsOf(r), Of(op, <<1, 2>>)>> : q \in Keyed \cup {"plain"}, r \in Keyed, op \in {"compose", "set"}}
Stacked == {<<RowsOf("by_null"), Of(ops[1], <<1>>), Of(ops[2], <<1, 2>>)>> :
              ops \in {<<"cast", "compose">>, <<"filter", "compose">>, <<"null_test", "set">>}}
    \cup {<<RowsOf("by_key"), Of("compare_slots", <<1>>)>>,
          <<RowsOf("by_key"), RowsOf("by_null"), Of("compose", <<1, 2>>), Of("compose", <<3, 1>>)>>,
          <<RowsOf("by_two"), Of("cast", <<1>>), Of("compose", <<2, 1>>)>>}

(* All graphs of up to three nodes, with and without cycles, and one above the limits. *)
Shapes == UNION {[1 .. n -> {<<>>} \cup {<<a>> : a \in 1 .. n} \cup ((1 .. n) \X (1 .. n))] : n \in 1 .. 3}
             \cup {<< <<>>, <<1>>, <<2>>, <<3>> >>, << <<>>, <<1, 1>>, <<2, 2>>, <<3, 3>> >>}
Shaped == {[j \in DOMAIN p |-> IF p[j] = <<>> THEN RowsOf("total") ELSE Of("none", p[j])] : p \in Shapes}

Graphs == Shaped \cup Transformed \cup Combined \cup Stacked
=============================================================================
