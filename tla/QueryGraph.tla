----------------------------- MODULE QueryGraph -----------------------------
(***************************************************************************)
(* The compiler of query graphs (semantic-compiler, typed/graph.rs): a     *)
(* proposal is a directed graph of nodes, leaves read rows and the others  *)
(* combine or transform the outputs of their inputs.  The compiler orders  *)
(* the nodes, then binds them one by one; for every node it derives which  *)
(* slots it has, which of them may be null and which identify its rows.    *)
(* What a bound node computes is modelled beside what it promises.         *)
(***************************************************************************)
EXTENDS Naturals, Sequences, FiniteSets, FiniteSetsExt, SequencesExt

CONSTANTS Null,             \* the SQL null
          Proposals,        \* sequences of nodes [kind, inputs, query]; the root is the last node
          Leaves,           \* row query -> the checked leaves that binding and running it can give
          Relationships,    \* authored relationships: sequences of pairs <<left field, right field>>
          Ids,              \* ids for slots that are passed on
          Literals,         \* values of literals
          Tree,             \* predicates: number -> [kind, slot, value, kids], kids have smaller numbers
          MaxExpanded,      \* options.max_nodes, as far as it limits expansion
          MaxDepth          \* options.max_depth

NoGrain == {"no grain"}      \* no slot has this id

Unary == {"calculate", "conditional", "cast", "null_test", "compare_slots", "filter"}
Binary == {"set", "compose"}

ASSUME GraphAssumption ==
    /\ MaxExpanded \in Nat /\ MaxDepth \in Nat
    /\ \A p \in Proposals :
          /\ p \in Seq([kind : STRING, inputs : Seq(DOMAIN p), query : STRING]) /\ p # <<>>
          /\ \A j \in DOMAIN p : /\ p[j].kind = "rows" => p[j].query \in DOMAIN Leaves
                                 /\ p[j].kind \in Unary => Len(p[j].inputs) = 1
                                 /\ p[j].kind \in Binary => Len(p[j].inputs) = 2
    /\ \A R \in Relationships : R \in Seq((STRING \ {Null}) \X (STRING \ {Null}))
    /\ IsFiniteSet(Ids) /\ "derived" \notin Ids /\ "value" \notin Ids
    /\ Null \notin {0, 1}

(* The trees that bind_predicate accepts: NOT has one operand, an empty group is refused. *)
ASSUME TreeAssumption ==
    /\ Tree \in Seq([kind : {"eq", "lt", "is_null", "not", "all", "any"}, slot : STRING,
                     value : Literals, kids : Seq(Nat \ {0})])
    /\ \A i \in DOMAIN Tree :
          /\ \A k \in ToSet(Tree[i].kids) : k < i
          /\ Tree[i].kind = "not" => Len(Tree[i].kids) = 1
          /\ Tree[i].kind \in {"all", "any"} => Tree[i].kids # <<>>
          /\ Tree[i].kind \in {"eq", "lt", "is_null"} => Tree[i].kids = <<>>

VARIABLES graph,            \* the proposal that is compiled
          stage,            \* "ordering", "binding", "compiled" or the error
          ready, pending,   \* of the ordering: nodes without pending inputs, edges still pending
          order,            \* nodes ordered so far
          expanded, depth,  \* nodes and depth after shared nodes are expanded
          nodes             \* checked nodes, in order

graphVars == <<graph, stage, ready, pending, order, expanded, depth, nodes>>

Positions == DOMAIN graph
Root == Len(graph)
Inputs(j) == graph[j].inputs

-----------------------------------------------------------------------------
(* Ordering: topological().                                                *)

(* Mutant: a node that is used twice by another counts once. *)
UsesMutant(i, j) == IF i \in ToSet(Inputs(j)) THEN 1 ELSE 0

Uses(i, j) == Cardinality({e \in DOMAIN Inputs(j) : Inputs(j)[e] = i})

(* What a stack that starts with the root comes to: the least set with the inputs of its nodes. *)
Reachable ==
    LET Closed == {S \in SUBSET Positions : Root \in S /\ \A j \in S : ToSet(Inputs(j)) \subseteq S}
    IN  {j \in Positions : \A S \in Closed : j \in S}

GraphStart(proposal) ==
    /\ graph = proposal
    /\ pending = [j \in Positions |-> Len(Inputs(j))]
    /\ stage = IF Reachable = Positions THEN "ordering" ELSE "graph_coverage"
    /\ ready = {j \in Positions : pending[j] = 0}
    /\ order = <<>>
    /\ expanded = [j \in Positions |-> 1]
    /\ depth = [j \in Positions |-> 1]
    /\ nodes = <<>>

GraphInit == \E proposal \in Proposals : GraphStart(proposal)

(* The smallest ready node comes next and counts towards every node that uses it. *)
OrderNext ==
    /\ stage = "ordering" /\ ready # {}
    /\ LET i == Min(ready)
           users == {j \in Positions : Uses(i, j) > 0}
           more == [j \in Positions |-> expanded[j] + Uses(i, j) * expanded[i]]
           deeper == [j \in Positions |-> IF j \in users /\ depth[j] <= depth[i]
                                          THEN depth[i] + 1 ELSE depth[j]]
           left == [j \in Positions |-> pending[j] - Uses(i, j)]
       IN  IF \E j \in users : more[j] > MaxExpanded \/ deeper[j] > MaxDepth
           THEN /\ stage' = "work_limit"
                /\ UNCHANGED <<ready, pending, order, expanded, depth>>
           ELSE /\ order' = Append(order, i)
                /\ pending' = left /\ expanded' = more /\ depth' = deeper
                /\ ready' = (ready \ {i}) \cup {j \in users : left[j] = 0}
                /\ UNCHANGED stage
    /\ UNCHANGED <<graph, nodes>>

OrderEnd ==
    /\ stage = "ordering" /\ ready = {}
    /\ stage' = IF Len(order) = Len(graph) THEN "binding" ELSE "graph_cycle"
    /\ UNCHANGED <<graph, ready, pending, order, expanded, depth, nodes>>

-----------------------------------------------------------------------------
(* Rows and bags of rows.  A bag is a function from rows to how often each *)
(* occurs, as in SQL.                                                      *)

Once(S) == [row \in S |-> 1]

Times(bag, row) == IF row \in DOMAIN bag THEN bag[row] ELSE 0

(* Every occurrence of a row with its row_number() over a partition by all columns. *)
Numbered(bag) == UNION {{row} \X (1 .. bag[row]) : row \in DOMAIN bag}

(* The bag of the f[x], for every occurrence of x in a bag. *)
BagImage(f, bag) ==
    [y \in {f[x] : x \in DOMAIN bag} |-> Cardinality({o \in Numbered(bag) : f[o[1]] = y})]

Unnumbered(S) == BagImage([x \in S |-> x[1]], Once(S))

-----------------------------------------------------------------------------
(* Predicates over output slots, with SQL's three truth values.            *)

And3(S) == IF "false" \in S THEN "false" ELSE IF "unknown" \in S THEN "unknown" ELSE "true"
Or3(S) == IF "true" \in S THEN "true" ELSE IF "unknown" \in S THEN "unknown" ELSE "false"
Not3(v) == CASE v = "true" -> "false" [] v = "false" -> "true" [] OTHER -> "unknown"
Bool3(b) == IF b THEN "true" ELSE "false"

Compare3(x, operator, y) ==
    IF x = Null \/ y = Null THEN "unknown"
    ELSE Bool3(CASE operator = "eq" -> x = y [] operator = "lt" -> x < y)

Atom3(p, row) ==
    IF p.kind = "is_null" THEN Bool3(row[p.slot] = Null)
    ELSE Compare3(row[p.slot], p.kind, p.value)

(* What the expression tree of the direct plan says of a row. *)
Direct(i, row) ==
    LET truth[n \in DOMAIN Tree] ==
            LET p == Tree[n]
                kids == {truth[k] : k \in ToSet(p.kids)}
            IN  CASE p.kind = "all" -> And3(kids)
                  [] p.kind = "any" -> Or3(kids)
                  [] p.kind = "not" -> Not3(truth[p.kids[1]])
                  [] OTHER -> Atom3(p, row)
    IN  truth[i]

(* The emitted SQL is text and parsed again: AND binds more tightly than   *)
(* OR, and only the operand of NOT is written in parentheses.  An emitted  *)
(* predicate is the sequence of its OR-operands, each the sequence of its  *)
(* AND-operands, which are atoms or negations.                             *)
(* Mutant: OR in place of AND. *)
JoinAndMutant(s, t) == s \o t

JoinAnd(s, t) == Front(s) \o <<Last(s) \o Head(t)>> \o Tail(t)

(* The texts of a group's predicates, reduced from the left. *)
Reduced(kind, texts) ==
    LET joined[e \in DOMAIN texts] ==
            IF e = 1 THEN texts[1]
            ELSE IF kind = "all" THEN JoinAnd(joined[e - 1], texts[e]) ELSE joined[e - 1] \o texts[e]
    IN  joined[Len(texts)]

Emit(i) ==
    LET text[n \in DOMAIN Tree] ==
            LET kids == Tree[n].kids
            IN  IF Tree[n].kind \in {"all", "any"}
                THEN Reduced(Tree[n].kind, [e \in DOMAIN kids |-> text[kids[e]]])
                ELSE <<<<n>>>>
    IN  text[i]

Emitted(i, row) ==
    LET truth[n \in DOMAIN Tree] ==
            LET Value(k) == IF Tree[k].kind = "not" THEN Not3(truth[Tree[k].kids[1]])
                              ELSE Atom3(Tree[k], row)
            IN  Or3({And3({Value(k) : k \in ToSet(conjuncts)}) : conjuncts \in ToSet(Emit(n))})
    IN  truth[i]

SlotsRead(i) ==
    LET read[n \in DOMAIN Tree] ==
            IF Tree[n].kids = <<>> THEN {Tree[n].slot}
            ELSE UNION {read[k] : k \in ToSet(Tree[n].kids)}
    IN  read[i]

-----------------------------------------------------------------------------
(* Binding one node.                                                       *)

(* The origin of a slot is the field it passes on, which authored relationships pair with a *)
(* field of the same or another relation; a derived slot has none.                          *)
Types == {"int64", "decimal", "boolean", "float64"}
Slot(type, null, origin) == [type |-> type, null |-> null, origin |-> origin]
Exact(slot) == slot.type # "float64"

CheckedNode(op, slots, grain, rows) ==
    [op |-> op, slots |-> slots, grain |-> grain, rows |-> rows]

(* What a node promises of its rows: a grain is made of its slots; where a slot is not *)
(* nullable no row has a null; one row for each tuple of its grain.                    *)
Typed(node) ==
    /\ \A s \in DOMAIN node.slots :
          node.slots[s] \in [type : Types, null : BOOLEAN, origin : STRING \cup {Null}]
    /\ node.grain # NoGrain => IsFiniteSet(node.grain) /\ node.grain \subseteq DOMAIN node.slots
    /\ IsFiniteSet(DOMAIN node.rows)
    /\ \A row \in DOMAIN node.rows : node.rows[row] \in Nat \ {0}

NullsFit(node) ==
    \A row \in DOMAIN node.rows :
        /\ DOMAIN row = DOMAIN node.slots
        /\ \A s \in DOMAIN row : row[s] = Null => node.slots[s].null

Identified(node) ==
    /\ \A row \in DOMAIN node.rows : node.rows[row] = 1
    /\ \A row, other \in DOMAIN node.rows :
          (\A s \in node.grain : row[s] = other[s]) => row = other

(* The leaves are given, not derived: the grain of a leaf is what its query groups by, and its *)
(* slots have the fields of the bound query (leaf_slots).                                     *)
ASSUME LeavesAssumption ==
    \A query \in DOMAIN Leaves : \A leaf \in Leaves[query] :
        /\ leaf.op.kind = "rows" /\ Typed(leaf) /\ NullsFit(leaf)
        /\ leaf.grain # NoGrain => Identified(leaf)

(* The next node in the order, and where its k-th input is among the bound nodes. *)
Binding == stage = "binding" /\ Len(nodes) < Len(order)
NextNode == graph[order[Len(nodes) + 1]]
Operand(k) == CHOOSE n \in DOMAIN nodes : order[n] = NextNode.inputs[k]
Takes(kind) == Binding /\ NextNode.kind = kind

Bind(node) ==
    /\ nodes' = Append(nodes, node)
    /\ UNCHANGED <<graph, stage, ready, pending, order, expanded, depth>>

BindRows == Takes("rows") /\ \E leaf \in Leaves[NextNode.query] : Bind(leaf)

(* A unary operator passes slots on under new ids and adds one output. A slot may *)
(* be passed on more than once. The grain survives if as many outputs are keys as *)
(* the grain has.                                                                 *)
Passed(source, pass) == {id \in DOMAIN pass : source.grain # NoGrain /\ pass[id] \in source.grain}

(* Mutant: the grain keeps the names it has in the input. *)
GrainPassedMutant(source, pass) ==
    IF source.grain # NoGrain /\ Cardinality(Passed(source, pass)) = Cardinality(source.grain)
    THEN source.grain ELSE NoGrain

GrainPassed(source, pass) ==
    IF source.grain # NoGrain /\ Cardinality(Passed(source, pass)) = Cardinality(source.grain)
    THEN Passed(source, pass) ELSE NoGrain

Derive(source, pass, op, slot, value) ==
    LET out == "derived"
        slots == [id \in DOMAIN pass \cup {out} |->
                     IF id = out THEN slot ELSE source.slots[pass[id]]]
        derived == [row \in DOMAIN source.rows |->
                       [id \in DOMAIN slots |-> IF id = out THEN value[row] ELSE row[pass[id]]]]
    IN  CheckedNode(op, slots, GrainPassed(source, pass), BagImage(derived, source.rows))

Passes(source) == UNION {[ids -> DOMAIN source.slots] : ids \in SUBSET Ids}
Integers64(source) == {s \in DOMAIN source.slots : source.slots[s].type = "int64"}

Quotient(n, d, zero) ==
    IF n = Null \/ d = Null THEN Null
    ELSE IF d = 0 THEN IF zero THEN 0 ELSE Null
    ELSE n \div d

Calculate ==
    Takes("calculate") /\ LET source == nodes[Operand(1)] IN
    \E pass \in Passes(source), n, d \in Integers64(source), zero \in BOOLEAN :
       Bind(Derive(source, pass, [kind |-> "calculate", input |-> Operand(1)],
                        Slot("decimal", TRUE, Null),
                        [row \in DOMAIN source.rows |-> Quotient(row[n], row[d], zero)]))

Conditional ==
    Takes("conditional") /\ LET source == nodes[Operand(1)] IN
    \E pass \in Passes(source), p \in DOMAIN Tree, yes, no \in Literals :
       /\ SlotsRead(p) \subseteq DOMAIN source.slots
       /\ Bind(Derive(source, pass, [kind |-> "conditional", input |-> Operand(1), tree |-> p],
                           Slot("int64", TRUE, Null),
                           [row \in DOMAIN source.rows |-> IF Direct(p, row) = "true" THEN yes ELSE no]))

Cast ==
    Takes("cast") /\ LET source == nodes[Operand(1)] IN
    \E pass \in Passes(source), s \in Integers64(source) :
       Bind(Derive(source, pass, [kind |-> "cast", input |-> Operand(1)],
                        [source.slots[s] EXCEPT !.type = "decimal"],
                        [row \in DOMAIN source.rows |-> row[s]]))

NullTest ==
    Takes("null_test") /\ LET source == nodes[Operand(1)] IN
    \E pass \in Passes(source), s \in Integers64(source), negated \in BOOLEAN :
       Bind(Derive(source, pass, [kind |-> "null_test", input |-> Operand(1)],
                        Slot("boolean", FALSE, Null),
                        [row \in DOMAIN source.rows |-> IF (row[s] = Null) # negated THEN 1 ELSE 0]))

(* Mutant: the result can be null if the left slot can. *)
CompareSlotsMutant ==
    Takes("compare_slots") /\ LET source == nodes[Operand(1)] IN
    \E pass \in Passes(source), s, t \in Integers64(source), operator \in {"eq", "lt"} :
       Bind(Derive(source, pass, [kind |-> "compare_slots", input |-> Operand(1)],
                        Slot("boolean", source.slots[s].null, Null),
                        [row \in DOMAIN source.rows |-> LET v == Compare3(row[s], operator, row[t])
                                     IN  CASE v = "true" -> 1 [] v = "false" -> 0 [] OTHER -> Null]))

CompareSlots ==
    Takes("compare_slots") /\ LET source == nodes[Operand(1)] IN
    \E pass \in Passes(source), s, t \in Integers64(source), operator \in {"eq", "lt"} :
       Bind(Derive(source, pass, [kind |-> "compare_slots", input |-> Operand(1)],
                        Slot("boolean", source.slots[s].null \/ source.slots[t].null, Null),
                        [row \in DOMAIN source.rows |-> LET v == Compare3(row[s], operator, row[t])
                                     IN  CASE v = "true" -> 1 [] v = "false" -> 0 [] OTHER -> Null]))

Filter ==
    Takes("filter") /\ LET source == nodes[Operand(1)] IN
    \E p \in DOMAIN Tree :
       /\ SlotsRead(p) \subseteq DOMAIN source.slots
       /\ Bind(CheckedNode([kind |-> "filter", input |-> Operand(1), tree |-> p],
                                source.slots, source.grain,
                                [row \in {r \in DOMAIN source.rows : Direct(p, r) = "true"} |->
                                    source.rows[row]]))

(* Set operators. INTERSECT ALL and EXCEPT ALL pair numbered occurrences of equal rows. *)
Project(source, columns, side) ==
    BagImage([row \in DOMAIN source.rows |-> [id \in DOMAIN columns |-> row[columns[id][side]]]],
             source.rows)

SetRows(l, r, operator, duplicates) ==
    CASE operator = "union" /\ duplicates = "all" ->
           [row \in DOMAIN l \cup DOMAIN r |-> Times(l, row) + Times(r, row)]
      [] operator = "union" /\ duplicates = "distinct" -> Once(DOMAIN l \cup DOMAIN r)
      [] operator = "intersect" /\ duplicates = "all" -> Unnumbered(Numbered(l) \cap Numbered(r))
      [] operator = "except" /\ duplicates = "all" -> Unnumbered(Numbered(l) \ Numbered(r))
      [] operator = "intersect" /\ duplicates = "distinct" -> Once(DOMAIN l \cap DOMAIN r)
      [] operator = "except" /\ duplicates = "distinct" -> Once(DOMAIN l \ DOMAIN r)

Alignments(l, r) ==
    UNION {{c \in [ids -> (DOMAIN l.slots) \X (DOMAIN r.slots)] :
               \A id \in ids : LET a == l.slots[c[id][1]]  b == r.slots[c[id][2]]
                               IN  a.type = b.type /\ Exact(a)} : ids \in (SUBSET Ids) \ {{}}}

SetOperation ==
    Takes("set") /\ LET l == nodes[Operand(1)]  r == nodes[Operand(2)] IN
    \E columns \in Alignments(l, r), operator \in {"union", "intersect", "except"},
       duplicates \in {"all", "distinct"} :
       Bind(CheckedNode(
           [kind |-> "set", left |-> Operand(1), right |-> Operand(2), columns |-> columns,
            operator |-> operator, duplicates |-> duplicates],
           [id \in DOMAIN columns |->
               LET a == l.slots[columns[id][1]]  b == r.slots[columns[id][2]]
               IN  Slot(a.type, a.null \/ b.null, IF a.origin = b.origin THEN a.origin ELSE Null)],
           NoGrain,
           SetRows(Project(l, columns, 1), Project(r, columns, 2), operator, duplicates)))

(* Composition: two results aligned on their complete group keys. *)
KeysMatch(l, r, keys, nulls) ==
    \A id \in DOMAIN keys : LET x == l[keys[id][1]]  y == r[keys[id][2]]
                            IN  x = y /\ (nulls = "match" \/ x # Null)

(* What a join keeps has a row of each side, or of the one side that has one. *)
Joined(l, r, keys, nulls, domain) ==
    LET pairs == {x \in (DOMAIN l.rows) \X (DOMAIN r.rows) : KeysMatch(x[1], x[2], keys, nulls)}
        alone(rows, side) == {row \in rows : \A x \in pairs : x[side] # row}
    IN  pairs \cup (IF domain \in {"union", "left"}
                    THEN {[side \in {1} |-> row] : row \in alone(DOMAIN l.rows, 1)} ELSE {})
              \cup (IF domain \in {"union", "right"}
                    THEN {[side \in {2} |-> row] : row \in alone(DOMAIN r.rows, 2)} ELSE {})

MergedKey(x, key) ==
    IF 1 \in DOMAIN x /\ x[1][key[1]] # Null THEN x[1][key[1]]
    ELSE IF 2 \in DOMAIN x THEN x[2][key[2]] ELSE Null

(* Mutant: COALESCE, which reads a null measure as an absent group. *)
MeasureMutant(x, output) ==
    IF output.side \in DOMAIN x /\ x[output.side][output.slot] # Null THEN x[output.side][output.slot]
    ELSE IF output.missing = "zero" THEN 0 ELSE Null

Measure(x, output) ==
    IF output.side \in DOMAIN x THEN x[output.side][output.slot]
    ELSE IF output.missing = "zero" THEN 0 ELSE Null

ComposedRows(l, r, c) ==
    LET joined == Joined(l, r, c.keys, c.nulls, c.domain)
        Row(x) == [id \in DOMAIN c.keys \cup {"value"} |->
                      IF id = "value" THEN Measure(x, c.output) ELSE MergedKey(x, c.keys[id])]
        times(x) == (IF 1 \in DOMAIN x THEN l.rows[x[1]] ELSE 1) * (IF 2 \in DOMAIN x THEN r.rows[x[2]] ELSE 1)
    IN  BagImage([x \in joined |-> Row(x)], [x \in joined |-> times(x)])

(* Mutant: keys identify the rows of every join. *)
ComposedGrainMutant(l, r, c) == DOMAIN c.keys

(* FULL and ordinary equality can keep a row with a null key from either side. *)
ComposedGrain(l, r, c) ==
    IF /\ c.domain = "union" /\ c.nulls = "never_match"
       /\ \E id \in DOMAIN c.keys : l.slots[c.keys[id][1]].null \/ r.slots[c.keys[id][2]].null
    THEN NoGrain ELSE DOMAIN c.keys

(* The fields that two aligned slots pass on. Keys implement a relationship if each is one of *)
(* its pairs and no pair is used twice; the relationship itself may repeat a field.           *)
Fields(key, l, r) == <<l.slots[key[1]].origin, r.slots[key[2]].origin>>

Implements(keys, R, l, r) ==
    /\ Len(R) = Cardinality(DOMAIN keys)
    /\ \A id \in DOMAIN keys : Fields(keys[id], l, r) \in ToSet(R)
    /\ \A id, other \in DOMAIN keys :
          id # other => Fields(keys[id], l, r) # Fields(keys[other], l, r)

KeyAlignments(l, r) ==
    {keys \in UNION {[ids -> l.grain \X r.grain] : ids \in SUBSET Ids} :
        /\ {keys[id][1] : id \in DOMAIN keys} = l.grain
        /\ {keys[id][2] : id \in DOMAIN keys} = r.grain
        /\ Cardinality(DOMAIN keys) = Cardinality(l.grain)
        /\ Cardinality(DOMAIN keys) = Cardinality(r.grain)
        /\ \A id \in DOMAIN keys : LET a == l.slots[keys[id][1]]  b == r.slots[keys[id][2]]
                                   IN  a.type = b.type /\ Exact(a)
        /\ DOMAIN keys = {} \/ \E R \in Relationships : Implements(keys, R, l, r)}

Outputs(l, r, missing) ==
    [side : {1}, slot : DOMAIN l.slots, missing : missing]
      \cup [side : {2}, slot : DOMAIN r.slots, missing : missing]

Compose ==
    Takes("compose") /\ LET l == nodes[Operand(1)]  r == nodes[Operand(2)] IN
    /\ l.grain # NoGrain /\ r.grain # NoGrain
    /\ \E c \in [kind : {"compose"}, left : {Operand(1)}, right : {Operand(2)},
                 keys : KeyAlignments(l, r), nulls : {"match", "never_match"},
                 domain : {"union", "intersection", "left", "right"},
                 output : Outputs(l, r, {"null", "zero"})] :
          LET source == IF c.output.side = 1 THEN l.slots[c.output.slot] ELSE r.slots[c.output.slot]
          IN  /\ c.output.missing = "zero" => source.type \in {"int64", "decimal"}
              /\ Bind(CheckedNode(
                     c,
                     [id \in DOMAIN c.keys \cup {"value"} |->
                         IF id = "value" THEN Slot(source.type, TRUE, Null)
                         ELSE [l.slots[c.keys[id][1]] EXCEPT !.null = TRUE]],
                     ComposedGrain(l, r, c), ComposedRows(l, r, c)))

(* What was proposed for the next node is not acceptable. *)
RefuseNode ==
    /\ Binding
    /\ stage' = "refused"
    /\ UNCHANGED <<graph, ready, pending, order, expanded, depth, nodes>>

GraphDone ==
    /\ stage = "binding" /\ Len(nodes) = Len(order)
    /\ stage' = "compiled"
    /\ UNCHANGED <<graph, ready, pending, order, expanded, depth, nodes>>

GraphNext ==
    \/ OrderNext \/ OrderEnd
    \/ BindRows
    \/ Calculate \/ Conditional \/ Cast \/ NullTest \/ CompareSlots \/ Filter
    \/ SetOperation \/ Compose
    \/ RefuseNode \/ GraphDone

GraphSpec == GraphInit /\ [][GraphNext]_graphVars

-----------------------------------------------------------------------------
(* What the compiler promises.                                             *)

(* Every variable has its type; a grain names slots its node has (the grain of CheckedNode). *)
GraphTypeOK ==
    /\ graph \in Seq([kind : STRING, inputs : Seq(Positions), query : STRING])
    /\ stage \in {"ordering", "binding", "compiled", "refused", "graph_coverage", "graph_cycle", "work_limit"}
    /\ ready \subseteq Positions /\ order \in Seq(Positions)
    /\ \A f \in {pending, expanded, depth} : f \in [Positions -> Nat]
    /\ \A n \in DOMAIN nodes : Typed(nodes[n])

(* Walks down from node j, as sequences of edges [from, nth input]; a shared node is expanded *)
(* once for each of them.                                                                     *)
Edges == UNION {{[from |-> j, nth |-> e] : e \in DOMAIN Inputs(j)} : j \in Positions}
To(edge) == Inputs(edge.from)[edge.nth]
IsWalk(w, j) == /\ w # <<>> => w[1].from = j
                /\ \A k \in 1 .. Len(w) - 1 : w[k + 1].from = To(w[k])
Walks(j) == {w \in UNION {[1 .. k -> Edges] : k \in 0 .. Len(graph)} : IsWalk(w, j)}
Acyclic == \A S \in (SUBSET Positions) \ {{}} : \E j \in S : ToSet(Inputs(j)) \cap S = {}
Expansion(j) == Cardinality(Walks(j))
Height(j) == Max({Len(w) + 1 : w \in Walks(j)})

(* The ordering of topological() is one in which inputs come first, and it is found for *)
(* every proposal without a cycle whose expanded size and depth stay within the limits. *)
OrderIsTopological ==
    /\ stage = "binding" /\ nodes = <<>> =>
          /\ IsInjective(order) /\ ToSet(order) = Positions
          /\ \A m, n \in DOMAIN order : order[m] \in ToSet(Inputs(order[n])) => m < n
          /\ \A j \in Positions : expanded[j] = Expansion(j) /\ depth[j] = Height(j)
    /\ stage = "graph_cycle" => ~Acyclic
    /\ stage = "work_limit" /\ Acyclic => Expansion(Root) > MaxExpanded \/ Height(Root) > MaxDepth

(* A slot that is not declared nullable never holds a null, whatever was derived, joined or *)
(* combined on the way to it (verify_root_output_contract relies on it).                   *)
NullsAreDeclared == \A n \in DOMAIN nodes : NullsFit(nodes[n])

Composed == {n \in DOMAIN nodes : nodes[n].op.kind = "compose"}

(* What is composed has one row for each tuple of its group keys, so that no fact is counted *)
(* twice, and so has the result where it claims a grain.                                    *)
GrainsIdentify ==
    \A n \in Composed :
        /\ Identified(nodes[nodes[n].op.left]) /\ Identified(nodes[nodes[n].op.right])
        /\ nodes[n].grain # NoGrain => Identified(nodes[n])

(* Two keys align the same field of one side. *)
RepeatsField(keys, l, r) ==
    \E id, other \in DOMAIN keys :
        /\ id # other
        /\ \/ l.slots[keys[id][1]].origin = l.slots[keys[other][1]].origin
           \/ r.slots[keys[id][2]].origin = r.slots[keys[other][2]].origin

(* Unary operators only count the keys they pass on, and one may be passed on twice for another  *)
(* (see GrainsIdentify); composition notices where its relationships repeat no field.            *)
ComposedGrainsIdentify ==
    (\A n \in Composed :
        ~RepeatsField(nodes[n].op.keys, nodes[nodes[n].op.left], nodes[nodes[n].op.right]))
    => GrainsIdentify

(* How often a row occurs in the result of a set operator whose inputs have it l and r times. *)
Count(op, l, r) ==
    LET once(x) == IF x > 0 THEN 1 ELSE 0
    IN  CASE op.operator = "union" /\ op.duplicates = "all" -> l + r
          [] op.operator = "union" /\ op.duplicates = "distinct" -> once(l + r)
          [] op.operator = "intersect" /\ op.duplicates = "all" -> IF l < r THEN l ELSE r
          [] op.operator = "intersect" /\ op.duplicates = "distinct" -> IF l > 0 THEN once(r) ELSE 0
          [] op.operator = "except" /\ op.duplicates = "all" -> IF l > r THEN l - r ELSE 0
          [] OTHER -> IF r = 0 THEN once(l) ELSE 0

(* Set operators count rows as SQL does, ALL with multiplicities, although the ALL forms of  *)
(* INTERSECT and EXCEPT are lowered to joins of numbered occurrences.                       *)
RowsCount(node, l, r) ==
    \A row \in [DOMAIN node.op.columns -> Literals \cup {Null}] :
        Times(node.rows, row) = Count(node.op, Times(Project(l, node.op.columns, 1), row),
                                               Times(Project(r, node.op.columns, 2), row))

(* Composition keeps every group its domain asks for exactly once. The measure is the one of *)
(* the group's own row if there is one, null included; only an absent group reads as zero.  *)
GroupsKept(node, l, r) ==
    LET op == node.op
        side(k) == IF k = 1 THEN DOMAIN l.rows ELSE DOMAIN r.rows
        tuple(row, k) == [id \in DOMAIN op.keys |-> row[op.keys[id][k]]]
        tuples(k) == {tuple(row, k) : row \in side(k)}
        joins(t) == op.nulls = "match" \/ \A id \in DOMAIN t : t[id] # Null
        both == {t \in tuples(1) \cap tuples(2) : joins(t)}
        groups == (both \X {{1, 2}})
            \cup (IF op.domain \in {"union", "left"} THEN (tuples(1) \ both) \X {{1}} ELSE {})
            \cup (IF op.domain \in {"union", "right"} THEN (tuples(2) \ both) \X {{2}} ELSE {})
        measure(g) == IF op.output.side \in g[2]
                      THEN (CHOOSE row \in side(op.output.side) :
                               tuple(row, op.output.side) = g[1])[op.output.slot]
                      ELSE IF op.output.missing = "zero" THEN 0 ELSE Null
        group(g) == [id \in DOMAIN op.keys \cup {"value"} |-> IF id = "value" THEN measure(g) ELSE g[1][id]]
    IN  node.rows = BagImage([g \in groups |-> group(g)], Once(groups))

(* Whatever joins and numberings a node is lowered to, its rows are those its operator means; *)
(* of a composition, if keys identify the rows of both sides (see GrainsIdentify).            *)
RowsAreAsDefined ==
    \A n \in DOMAIN nodes :
        LET node == nodes[n]
        IN  /\ node.op.kind = "set" => RowsCount(node, nodes[node.op.left], nodes[node.op.right])
            /\ /\ node.op.kind = "compose"
               /\ Identified(nodes[node.op.left]) /\ Identified(nodes[node.op.right])
               => GroupsKept(node, nodes[node.op.left], nodes[node.op.right])

Agrees(i, node) == \A row \in DOMAIN node.rows : Emitted(i, row) = Direct(i, row)
Predicated(n) == nodes[n].op.kind \in {"filter", "conditional"}

(* A predicate in emitted SQL says of every row what it says in the direct plan, as long as no *)
(* disjunction is an operand of a conjunction (see EmittedAgrees).                            *)
EmittedAgreesUnnested ==
    \A n \in DOMAIN nodes : Predicated(n) =>
        LET p == nodes[n].op.tree
            nested == \E i \in 1 .. p : Tree[i].kind = "all"
                         /\ \E k \in ToSet(Tree[i].kids) : Tree[k].kind = "any"
        IN  nested \/ Agrees(p, nodes[nodes[n].op.input])

(* The same of every predicate: emitted SQL and direct plan agree. *)
EmittedAgrees ==
    \A n \in DOMAIN nodes : Predicated(n) => Agrees(nodes[n].op.tree, nodes[nodes[n].op.input])
=============================================================================
