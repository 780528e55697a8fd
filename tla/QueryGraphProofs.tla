--------------------------- MODULE QueryGraphProofs ---------------------------
(***************************************************************************)
(* Proofs about the compiler of query graphs.  First the rows of bound     *)
(* nodes: what every operator of scalar.rs, set.rs and compose.rs does to  *)
(* a node that keeps its promises.  Then the walks of a graph and the      *)
(* order that topological() finds.  Last the two together: GraphInv is     *)
(* inductive, and the properties of the compiler follow from it.           *)
(***************************************************************************)
EXTENDS QueryGraph, FiniteSetTheorems, SequenceTheorems, WellFoundedInduction, TLAPS

-----------------------------------------------------------------------------
(* Bags of rows.                                                           *)

IsBag(bag) == IsFiniteSet(DOMAIN bag) /\ \A x \in DOMAIN bag : bag[x] \in Nat \ {0}

(* A function has finitely many values on a finite set. *)
LEMMA ImageFinite ==
  ASSUME NEW f, NEW S, IsFiniteSet(S), S \subseteq DOMAIN f
  PROVE  IsFiniteSet({f[x] : x \in S})
<1> DEFINE T == {f[x] : x \in S}
<1> DEFINE h == [x \in S |-> f[x]]
<1>1. h \in Surjection(S, T)
  BY DEF Surjection
<1> QED
  BY <1>1, FS_Surjection

(* A bag has finitely many occurrences. *)
LEMMA NumberedFinite ==
  ASSUME NEW bag, IsBag(bag)
  PROVE  IsFiniteSet(Numbered(bag))
<1> DEFINE f == [x \in DOMAIN bag |-> {x} \X (1 .. bag[x])]
<1>1. ASSUME NEW x \in DOMAIN bag PROVE IsFiniteSet(f[x])
  <2>1. IsFiniteSet({x}) /\ IsFiniteSet(1 .. bag[x])
    <3>1. 1 \in Int /\ bag[x] \in Int
      BY DEF IsBag
    <3> QED
      BY <3>1, FS_Singleton, FS_Interval
  <2> QED
    BY <2>1, FS_Product
<1>2. IsFiniteSet({f[x] : x \in DOMAIN bag})
  <2>1. DOMAIN bag \subseteq DOMAIN f
    OBVIOUS
  <2> HIDE DEF f
  <2> QED
    BY <2>1, ImageFinite DEF IsBag
<1>3. IsFiniteSet(UNION {f[x] : x \in DOMAIN bag})
  <2> HIDE DEF f
  <2> QED
    BY <1>1, <1>2, FS_UNION
<1> QED
  BY <1>3 DEF Numbered

(* An occurrence is an element with one of its numbers. *)
LEMMA NumberedElements ==
  ASSUME NEW bag
  PROVE  \A o : o \in Numbered(bag) <=> \E x \in DOMAIN bag : \E n \in 1 .. bag[x] : o = <<x, n>>
<1> TAKE o
<1>1. o \in Numbered(bag) <=> \E x \in DOMAIN bag : o \in {x} \X (1 .. bag[x])
  BY DEF Numbered
<1>2. ASSUME NEW x PROVE o \in {x} \X (1 .. bag[x]) <=> \E n \in 1 .. bag[x] : o = <<x, n>>
  OBVIOUS
<1> QED
  BY <1>1, <1>2

(* The image of a bag is a bag, and its elements are the values of the function. *)
LEMMA BagImageIsBag ==
  ASSUME NEW f, NEW bag, IsBag(bag), DOMAIN bag \subseteq DOMAIN f
  PROVE  /\ IsBag(BagImage(f, bag))
         /\ \A y : y \in DOMAIN BagImage(f, bag) <=> \E x \in DOMAIN bag : y = f[x]
<1> DEFINE Of(y) == {o \in Numbered(bag) : f[o[1]] = y}
<1>1. DOMAIN BagImage(f, bag) = {f[x] : x \in DOMAIN bag}
  BY DEF BagImage
<1>2. ASSUME NEW x \in DOMAIN bag PROVE BagImage(f, bag)[f[x]] \in Nat \ {0}
  <2>1. IsFiniteSet(Of(f[x]))
    BY NumberedFinite, FS_Subset
  <2>2. <<x, 1>> \in Of(f[x])
    BY NumberedElements DEF IsBag
  <2>3. Cardinality(Of(f[x])) \in Nat \ {0}
    <3> HIDE DEF Of
    <3> QED
      BY <2>1, <2>2, FS_CardinalityType, FS_EmptySet
  <2> QED
    BY <2>3 DEF BagImage
<1>3. IsFiniteSet({f[x] : x \in DOMAIN bag})
  BY ImageFinite DEF IsBag
<1> QED
  BY <1>1, <1>2, <1>3 DEF IsBag

(* A function that tells the elements of a bag apart keeps their counts. *)
LEMMA BagImageInjective ==
  ASSUME NEW f, NEW bag, IsBag(bag), DOMAIN bag \subseteq DOMAIN f,
         \A x, y \in DOMAIN bag : f[x] = f[y] => x = y,
         NEW x \in DOMAIN bag
  PROVE  BagImage(f, bag)[f[x]] = bag[x]
<1> DEFINE Of == {o \in Numbered(bag) : f[o[1]] = f[x]}
<1> DEFINE h == [n \in 1 .. bag[x] |-> <<x, n>>]
<1>1. \A o : o \in Of <=> \E n \in 1 .. bag[x] : o = <<x, n>>
  BY NumberedElements
<1>2. h \in Bijection(1 .. bag[x], Of)
  <2>1. h \in [1 .. bag[x] -> Of] /\ \A y \in Of : \E n \in 1 .. bag[x] : h[n] = y
    <3> HIDE DEF Of
    <3> QED
      BY <1>1
  <2>2. \A m, n \in 1 .. bag[x] : h[m] = h[n] => m = n
    OBVIOUS
  <2> HIDE DEF h, Of
  <2> QED
    BY <2>1, <2>2 DEF Bijection, Injection, Surjection, IsInjective
<1>3. bag[x] \in Nat
  BY DEF IsBag
<1>4. Cardinality(Of) = bag[x]
  <2>1. ExistsBijection(1 .. bag[x], Of)
    BY <1>2 DEF ExistsBijection
  <2> HIDE DEF Of, h
  <2> QED
    BY <2>1, <1>3, FS_CountingElements
<1> QED
  BY <1>4 DEF BagImage

(* A finite set is a bag in which every element occurs once. *)
LEMMA OnceIsBag ==
  ASSUME NEW S, IsFiniteSet(S)
  PROVE  IsBag(Once(S)) /\ DOMAIN Once(S) = S /\ \A x \in S : Once(S)[x] = 1
  BY DEF IsBag, Once

-----------------------------------------------------------------------------
(* No two slots of the grain pass on the same field. *)
KeysOnly(node) ==
    /\ node.grain # NoGrain
    /\ \A s, t \in node.grain : s # t => node.slots[s].origin # node.slots[t].origin

Marked(node) == KeysOnly(node) => Identified(node)

Good(node) == Typed(node) /\ NullsFit(node)

(* The rows of a node are a bag. *)
LEMMA RowsAreBag ==
  ASSUME NEW node, Typed(node)
  PROVE  IsBag(node.rows)
  BY DEF Typed, IsBag

(* As many outputs as keys, all passed from keys: no key is lost and none is passed twice. *)
LEMMA PassedIsWhole ==
  ASSUME NEW source, Typed(source), NEW pass, IsFiniteSet(DOMAIN pass),
         GrainPassed(source, pass) # NoGrain,
         \A s, t \in GrainPassed(source, pass) : s # t => pass[s] # pass[t]
  PROVE  /\ source.grain # NoGrain /\ GrainPassed(source, pass) = Passed(source, pass)
         /\ \A s \in source.grain : \E t \in GrainPassed(source, pass) : pass[t] = s
<1> DEFINE P == Passed(source, pass)
<1> DEFINE h == [id \in P |-> pass[id]]
<1>1. /\ source.grain # NoGrain /\ GrainPassed(source, pass) = P
      /\ Cardinality(P) = Cardinality(source.grain)
  BY DEF GrainPassed
<1>2. IsFiniteSet(source.grain)
  BY <1>1 DEF Typed
<1>3. h \in Injection(P, source.grain)
  <2>1. \A s, t \in P : h[s] = h[t] => s = t
    BY <1>1
  <2>2. h \in [P -> source.grain]
    BY DEF Passed
  <2> HIDE DEF h, P
  <2> QED
    BY <2>1, <2>2 DEF Injection, IsInjective
<1>4. h \in Surjection(P, source.grain)
  <2> HIDE DEF h, P
  <2> QED
    BY <1>1, <1>2, <1>3, FS_Injection
<1>5. \A s \in source.grain : \E t \in P : h[t] = s
  <2> HIDE DEF h, P
  <2> QED
    BY <1>4 DEF Surjection
<1> QED
  BY <1>1, <1>5

(* A unary operator of scalar.rs keeps the promises of a node: its grain is passed whole or not
   at all, and the new slot is null only where it says so. *)
LEMMA DeriveIsGood ==
  ASSUME NEW source, Good(source), NEW pass \in Passes(source), NEW op,
         NEW slot \in [type : Types, null : BOOLEAN, origin : STRING \cup {Null}],
         NEW value, \A row \in DOMAIN source.rows : value[row] = Null => slot.null
  PROVE  /\ Good(Derive(source, pass, op, slot, value)) /\ Derive(source, pass, op, slot, value).op = op
         /\ Marked(source) => Marked(Derive(source, pass, op, slot, value))
<1> DEFINE out == "derived"
           slots == [id \in DOMAIN pass \cup {out} |->
                        IF id = out THEN slot ELSE source.slots[pass[id]]]
           image == [row \in DOMAIN source.rows |->
                    [id \in DOMAIN slots |-> IF id = out THEN value[row] ELSE row[pass[id]]]]
           node == Derive(source, pass, op, slot, value)
<1>1. /\ node.op = op /\ node.slots = slots /\ node.grain = GrainPassed(source, pass)
      /\ node.rows = BagImage(image, source.rows)
  BY DEF Derive, CheckedNode
<1>2. DOMAIN pass \subseteq Ids /\ out \notin DOMAIN pass /\ IsFiniteSet(DOMAIN pass)
      /\ \A id \in DOMAIN pass : pass[id] \in DOMAIN source.slots
  <2>1. DOMAIN pass \subseteq Ids /\ \A id \in DOMAIN pass : pass[id] \in DOMAIN source.slots
    BY DEF Passes
  <2> QED
    BY <2>1, GraphAssumption, FS_Subset
<1>3. IsBag(source.rows) /\ DOMAIN image = DOMAIN source.rows
  BY RowsAreBag DEF Good
<1>4. /\ IsBag(node.rows)
      /\ \A y : y \in DOMAIN node.rows <=> \E row \in DOMAIN source.rows : y = image[row]
  <2> HIDE DEF image, node
  <2> QED
    BY <1>1, <1>3, BagImageIsBag
<1>5. Typed(node)
  <2>1. ASSUME NEW s \in DOMAIN node.slots
        PROVE  node.slots[s] \in [type : Types, null : BOOLEAN, origin : STRING \cup {Null}]
    BY <1>1, <1>2 DEF Good, Typed
  <2>2. node.grain # NoGrain => IsFiniteSet(node.grain) /\ node.grain \subseteq DOMAIN node.slots
    <3>1. Passed(source, pass) \subseteq DOMAIN pass
      BY DEF Passed
    <3>2. node.grain # NoGrain => node.grain = Passed(source, pass)
      BY <1>1 DEF GrainPassed
    <3> QED
      BY <1>1, <1>2, <3>1, <3>2, FS_Subset
  <2> HIDE DEF node
  <2> QED
    BY <1>4, <2>1, <2>2 DEF Typed, IsBag
<1>6. ASSUME NEW row \in DOMAIN source.rows
      PROVE  /\ DOMAIN image[row] = DOMAIN slots
             /\ \A s \in DOMAIN slots : image[row][s] = Null => slots[s].null
  <2>1. \A s \in DOMAIN pass : row[pass[s]] = Null => source.slots[pass[s]].null
    BY <1>2 DEF Good, NullsFit
  <2> QED
    BY <1>2, <2>1
<1>7. NullsFit(node)
  <2> HIDE DEF image, slots, node
  <2> QED
    BY <1>1, <1>4, <1>6 DEF NullsFit
<1>8. ASSUME Marked(source), KeysOnly(node) PROVE Identified(node)
  <2> DEFINE G == GrainPassed(source, pass)
  <2>1. /\ G # NoGrain
        /\ \A s, t \in G : s # t => slots[s].origin # slots[t].origin
    <3> HIDE DEF slots, node
    <3> QED
      BY <1>1, <1>8 DEF KeysOnly
  <2>2. G = Passed(source, pass) /\ source.grain # NoGrain
    BY <2>1 DEF GrainPassed
  <2>3. \A s \in G : s \in DOMAIN pass /\ slots[s] = source.slots[pass[s]] /\ pass[s] \in source.grain
    BY <2>2, <1>2 DEF Passed
  <2>4. \A s, t \in G : s # t => pass[s] # pass[t]
    <3> HIDE DEF G, slots
    <3> QED
      BY <2>1, <2>3
  <2>5. \A s \in source.grain : \E t \in G : pass[t] = s
    <3>1. Typed(source)
      BY DEF Good
    <3> QED
      BY <1>2, <2>1, <2>4, <3>1, PassedIsWhole
  <2>6. KeysOnly(source)
    <3>1. ASSUME NEW s \in source.grain, NEW t \in source.grain, s # t
          PROVE  source.slots[s].origin # source.slots[t].origin
      <4>1. PICK a \in G, b \in G : pass[a] = s /\ pass[b] = t
        BY <2>5
      <4> HIDE DEF G, slots
      <4> QED
        BY <2>1, <2>3, <3>1, <4>1
    <3> QED
      BY <2>2, <3>1 DEF KeysOnly
  <2>7. Identified(source)
    BY <1>8, <2>6 DEF Marked
  <2>8. ASSUME NEW x \in DOMAIN source.rows, NEW y \in DOMAIN source.rows,
               \A s \in G : image[x][s] = image[y][s]
        PROVE  x = y
    <3>1. \A s \in G : image[x][s] = x[pass[s]] /\ image[y][s] = y[pass[s]]
      <4>1. \A s \in G : s # out /\ s \in DOMAIN slots
        BY <1>2, <2>3
      <4> QED
        BY <4>1
    <3>2. \A s \in source.grain : x[s] = y[s]
      <4> HIDE DEF image, G
      <4> QED
        BY <2>5, <2>8, <3>1
    <3> QED
      BY <2>7, <3>2 DEF Identified
  <2>9. \A x \in DOMAIN source.rows : node.rows[image[x]] = source.rows[x]
    <3>1. \A x, y \in DOMAIN source.rows : image[x] = image[y] => x = y
      <4> HIDE DEF image, G
      <4> QED
        BY <2>8
    <3> HIDE DEF image, node
    <3> QED
      BY <1>1, <1>3, <3>1, BagImageInjective
  <2>10. node.grain = G
    BY <1>1
  <2> HIDE DEF image, node, slots, G
  <2> QED
    BY <1>4, <2>7, <2>8, <2>9, <2>10 DEF Identified
<1> QED
  BY <1>1, <1>5, <1>7, <1>8 DEF Good, Marked

-----------------------------------------------------------------------------
(* A filter takes rows away and breaks no promise. *)
LEMMA FilterIsGood ==
  ASSUME NEW source, Good(source), NEW S, NEW op
  PROVE  LET node == CheckedNode(op, source.slots, source.grain,
                                 [row \in {r \in DOMAIN source.rows : r \in S} |-> source.rows[row]])
         IN  Good(node) /\ node.op = op /\ (Marked(source) => Marked(node))
<1> DEFINE kept == [row \in {r \in DOMAIN source.rows : r \in S} |-> source.rows[row]]
           node == CheckedNode(op, source.slots, source.grain, kept)
<1>1. node.op = op /\ node.slots = source.slots /\ node.grain = source.grain /\ node.rows = kept
  BY DEF CheckedNode
<1>2. IsFiniteSet(DOMAIN kept) /\ DOMAIN kept \subseteq DOMAIN source.rows
      /\ \A row \in DOMAIN kept : kept[row] = source.rows[row]
  <2>1. IsFiniteSet(DOMAIN source.rows)
    BY DEF Good, Typed
  <2> QED
    BY <2>1, FS_Subset
<1> HIDE DEF node, kept
<1>3. Typed(node)
  BY <1>1, <1>2 DEF Good, Typed
<1>4. NullsFit(node)
  BY <1>1, <1>2 DEF Good, NullsFit
<1>5. Marked(source) => Marked(node)
  BY <1>1, <1>2 DEF Marked, KeysOnly, Identified
<1> QED
  BY <1>1, <1>3, <1>4, <1>5 DEF Good, node, kept

-----------------------------------------------------------------------------
(* What set.rs aligns on its columns is a bag of rows with these columns. *)
LEMMA ProjectIsBag ==
  ASSUME NEW source, Good(source), NEW columns, NEW side \in {1, 2},
         \A id \in DOMAIN columns : columns[id][side] \in DOMAIN source.slots
  PROVE  /\ IsBag(Project(source, columns, side))
         /\ \A row \in DOMAIN Project(source, columns, side) :
               /\ DOMAIN row = DOMAIN columns
               /\ \A id \in DOMAIN columns : row[id] = Null => source.slots[columns[id][side]].null
<1> DEFINE image == [row \in DOMAIN source.rows |-> [id \in DOMAIN columns |-> row[columns[id][side]]]]
<1>1. IsBag(source.rows) /\ DOMAIN source.rows \subseteq DOMAIN image
  BY RowsAreBag DEF Good
<1>2. Project(source, columns, side) = BagImage(image, source.rows)
  BY DEF Project
<1>3. /\ IsBag(Project(source, columns, side))
      /\ \A y : y \in DOMAIN Project(source, columns, side) <=> \E row \in DOMAIN source.rows : y = image[row]
  <2> HIDE DEF image
  <2> QED
    BY <1>1, <1>2, BagImageIsBag
<1>4. ASSUME NEW row \in DOMAIN source.rows
      PROVE  /\ DOMAIN image[row] = DOMAIN columns
             /\ \A id \in DOMAIN columns :
                   image[row][id] = Null => source.slots[columns[id][side]].null
  BY DEF Good, NullsFit
<1> HIDE DEF image
<1> QED
  BY <1>3, <1>4

(* The rows of a set operation are rows of its inputs. *)
LEMMA UnnumberedIsBag ==
  ASSUME NEW bag, IsBag(bag), NEW S, S \subseteq Numbered(bag)
  PROVE  IsBag(Unnumbered(S)) /\ DOMAIN Unnumbered(S) \subseteq DOMAIN bag
<1> DEFINE first == [x \in S |-> x[1]]
<1>1. IsFiniteSet(S)
  BY NumberedFinite, FS_Subset
<1>2. IsBag(Once(S)) /\ DOMAIN Once(S) = S /\ DOMAIN first = S
  BY <1>1, OnceIsBag
<1>3. \A x \in S : first[x] \in DOMAIN bag
  BY NumberedElements
<1>4. Unnumbered(S) = BagImage(first, Once(S))
  BY DEF Unnumbered
<1> HIDE DEF first
<1> QED
  BY <1>2, <1>3, <1>4, BagImageIsBag

SetOperators == {"union", "intersect", "except"}
SetForms == {"all", "distinct"}

(* A set operator makes a bag of rows it was given. *)
LEMMA SetRowsIsBag ==
  ASSUME NEW l, NEW r, IsBag(l), IsBag(r),
         NEW operator \in SetOperators, NEW duplicates \in SetForms
  PROVE  /\ IsBag(SetRows(l, r, operator, duplicates))
         /\ DOMAIN SetRows(l, r, operator, duplicates) \subseteq DOMAIN l \cup DOMAIN r
<1>1. IsFiniteSet(DOMAIN l \cup DOMAIN r)
  BY FS_Union DEF IsBag
<1>2. \A S \in SUBSET (DOMAIN l \cup DOMAIN r) : IsBag(Once(S)) /\ DOMAIN Once(S) = S
  BY <1>1, FS_Subset, OnceIsBag
<1>3. CASE operator = "union" /\ duplicates = "all"
  <2>1. SetRows(l, r, operator, duplicates) = [row \in DOMAIN l \cup DOMAIN r |-> Times(l, row) + Times(r, row)]
    BY <1>3 DEF SetRows
  <2>2. \A row \in DOMAIN l \cup DOMAIN r : Times(l, row) + Times(r, row) \in Nat \ {0}
    BY DEF Times, IsBag
  <2> QED
    BY <1>1, <2>1, <2>2 DEF IsBag
<1>4. CASE duplicates = "distinct"
  <2>1. \E S \in SUBSET (DOMAIN l \cup DOMAIN r) : SetRows(l, r, operator, duplicates) = Once(S)
    <3>1. CASE operator = "union"
      BY <1>4, <3>1 DEF SetRows
    <3>2. CASE operator = "intersect"
      BY <1>4, <3>2 DEF SetRows
    <3>3. CASE operator = "except"
      BY <1>4, <3>3 DEF SetRows
    <3> QED
      BY <3>1, <3>2, <3>3 DEF SetOperators
  <2> QED
    BY <1>2, <2>1
<1>5. CASE operator # "union" /\ duplicates = "all"
  <2>1. \E S \in SUBSET Numbered(l) : SetRows(l, r, operator, duplicates) = Unnumbered(S)
    <3>1. CASE operator = "intersect"
      BY <1>5, <3>1 DEF SetRows
    <3>2. CASE operator = "except"
      BY <1>5, <3>2 DEF SetRows
    <3> QED
      BY <1>5, <3>1, <3>2 DEF SetOperators
  <2> QED
    BY <2>1, UnnumberedIsBag
<1> QED
  BY <1>3, <1>4, <1>5 DEF SetForms

(* What SetOperation makes of columns aligned in two nodes. *)
SetNode(l, r, columns, operator, duplicates, op) ==
    CheckedNode(op,
        [id \in DOMAIN columns |->
            LET a == l.slots[columns[id][1]]  b == r.slots[columns[id][2]]
            IN  Slot(a.type, a.null \/ b.null, IF a.origin = b.origin THEN a.origin ELSE Null)],
        NoGrain,
        SetRows(Project(l, columns, 1), Project(r, columns, 2), operator, duplicates))

(* A set operation keeps the promises of a node: a column is nullable if it is on either side,
   and there is no grain. *)
LEMMA SetIsGood ==
  ASSUME NEW l, NEW r, Good(l), Good(r), NEW columns \in Alignments(l, r),
         NEW operator \in SetOperators, NEW duplicates \in SetForms, NEW op
  PROVE  /\ Good(SetNode(l, r, columns, operator, duplicates, op))
         /\ SetNode(l, r, columns, operator, duplicates, op).op = op
         /\ Marked(SetNode(l, r, columns, operator, duplicates, op))
<1> DEFINE slots == [id \in DOMAIN columns |->
                       LET a == l.slots[columns[id][1]]  b == r.slots[columns[id][2]]
                       IN  Slot(a.type, a.null \/ b.null, IF a.origin = b.origin THEN a.origin ELSE Null)]
           pl == Project(l, columns, 1)
           pr == Project(r, columns, 2)
           rows == SetRows(pl, pr, operator, duplicates)
           node == CheckedNode(op, slots, NoGrain, rows)
<1>1. node.op = op /\ node.slots = slots /\ node.grain = NoGrain /\ node.rows = rows
  BY DEF CheckedNode
<1>2. \A id \in DOMAIN columns : columns[id][1] \in DOMAIN l.slots /\ columns[id][2] \in DOMAIN r.slots
  BY DEF Alignments
<1>3. /\ IsBag(pl) /\ \A row \in DOMAIN pl :
                         /\ DOMAIN row = DOMAIN columns
                         /\ \A id \in DOMAIN columns : row[id] = Null => l.slots[columns[id][1]].null
      /\ IsBag(pr) /\ \A row \in DOMAIN pr :
                         /\ DOMAIN row = DOMAIN columns
                         /\ \A id \in DOMAIN columns : row[id] = Null => r.slots[columns[id][2]].null
  BY <1>2, ProjectIsBag
<1>4. IsBag(rows) /\ DOMAIN rows \subseteq DOMAIN pl \cup DOMAIN pr
  <2> HIDE DEF pl, pr
  <2> QED
    BY <1>3, SetRowsIsBag
<1>5. ASSUME NEW id \in DOMAIN columns
      PROVE  /\ slots[id] \in [type : Types, null : BOOLEAN, origin : STRING \cup {Null}]
             /\ slots[id].null <=> l.slots[columns[id][1]].null \/ r.slots[columns[id][2]].null
  <2> DEFINE a == l.slots[columns[id][1]]
             b == r.slots[columns[id][2]]
  <2>1. /\ a \in [type : Types, null : BOOLEAN, origin : STRING \cup {Null}]
        /\ b \in [type : Types, null : BOOLEAN, origin : STRING \cup {Null}]
    BY <1>2 DEF Good, Typed
  <2>2. slots[id] = Slot(a.type, a.null \/ b.null, IF a.origin = b.origin THEN a.origin ELSE Null)
    OBVIOUS
  <2> HIDE DEF a, b, slots
  <2>3. slots[id] \in [type : Types, null : BOOLEAN, origin : STRING \cup {Null}]
    BY <2>1, <2>2 DEF Slot
  <2>4. slots[id].null = (a.null \/ b.null)
    BY <2>2 DEF Slot
  <2> QED
    BY <2>3, <2>4 DEF a, b
<1>6. DOMAIN slots = DOMAIN columns
  OBVIOUS
<1> HIDE DEF slots, pl, pr, rows, node
<1>7. Typed(node)
  BY <1>1, <1>4, <1>5, <1>6 DEF Typed, IsBag
<1>8. NullsFit(node)
  <2> SUFFICES ASSUME NEW row \in DOMAIN rows
               PROVE  DOMAIN row = DOMAIN slots /\ \A s \in DOMAIN row : row[s] = Null => slots[s].null
    BY <1>1 DEF NullsFit
  <2>1. CASE row \in DOMAIN pl
    BY <1>3, <1>5, <1>6, <2>1
  <2>2. CASE row \in DOMAIN pr
    BY <1>3, <1>5, <1>6, <2>2
  <2> QED
    BY <1>4, <2>1, <2>2
<1>9. ~KeysOnly(node)
  BY <1>1 DEF KeysOnly
<1> QED
  BY <1>1, <1>7, <1>8, <1>9 DEF Good, Marked, SetNode, node, slots, rows, pl, pr

-----------------------------------------------------------------------------
(* Composition: what a join of two results on their complete keys keeps.   *)

(* What a join keeps. *)
LEMMA JoinedElements ==
  ASSUME NEW l, NEW r, NEW keys, NEW nulls, NEW domain
  PROVE  LET J == Joined(l, r, keys, nulls, domain)
             Pair(x) == \E a \in DOMAIN l.rows, b \in DOMAIN r.rows :
                           x = <<a, b>> /\ KeysMatch(a, b, keys, nulls)
             Left(x) == /\ domain \in {"union", "left"}
                        /\ \E a \in DOMAIN l.rows : /\ x = [side \in {1} |-> a]
                                                    /\ \A b \in DOMAIN r.rows : ~KeysMatch(a, b, keys, nulls)
             Right(x) == /\ domain \in {"union", "right"}
                         /\ \E b \in DOMAIN r.rows : /\ x = [side \in {2} |-> b]
                                                     /\ \A a \in DOMAIN l.rows : ~KeysMatch(a, b, keys, nulls)
         IN  \A x : x \in J <=> Pair(x) \/ Left(x) \/ Right(x)
<1> DEFINE J == Joined(l, r, keys, nulls, domain)
           pairs == {x \in (DOMAIN l.rows) \X (DOMAIN r.rows) : KeysMatch(x[1], x[2], keys, nulls)}
           lefts == {row \in DOMAIN l.rows : \A x \in pairs : x[1] # row}
           rights == {row \in DOMAIN r.rows : \A x \in pairs : x[2] # row}
<1>1. J = pairs \cup (IF domain \in {"union", "left"} THEN {[side \in {1} |-> row] : row \in lefts} ELSE {})
                \cup (IF domain \in {"union", "right"} THEN {[side \in {2} |-> row] : row \in rights} ELSE {})
  BY DEF Joined
<1>2. \A x : x \in pairs <=> \E a \in DOMAIN l.rows, b \in DOMAIN r.rows :
                                 x = <<a, b>> /\ KeysMatch(a, b, keys, nulls)
  OBVIOUS
<1>3. \A a : a \in lefts <=> a \in DOMAIN l.rows /\ \A b \in DOMAIN r.rows : ~KeysMatch(a, b, keys, nulls)
  <2> HIDE DEF pairs
  <2>1. \A a \in DOMAIN l.rows, b \in DOMAIN r.rows :
           KeysMatch(a, b, keys, nulls) <=> <<a, b>> \in pairs
    BY <1>2
  <2>2. \A x \in pairs : \E b \in DOMAIN r.rows : x = <<x[1], b>> /\ x[1] \in DOMAIN l.rows
    BY <1>2
  <2>3. \A a : a \in lefts <=> a \in DOMAIN l.rows /\ \A x \in pairs : x[1] # a
    OBVIOUS
  <2> HIDE DEF lefts
  <2> QED
    <3>1. ASSUME NEW a \in DOMAIN l.rows, \A b \in DOMAIN r.rows : ~KeysMatch(a, b, keys, nulls)
          PROVE  \A x \in pairs : x[1] # a
      BY <2>1, <2>2, <3>1
    <3>2. ASSUME NEW a, \A x \in pairs : x[1] # a, a \in DOMAIN l.rows, NEW b \in DOMAIN r.rows
          PROVE  ~KeysMatch(a, b, keys, nulls)
      <4>1. <<a, b>>[1] = a
        OBVIOUS
      <4> QED
        BY <2>1, <3>2, <4>1
    <3> QED
      BY <2>3, <3>1, <3>2
<1>4. \A b : b \in rights <=> b \in DOMAIN r.rows /\ \A a \in DOMAIN l.rows : ~KeysMatch(a, b, keys, nulls)
  <2> HIDE DEF pairs
  <2>1. \A a \in DOMAIN l.rows, b \in DOMAIN r.rows :
           KeysMatch(a, b, keys, nulls) <=> <<a, b>> \in pairs
    BY <1>2
  <2>2. \A x \in pairs : \E a \in DOMAIN l.rows : x = <<a, x[2]>> /\ x[2] \in DOMAIN r.rows
    BY <1>2
  <2>3. \A b : b \in rights <=> b \in DOMAIN r.rows /\ \A x \in pairs : x[2] # b
    OBVIOUS
  <2> HIDE DEF rights
  <2> QED
    <3>1. ASSUME NEW b \in DOMAIN r.rows, \A a \in DOMAIN l.rows : ~KeysMatch(a, b, keys, nulls)
          PROVE  \A x \in pairs : x[2] # b
      BY <2>1, <2>2, <3>1
    <3>2. ASSUME NEW b, \A x \in pairs : x[2] # b, b \in DOMAIN r.rows, NEW a \in DOMAIN l.rows
          PROVE  ~KeysMatch(a, b, keys, nulls)
      <4>1. <<a, b>>[2] = b
        OBVIOUS
      <4> QED
        BY <2>1, <3>2, <4>1
    <3> QED
      BY <2>3, <3>1, <3>2
<1> HIDE DEF J, pairs, lefts, rights
<1> QED
  BY <1>1, <1>2, <1>3, <1>4 DEF J

(* A join of finitely many rows keeps finitely many. *)
LEMMA JoinedFinite ==
  ASSUME NEW l, NEW r, IsFiniteSet(DOMAIN l.rows), IsFiniteSet(DOMAIN r.rows),
         NEW keys, NEW nulls, NEW domain
  PROVE  IsFiniteSet(Joined(l, r, keys, nulls, domain))
<1> DEFINE A == [row \in DOMAIN l.rows |-> [side \in {1} |-> row]]
           B == [row \in DOMAIN r.rows |-> [side \in {2} |-> row]]
           all == ((DOMAIN l.rows) \X (DOMAIN r.rows)) \cup {A[row] : row \in DOMAIN l.rows}
                     \cup {B[row] : row \in DOMAIN r.rows}
<1>1. IsFiniteSet((DOMAIN l.rows) \X (DOMAIN r.rows))
  BY FS_Product
<1>2. IsFiniteSet({A[row] : row \in DOMAIN l.rows})
  <2>1. DOMAIN l.rows \subseteq DOMAIN A
    OBVIOUS
  <2> HIDE DEF A
  <2> QED
    BY <2>1, ImageFinite
<1>3. IsFiniteSet({B[row] : row \in DOMAIN r.rows})
  <2>1. DOMAIN r.rows \subseteq DOMAIN B
    OBVIOUS
  <2> HIDE DEF B
  <2> QED
    BY <2>1, ImageFinite
<1>4. IsFiniteSet(all)
  <2> HIDE DEF A, B
  <2> QED
    BY <1>1, <1>2, <1>3, FS_Union
<1>5. Joined(l, r, keys, nulls, domain) \subseteq all
  BY JoinedElements
<1> QED
  BY <1>4, <1>5, FS_Subset

-----------------------------------------------------------------------------
(* What keys align are the complete grains of both sides. *)
LEMMA KeysAlign ==
  ASSUME NEW l, NEW r, Good(l), Good(r), l.grain # NoGrain, r.grain # NoGrain,
         NEW keys \in KeyAlignments(l, r)
  PROVE  /\ DOMAIN keys \subseteq Ids /\ IsFiniteSet(DOMAIN keys)
         /\ \A id \in DOMAIN keys : keys[id][1] \in l.grain /\ keys[id][2] \in r.grain
         /\ \A s \in l.grain : \E id \in DOMAIN keys : keys[id][1] = s
         /\ \A s \in r.grain : \E id \in DOMAIN keys : keys[id][2] = s
         /\ l.grain \subseteq DOMAIN l.slots /\ r.grain \subseteq DOMAIN r.slots
<1>1. /\ DOMAIN keys \subseteq Ids
      /\ \A id \in DOMAIN keys : keys[id][1] \in l.grain /\ keys[id][2] \in r.grain
  BY DEF KeyAlignments
<1>2. /\ {keys[id][1] : id \in DOMAIN keys} = l.grain
      /\ {keys[id][2] : id \in DOMAIN keys} = r.grain
  BY DEF KeyAlignments
<1>3. /\ \A s \in l.grain : \E id \in DOMAIN keys : keys[id][1] = s
      /\ \A s \in r.grain : \E id \in DOMAIN keys : keys[id][2] = s
  BY <1>2
<1>4. IsFiniteSet(DOMAIN keys)
  BY <1>1, GraphAssumption, FS_Subset
<1> QED
  BY <1>1, <1>3, <1>4 DEF Good, Typed

(* If they repeat no field then they identify the rows of both sides. *)
LEMMA KeysIdentify ==
  ASSUME NEW l, NEW r, Good(l), Good(r), l.grain # NoGrain, r.grain # NoGrain,
         NEW keys \in KeyAlignments(l, r), ~RepeatsField(keys, l, r), Marked(l), Marked(r)
  PROVE  Identified(l) /\ Identified(r)
<1>1. \A a, b \in DOMAIN keys :
         a # b => /\ l.slots[keys[a][1]].origin # l.slots[keys[b][1]].origin
                  /\ r.slots[keys[a][2]].origin # r.slots[keys[b][2]].origin
  BY DEF RepeatsField
<1>2. ASSUME NEW s \in l.grain, NEW t \in l.grain, s # t
      PROVE  l.slots[s].origin # l.slots[t].origin
  <2>1. PICK a \in DOMAIN keys, b \in DOMAIN keys : keys[a][1] = s /\ keys[b][1] = t
    BY KeysAlign
  <2> QED
    BY <1>1, <1>2, <2>1
<1>3. ASSUME NEW s \in r.grain, NEW t \in r.grain, s # t
      PROVE  r.slots[s].origin # r.slots[t].origin
  <2>1. PICK a \in DOMAIN keys, b \in DOMAIN keys : keys[a][2] = s /\ keys[b][2] = t
    BY KeysAlign
  <2> QED
    BY <1>1, <1>3, <2>1
<1> QED
  BY <1>2, <1>3 DEF Marked, KeysOnly

(* What a join keeps has a row of a side, and its key tuple is the one of each side it has. *)
LEMMA JoinedHas ==
  ASSUME NEW l, NEW r, NEW keys, NEW nulls, NEW domain,
         NEW x \in Joined(l, r, keys, nulls, domain)
  PROVE  /\ DOMAIN x \in {{1, 2}, {1}, {2}}
         /\ 1 \in DOMAIN x => /\ x[1] \in DOMAIN l.rows
                              /\ \A id \in DOMAIN keys : MergedKey(x, keys[id]) = x[1][keys[id][1]]
         /\ 2 \in DOMAIN x => /\ x[2] \in DOMAIN r.rows
                              /\ \A id \in DOMAIN keys : MergedKey(x, keys[id]) = x[2][keys[id][2]]
<1>1. CASE \E a \in DOMAIN l.rows, b \in DOMAIN r.rows : x = <<a, b>> /\ KeysMatch(a, b, keys, nulls)
  <2>1. PICK a \in DOMAIN l.rows, b \in DOMAIN r.rows : x = <<a, b>> /\ KeysMatch(a, b, keys, nulls)
    BY <1>1
  <2>2. \A id \in DOMAIN keys : a[keys[id][1]] = b[keys[id][2]]
    BY <2>1 DEF KeysMatch
  <2>3. DOMAIN x = {1, 2} /\ x[1] = a /\ x[2] = b
    BY <2>1
  <2> QED
    BY <2>2, <2>3 DEF MergedKey
<1>2. CASE \E a \in DOMAIN l.rows : x = [side \in {1} |-> a]
  BY <1>2 DEF MergedKey
<1>3. CASE \E b \in DOMAIN r.rows : x = [side \in {2} |-> b]
  BY <1>3 DEF MergedKey
<1> QED
  BY <1>1, <1>2, <1>3, JoinedElements

(* Rows of one side with the same keys are the same row. *)
LEMMA SameKeys ==
  ASSUME NEW l, NEW r, Good(l), Good(r), l.grain # NoGrain, r.grain # NoGrain,
         Identified(l), Identified(r),
         NEW keys \in KeyAlignments(l, r)
  PROVE  /\ \A a, o \in DOMAIN l.rows :
               (\A id \in DOMAIN keys : a[keys[id][1]] = o[keys[id][1]]) => a = o
         /\ \A b, o \in DOMAIN r.rows :
               (\A id \in DOMAIN keys : b[keys[id][2]] = o[keys[id][2]]) => b = o
<1>0. /\ \A s \in l.grain : \E id \in DOMAIN keys : keys[id][1] = s
      /\ \A s \in r.grain : \E id \in DOMAIN keys : keys[id][2] = s
  BY KeysAlign
<1>1. ASSUME NEW a \in DOMAIN l.rows, NEW o \in DOMAIN l.rows,
             \A id \in DOMAIN keys : a[keys[id][1]] = o[keys[id][1]]
      PROVE  a = o
  <2>1. \A s \in l.grain : a[s] = o[s]
    BY <1>0, <1>1
  <2> QED
    BY <2>1, KeysAlign DEF Identified
<1>2. ASSUME NEW b \in DOMAIN r.rows, NEW o \in DOMAIN r.rows,
             \A id \in DOMAIN keys : b[keys[id][2]] = o[keys[id][2]]
      PROVE  b = o
  <2>1. \A s \in r.grain : b[s] = o[s]
    BY <1>0, <1>2
  <2> QED
    BY <2>1, KeysAlign DEF Identified
<1> QED
  BY <1>1, <1>2

(* If the keys of a composition are its grain then no two of its groups have the same keys. *)
LEMMA GroupsDiffer ==
  ASSUME NEW l, NEW r, Good(l), Good(r), l.grain # NoGrain, r.grain # NoGrain,
         Identified(l), Identified(r),
         NEW c, c.keys \in KeyAlignments(l, r), c.nulls \in {"match", "never_match"},
         ComposedGrain(l, r, c) # NoGrain,
         NEW x \in Joined(l, r, c.keys, c.nulls, c.domain),
         NEW y \in Joined(l, r, c.keys, c.nulls, c.domain),
         \A id \in DOMAIN c.keys : MergedKey(x, c.keys[id]) = MergedKey(y, c.keys[id])
  PROVE  x = y
<1> DEFINE K == c.keys
           IsPair(z) == \E a \in DOMAIN l.rows, b \in DOMAIN r.rows :
                           z = <<a, b>> /\ KeysMatch(a, b, K, c.nulls)
           IsLeft(z) == /\ c.domain \in {"union", "left"}
                        /\ \E a \in DOMAIN l.rows : /\ z = [side \in {1} |-> a]
                                                    /\ \A b \in DOMAIN r.rows : ~KeysMatch(a, b, K, c.nulls)
           IsRight(z) == /\ c.domain \in {"union", "right"}
                         /\ \E b \in DOMAIN r.rows : /\ z = [side \in {2} |-> b]
                                                     /\ \A a \in DOMAIN l.rows : ~KeysMatch(a, b, K, c.nulls)
           J == Joined(l, r, K, c.nulls, c.domain)
<1>1. \A z \in J : IsPair(z) \/ IsLeft(z) \/ IsRight(z)
  BY JoinedElements
<1>2. ASSUME NEW z \in J, NEW o \in J, 1 \in DOMAIN z, 1 \in DOMAIN o,
             \A id \in DOMAIN K : MergedKey(z, K[id]) = MergedKey(o, K[id])
      PROVE  z[1] = o[1]
  <2>1. z[1] \in DOMAIN l.rows /\ o[1] \in DOMAIN l.rows
        /\ \A id \in DOMAIN K : z[1][K[id][1]] = o[1][K[id][1]]
    BY <1>2, JoinedHas
  <2> QED
    BY <2>1, SameKeys
<1>3. ASSUME NEW z \in J, NEW o \in J, 2 \in DOMAIN z, 2 \in DOMAIN o,
             \A id \in DOMAIN K : MergedKey(z, K[id]) = MergedKey(o, K[id])
      PROVE  z[2] = o[2]
  <2>1. z[2] \in DOMAIN r.rows /\ o[2] \in DOMAIN r.rows
        /\ \A id \in DOMAIN K : z[2][K[id][2]] = o[2][K[id][2]]
    BY <1>3, JoinedHas
  <2> QED
    BY <2>1, SameKeys
<1>4. \A z : IsPair(z) => DOMAIN z = {1, 2} /\ z = <<z[1], z[2]>> /\ z[1] \in DOMAIN l.rows
                         /\ z[2] \in DOMAIN r.rows /\ KeysMatch(z[1], z[2], K, c.nulls)
  OBVIOUS
<1>5. \A z : IsLeft(z) => DOMAIN z = {1} /\ z = [side \in {1} |-> z[1]] /\ z[1] \in DOMAIN l.rows
                         /\ \A b \in DOMAIN r.rows : ~KeysMatch(z[1], b, K, c.nulls)
  OBVIOUS
<1>6. \A z : IsRight(z) => DOMAIN z = {2} /\ z = [side \in {2} |-> z[2]] /\ z[2] \in DOMAIN r.rows
                         /\ \A a \in DOMAIN l.rows : ~KeysMatch(a, z[2], K, c.nulls)
  OBVIOUS
(* A group that is on the left only is not also on the right only: its keys would match. *)
<1>7. ASSUME NEW z \in J, NEW o \in J, IsLeft(z), IsRight(o),
             \A id \in DOMAIN K : MergedKey(z, K[id]) = MergedKey(o, K[id])
      PROVE  FALSE
  <2>1. /\ z[1] \in DOMAIN l.rows /\ o[2] \in DOMAIN r.rows
        /\ \A id \in DOMAIN K : z[1][K[id][1]] = o[2][K[id][2]]
    <3>1. 1 \in DOMAIN z /\ 2 \in DOMAIN o
      BY <1>5, <1>6, <1>7
    <3> HIDE DEF IsLeft, IsRight
    <3> QED
      BY <1>7, <3>1, JoinedHas
  <2>2. c.domain = "union"
    BY <1>7
  <2>3. ASSUME c.nulls = "never_match", NEW id \in DOMAIN K
        PROVE  z[1][K[id][1]] # Null
    <3>1. ~l.slots[K[id][1]].null
      BY <2>2, <2>3 DEF ComposedGrain
    <3>2. K[id][1] \in DOMAIN l.slots
      BY KeysAlign
    <3> QED
      BY <2>1, <3>1, <3>2 DEF Good, NullsFit
  <2>4. KeysMatch(z[1], o[2], K, c.nulls)
    BY <2>1, <2>3 DEF KeysMatch
  <2>5. ~KeysMatch(z[1], o[2], K, c.nulls)
    <3> HIDE DEF IsRight
    <3> QED
      BY <1>5, <1>7, <2>1
  <2> QED
    BY <2>4, <2>5
<1> HIDE DEF IsPair, IsLeft, IsRight, J, K
<1>8. CASE IsPair(x)
  <2>1. CASE IsPair(y)
    BY <1>2, <1>3, <1>4, <1>8, <2>1 DEF K, J
  <2>2. CASE IsLeft(y)
    BY <1>2, <1>4, <1>5, <1>8, <2>2 DEF K, J
  <2>3. CASE IsRight(y)
    BY <1>3, <1>4, <1>6, <1>8, <2>3 DEF K, J
  <2> QED
    BY <1>1, <2>1, <2>2, <2>3 DEF K, J
<1>9. CASE IsLeft(x)
  <2>1. CASE IsPair(y)
    BY <1>2, <1>4, <1>5, <1>9, <2>1 DEF K, J
  <2>2. CASE IsLeft(y)
    BY <1>2, <1>5, <1>9, <2>2 DEF K, J
  <2>3. CASE IsRight(y)
    BY <1>7, <1>9, <2>3 DEF K, J
  <2> QED
    BY <1>1, <2>1, <2>2, <2>3 DEF K, J
<1>10. CASE IsRight(x)
  <2>1. CASE IsPair(y)
    BY <1>3, <1>4, <1>6, <1>10, <2>1 DEF K, J
  <2>2. CASE IsLeft(y)
    <3>1. \A id \in DOMAIN K : MergedKey(y, K[id]) = MergedKey(x, K[id])
      BY DEF K
    <3> QED
      BY <1>7, <1>10, <2>2, <3>1 DEF K, J
  <2>3. CASE IsRight(y)
    BY <1>3, <1>6, <1>10, <2>3 DEF K, J
  <2> QED
    BY <1>1, <2>1, <2>2, <2>3 DEF K, J
<1> QED
  BY <1>1, <1>8, <1>9, <1>10 DEF K, J

-----------------------------------------------------------------------------
(* The row of a group, as ComposedRows makes it. *)
GroupRow(x, c) == [id \in DOMAIN c.keys \cup {"value"} |->
                      IF id = "value" THEN Measure(x, c.output) ELSE MergedKey(x, c.keys[id])]

(* How often a join keeps a group: as often as the rows of both sides occur. *)
Multiplicity(J, l, r) == [x \in J |-> (IF 1 \in DOMAIN x THEN l.rows[x[1]] ELSE 1)
                                  * (IF 2 \in DOMAIN x THEN r.rows[x[2]] ELSE 1)]

(* The rows of a composition are a bag. *)
LEMMA ComposedRowsBag ==
  ASSUME NEW l, NEW r, Good(l), Good(r), NEW c, NEW J, J = Joined(l, r, c.keys, c.nulls, c.domain)
  PROVE  /\ IsFiniteSet(J) /\ IsBag(Multiplicity(J, l, r)) /\ DOMAIN Multiplicity(J, l, r) = J
         /\ ComposedRows(l, r, c) = BagImage([x \in J |-> GroupRow(x, c)], Multiplicity(J, l, r))
<1>1. IsFiniteSet(J)
  <2>1. IsFiniteSet(DOMAIN l.rows) /\ IsFiniteSet(DOMAIN r.rows)
    BY DEF Good, Typed
  <2> QED
    BY <2>1, JoinedFinite
<1>2. ComposedRows(l, r, c) = BagImage([x \in J |-> GroupRow(x, c)], Multiplicity(J, l, r))
  BY DEF ComposedRows, GroupRow, Multiplicity
<1>3. \A m, n \in Nat \ {0} : m * n \in Nat \ {0}
  OBVIOUS
<1>4. ASSUME NEW x \in J PROVE Multiplicity(J, l, r)[x] \in Nat \ {0}
  <2> DEFINE m == IF 1 \in DOMAIN x THEN l.rows[x[1]] ELSE 1
             n == IF 2 \in DOMAIN x THEN r.rows[x[2]] ELSE 1
  <2>1. m \in Nat \ {0} /\ n \in Nat \ {0}
    BY JoinedHas DEF Good, Typed
  <2>2. Multiplicity(J, l, r)[x] = m * n
    BY DEF Multiplicity
  <2> HIDE DEF m, n
  <2> QED
    BY <1>3, <2>1, <2>2
<1>5. DOMAIN Multiplicity(J, l, r) = J
  BY DEF Multiplicity
<1> QED
  BY <1>1, <1>2, <1>4, <1>5 DEF IsBag

(* If keys identify the rows of both sides then a join keeps every group once. *)
LEMMA ComposedRowsAre ==
  ASSUME NEW l, NEW r, Good(l), Good(r), Identified(l), Identified(r),
         NEW c, NEW J, J = Joined(l, r, c.keys, c.nulls, c.domain)
  PROVE  /\ IsFiniteSet(J)
         /\ ComposedRows(l, r, c) = BagImage([x \in J |-> GroupRow(x, c)], Once(J))
<1>1. ASSUME NEW x \in J PROVE Multiplicity(J, l, r)[x] = 1
  <2>1. 1 \in DOMAIN x => l.rows[x[1]] = 1
    BY JoinedHas DEF Identified
  <2>2. 2 \in DOMAIN x => r.rows[x[2]] = 1
    BY JoinedHas DEF Identified
  <2> QED
    BY <2>1, <2>2 DEF Multiplicity
<1>2. Multiplicity(J, l, r) = Once(J)
  BY <1>1 DEF Once, Multiplicity
<1> QED
  BY <1>2, ComposedRowsBag

(* A composition keeps the promises of a node; if it claims a grain, this identifies its rows
   wherever the grains of its inputs do. *)
LEMMA ComposeIsGood ==
  ASSUME NEW l, NEW r, Good(l), Good(r), l.grain # NoGrain, r.grain # NoGrain,
         NEW c, c.keys \in KeyAlignments(l, r), c.nulls \in {"match", "never_match"},
         NEW type \in Types
  PROVE  LET node == CheckedNode(c,
                       [id \in DOMAIN c.keys \cup {"value"} |->
                          IF id = "value" THEN Slot(type, TRUE, Null)
                          ELSE [l.slots[c.keys[id][1]] EXCEPT !.null = TRUE]],
                       ComposedGrain(l, r, c), ComposedRows(l, r, c))
         IN  /\ Good(node) /\ node.op = c
             /\ Identified(l) /\ Identified(r) /\ node.grain # NoGrain => Identified(node)
<1> DEFINE slots == [id \in DOMAIN c.keys \cup {"value"} |->
                       IF id = "value" THEN Slot(type, TRUE, Null)
                       ELSE [l.slots[c.keys[id][1]] EXCEPT !.null = TRUE]]
           node == CheckedNode(c, slots, ComposedGrain(l, r, c), ComposedRows(l, r, c))
           groups == Joined(l, r, c.keys, c.nulls, c.domain)
           image == [x \in groups |-> GroupRow(x, c)]
<1>1. /\ node.op = c /\ node.slots = slots /\ node.grain = ComposedGrain(l, r, c)
      /\ node.rows = ComposedRows(l, r, c)
  BY DEF CheckedNode
<1>2. DOMAIN c.keys \subseteq Ids /\ "value" \notin DOMAIN c.keys /\ IsFiniteSet(DOMAIN c.keys)
      /\ \A id \in DOMAIN c.keys : c.keys[id][1] \in DOMAIN l.slots
  BY KeysAlign, GraphAssumption
<1>3. /\ IsBag(Multiplicity(groups, l, r)) /\ DOMAIN Multiplicity(groups, l, r) = groups /\ DOMAIN image = groups
      /\ IsFiniteSet(groups) /\ node.rows = BagImage(image, Multiplicity(groups, l, r))
  <2>1. /\ IsBag(Multiplicity(groups, l, r)) /\ DOMAIN Multiplicity(groups, l, r) = groups /\ IsFiniteSet(groups)
        /\ ComposedRows(l, r, c) = BagImage(image, Multiplicity(groups, l, r))
    <3> HIDE DEF node, slots
    <3> QED
      BY ComposedRowsBag
  <2>2. DOMAIN image = groups
    OBVIOUS
  <2> HIDE DEF node, groups, image
  <2> QED
    BY <1>1, <2>1, <2>2
<1>4. IsBag(node.rows) /\ \A y : y \in DOMAIN node.rows <=> \E x \in groups : y = image[x]
  <2> HIDE DEF groups, image, node
  <2> QED
    BY <1>3, BagImageIsBag
<1>5. ASSUME NEW x \in groups
      PROVE  /\ DOMAIN image[x] = DOMAIN c.keys \cup {"value"}
             /\ \A id \in DOMAIN c.keys : image[x][id] = MergedKey(x, c.keys[id])
  BY <1>2 DEF GroupRow
<1>6. ASSUME NEW s \in DOMAIN slots
      PROVE  /\ slots[s] \in [type : Types, null : BOOLEAN, origin : STRING \cup {Null}]
             /\ slots[s].null = TRUE
  <2>1. CASE s = "value"
    BY <2>1 DEF Slot
  <2>2. CASE s # "value"
    <3>1. slots[s] = [l.slots[c.keys[s][1]] EXCEPT !.null = TRUE]
      BY <2>2
    <3>2. l.slots[c.keys[s][1]] \in [type : Types, null : BOOLEAN, origin : STRING \cup {Null}]
      BY <1>2, <2>2 DEF Good, Typed
    <3> HIDE DEF slots
    <3> QED
      BY <3>1, <3>2
  <2> QED
    BY <2>1, <2>2
<1>7. DOMAIN slots = DOMAIN c.keys \cup {"value"}
  OBVIOUS
<1>8. node.grain # NoGrain => node.grain = DOMAIN c.keys
  BY <1>1 DEF ComposedGrain
<1>9. ASSUME Identified(l), Identified(r), node.grain # NoGrain PROVE Identified(node)
  <2>1. ASSUME NEW x \in groups, NEW y \in groups, \A id \in DOMAIN c.keys : image[x][id] = image[y][id]
        PROVE  x = y
    <3>1. \A id \in DOMAIN c.keys : MergedKey(x, c.keys[id]) = MergedKey(y, c.keys[id])
      BY <1>5, <2>1
    <3>2. ComposedGrain(l, r, c) # NoGrain
      BY <1>1, <1>9
    <3> QED
      BY <1>9, <3>1, <3>2, GroupsDiffer
  <2>2. \A x \in groups : node.rows[image[x]] = 1
    <3>1. \A x, y \in groups : image[x] = image[y] => x = y
      <4> HIDE DEF groups, image
      <4> QED
        BY <2>1
    <3>2. node.rows = BagImage(image, Once(groups))
      <4>1. ComposedRows(l, r, c) = BagImage(image, Once(groups))
        <5> HIDE DEF node, slots
        <5> QED
          BY <1>9, ComposedRowsAre
      <4> HIDE DEF node, groups, image
      <4> QED
        BY <1>1, <4>1
    <3>3. IsBag(Once(groups)) /\ DOMAIN Once(groups) = groups /\ \A x \in groups : Once(groups)[x] = 1
      <4> HIDE DEF groups
      <4> QED
        BY <1>3, OnceIsBag
    <3> HIDE DEF groups, image, node
    <3> QED
      BY <1>3, <3>1, <3>2, <3>3, BagImageInjective
  <2> HIDE DEF groups, image, node, slots
  <2> QED
    BY <1>4, <1>8, <1>9, <2>1, <2>2 DEF Identified
<1> HIDE DEF groups, image, node, slots
<1>10. Typed(node)
  BY <1>1, <1>2, <1>4, <1>6, <1>7, <1>8 DEF Typed, IsBag
<1>11. NullsFit(node)
  <2>1. \A row \in DOMAIN node.rows : DOMAIN row = DOMAIN slots
    <3>1. \A x \in groups : DOMAIN image[x] = DOMAIN slots
      BY <1>5, <1>7
    <3> QED
      BY <1>4, <3>1
  <2> QED
    BY <1>1, <1>6, <2>1 DEF NullsFit
<1> QED
  BY <1>1, <1>9, <1>10, <1>11 DEF Good, node, slots

-----------------------------------------------------------------------------
(* Two ways to make the same rows of as many elements give the same bag. *)
LEMMA SameBag ==
  ASSUME NEW S, NEW T, NEW b \in Bijection(S, T), IsFiniteSet(S), NEW f, NEW g, DOMAIN f = S, DOMAIN g = T,
         \A x \in S : f[x] = g[b[x]]
  PROVE  BagImage(f, Once(S)) = BagImage(g, Once(T))
<1>1. b \in [S -> T] /\ (\A x, y \in S : b[x] = b[y] => x = y) /\ \A y \in T : \E x \in S : b[x] = y
  BY DEF Bijection, Injection, Surjection, IsInjective
<1>2. DOMAIN Once(S) = S /\ DOMAIN Once(T) = T
  BY DEF Once
<1>3. /\ \A o : o \in Numbered(Once(S)) <=> \E x \in S : o = <<x, 1>>
      /\ \A o : o \in Numbered(Once(T)) <=> \E x \in T : o = <<x, 1>>
  <2>1. \A U, o : o \in Numbered(Once(U)) <=> \E x \in U : o = <<x, 1>>
    <3> TAKE U, o
    <3>1. DOMAIN Once(U) = U /\ \A x \in U : Once(U)[x] = 1 /\ 1 .. 1 = {1}
      BY DEF Once
    <3>2. o \in Numbered(Once(U)) <=> \E x \in U : \E n \in 1 .. Once(U)[x] : o = <<x, n>>
      BY <3>1, NumberedElements
    <3> QED
      BY <3>1, <3>2
  <2> QED
    BY <2>1
<1>4. {f[x] : x \in S} = {g[x] : x \in T}
  BY <1>1
<1>5. ASSUME NEW y
      PROVE  Cardinality({o \in Numbered(Once(S)) : f[o[1]] = y}) = Cardinality({o \in Numbered(Once(T)) : g[o[1]] = y})
  <2> DEFINE A == {o \in Numbered(Once(S)) : f[o[1]] = y}
             B == {o \in Numbered(Once(T)) : g[o[1]] = y}
             h == [o \in A |-> <<b[o[1]], 1>>]
  <2>1. \A o : o \in A <=> \E x \in S : o = <<x, 1>> /\ f[x] = y
    BY <1>3
  <2>2. \A o : o \in B <=> \E x \in T : o = <<x, 1>> /\ g[x] = y
    BY <1>3
  <2>3. h \in [A -> B]
    <3> SUFFICES ASSUME NEW o \in A PROVE <<b[o[1]], 1>> \in B
      OBVIOUS
    <3>1. PICK x \in S : o = <<x, 1>> /\ f[x] = y
      BY <2>1
    <3>2. b[x] \in T /\ g[b[x]] = y
      BY <1>1, <3>1
    <3> HIDE DEF A, B
    <3> QED
      BY <2>2, <3>1, <3>2
  <2>4. \A o, p \in A : h[o] = h[p] => o = p
    <3> SUFFICES ASSUME NEW o \in A, NEW p \in A, h[o] = h[p] PROVE o = p
      OBVIOUS
    <3>1. PICK x \in S, z \in S : o = <<x, 1>> /\ p = <<z, 1>>
      BY <2>1
    <3>2. b[x] = b[z]
      BY <3>1
    <3> QED
      BY <1>1, <3>1, <3>2
  <2>5. \A p \in B : \E o \in A : h[o] = p
    <3> SUFFICES ASSUME NEW p \in B PROVE \E o \in A : h[o] = p
      OBVIOUS
    <3>1. PICK z \in T : p = <<z, 1>> /\ g[z] = y
      BY <2>2
    <3>2. PICK x \in S : b[x] = z
      BY <1>1
    <3>3. <<x, 1>> \in A
      BY <2>1, <3>1, <3>2
    <3>4. h[<<x, 1>>] = p
      BY <3>1, <3>2, <3>3
    <3> QED
      BY <3>3, <3>4
  <2>6. IsFiniteSet(A)
    <3>1. IsFiniteSet(Numbered(Once(S)))
      BY OnceIsBag, NumberedFinite
    <3> QED
      BY <3>1, FS_Subset
  <2> HIDE DEF A, B, h
  <2>7. h \in Bijection(A, B)
    BY <2>3, <2>4, <2>5 DEF Bijection, Injection, Surjection, IsInjective
  <2> QED
    BY <2>6, <2>7, FS_Bijection DEF ExistsBijection, A, B
<1> DEFINE X == {f[x] : x \in S}
           Y == {g[x] : x \in T}
           N(y) == Cardinality({o \in Numbered(Once(S)) : f[o[1]] = y})
           M(y) == Cardinality({o \in Numbered(Once(T)) : g[o[1]] = y})
<1>6. BagImage(f, Once(S)) = [y \in X |-> N(y)] /\ BagImage(g, Once(T)) = [y \in Y |-> M(y)]
  BY <1>2 DEF BagImage
<1>7. X = Y /\ \A y : N(y) = M(y)
  BY <1>4, <1>5
<1> HIDE DEF X, Y, N, M
<1> QED
  BY <1>6, <1>7

-----------------------------------------------------------------------------
(* Each group that a composition keeps is a key tuple with the sides that have it. *)
LEMMA ComposeKeepsGroups ==
  ASSUME NEW l, NEW r, Good(l), Good(r), l.grain # NoGrain, r.grain # NoGrain,
         Identified(l), Identified(r),
         NEW node, node.op.keys \in KeyAlignments(l, r), node.op.output.side \in {1, 2},
         node.rows = ComposedRows(l, r, node.op)
  PROVE  GroupsKept(node, l, r)
<1> DEFINE side(k) == IF k = 1 THEN DOMAIN l.rows ELSE DOMAIN r.rows
           tuple(row, k) == [id \in DOMAIN node.op.keys |-> row[node.op.keys[id][k]]]
           tuples(k) == {tuple(row, k) : row \in side(k)}
           joins(t) == node.op.nulls = "match" \/ \A id \in DOMAIN t : t[id] # Null
           both == {t \in tuples(1) \cap tuples(2) : joins(t)}
           groups == (both \X {{1, 2}})
               \cup (IF node.op.domain \in {"union", "left"} THEN (tuples(1) \ both) \X {{1}} ELSE {})
               \cup (IF node.op.domain \in {"union", "right"} THEN (tuples(2) \ both) \X {{2}} ELSE {})
           own(t) == CHOOSE row \in side(node.op.output.side) : tuple(row, node.op.output.side) = t[1]
           measure(t) == IF node.op.output.side \in t[2] THEN own(t)[node.op.output.slot]
                         ELSE IF node.op.output.missing = "zero" THEN 0 ELSE Null
           group(t) == [id \in DOMAIN node.op.keys \cup {"value"} |-> IF id = "value" THEN measure(t) ELSE t[1][id]]
           J == Joined(l, r, node.op.keys, node.op.nulls, node.op.domain)
           key(x) == [id \in DOMAIN node.op.keys |-> MergedKey(x, node.op.keys[id])]
           told == [x \in J |-> <<key(x), DOMAIN x>>]
<1>1. IsFiniteSet(J) /\ node.rows = BagImage([x \in J |-> GroupRow(x, node.op)], Once(J))
  BY ComposedRowsAre
<1>2. SUFFICES BagImage([x \in J |-> GroupRow(x, node.op)], Once(J)) = BagImage([t \in groups |-> group(t)], Once(groups))
  BY <1>1 DEF GroupsKept
(* Keys match if the tuples are equal and may join. *)
<1>3. ASSUME NEW a \in DOMAIN l.rows, NEW b \in DOMAIN r.rows
      PROVE  KeysMatch(a, b, node.op.keys, node.op.nulls) <=> tuple(a, 1) = tuple(b, 2) /\ joins(tuple(a, 1))
  <2>1. tuple(a, 1) = tuple(b, 2) <=> \A id \in DOMAIN node.op.keys : a[node.op.keys[id][1]] = b[node.op.keys[id][2]]
    <3>1. ASSUME tuple(a, 1) = tuple(b, 2), NEW id \in DOMAIN node.op.keys
          PROVE  a[node.op.keys[id][1]] = b[node.op.keys[id][2]]
      <4>1. tuple(a, 1)[id] = a[node.op.keys[id][1]] /\ tuple(b, 2)[id] = b[node.op.keys[id][2]]
        OBVIOUS
      <4> HIDE DEF tuple
      <4> QED
        BY <3>1, <4>1
    <3> QED
      BY <3>1
  <2>2. joins(tuple(a, 1)) <=> node.op.nulls = "match" \/ \A id \in DOMAIN node.op.keys : a[node.op.keys[id][1]] # Null
    OBVIOUS
  <2> HIDE DEF tuple, joins
  <2> QED
    BY <2>1, <2>2 DEF KeysMatch
<1>4. \A x \in J : /\ 1 \in DOMAIN x => x[1] \in DOMAIN l.rows /\ key(x) = tuple(x[1], 1)
                   /\ 2 \in DOMAIN x => x[2] \in DOMAIN r.rows /\ key(x) = tuple(x[2], 2)
  BY JoinedHas
<1>5. /\ \A t : t \in both <=> /\ \E a \in DOMAIN l.rows : t = tuple(a, 1)
                               /\ \E b \in DOMAIN r.rows : t = tuple(b, 2)
                               /\ joins(t)
      /\ \A t : t \in tuples(1) <=> \E a \in DOMAIN l.rows : t = tuple(a, 1)
      /\ \A t : t \in tuples(2) <=> \E b \in DOMAIN r.rows : t = tuple(b, 2)
  <2>1. side(1) = DOMAIN l.rows /\ side(2) = DOMAIN r.rows
    OBVIOUS
  <2> HIDE DEF side, tuple, joins
  <2> QED
    BY <2>1
<1>6. \A t : t \in groups <=> \/ t[1] \in both /\ t = <<t[1], {1, 2}>>
                              \/ node.op.domain \in {"union", "left"} /\ t[1] \in tuples(1) \ both /\ t = <<t[1], {1}>>
                              \/ node.op.domain \in {"union", "right"} /\ t[1] \in tuples(2) \ both /\ t = <<t[1], {2}>>
  <2> HIDE DEF both, tuples
  <2> QED
    OBVIOUS
<1>7. \A x \in J :    \/ /\ DOMAIN x = {1, 2} /\ x = <<x[1], x[2]>>
                         /\ x[1] \in DOMAIN l.rows /\ x[2] \in DOMAIN r.rows
                         /\ KeysMatch(x[1], x[2], node.op.keys, node.op.nulls)
                      \/ /\ node.op.domain \in {"union", "left"}
                         /\ DOMAIN x = {1} /\ x = [s \in {1} |-> x[1]] /\ x[1] \in DOMAIN l.rows
                         /\ \A b \in DOMAIN r.rows : ~KeysMatch(x[1], b, node.op.keys, node.op.nulls)
                      \/ /\ node.op.domain \in {"union", "right"}
                         /\ DOMAIN x = {2} /\ x = [s \in {2} |-> x[2]] /\ x[2] \in DOMAIN r.rows
                         /\ \A a \in DOMAIN l.rows : ~KeysMatch(a, x[2], node.op.keys, node.op.nulls)
  <2> TAKE x \in J
  <2>1. CASE \E a \in DOMAIN l.rows, b \in DOMAIN r.rows :
               x = <<a, b>> /\ KeysMatch(a, b, node.op.keys, node.op.nulls)
    BY <2>1
  <2>2. CASE /\ node.op.domain \in {"union", "left"}
             /\ \E a \in DOMAIN l.rows : /\ x = [side_ \in {1} |-> a]
                                         /\ \A b \in DOMAIN r.rows : ~KeysMatch(a, b, node.op.keys, node.op.nulls)
    BY <2>2
  <2>3. CASE /\ node.op.domain \in {"union", "right"}
             /\ \E b \in DOMAIN r.rows : /\ x = [side_ \in {2} |-> b]
                                         /\ \A a \in DOMAIN l.rows : ~KeysMatch(a, b, node.op.keys, node.op.nulls)
    BY <2>3
  <2> HIDE DEF side, tuple, tuples, joins, both, groups, measure, group, key, told
  <2> QED
    BY <2>1, <2>2, <2>3, JoinedElements
<1>16. /\ \A a \in DOMAIN l.rows, b \in DOMAIN r.rows :
             KeysMatch(a, b, node.op.keys, node.op.nulls) => <<a, b>> \in J
       /\ \A a \in DOMAIN l.rows :
             node.op.domain \in {"union", "left"} /\ (\A b \in DOMAIN r.rows : ~KeysMatch(a, b, node.op.keys, node.op.nulls))
                => [s \in {1} |-> a] \in J
       /\ \A b \in DOMAIN r.rows :
             node.op.domain \in {"union", "right"} /\ (\A a \in DOMAIN l.rows : ~KeysMatch(a, b, node.op.keys, node.op.nulls))
                => [s \in {2} |-> b] \in J
  <2> HIDE DEF side, tuple, tuples, joins, both, groups, own, measure, group, key, told
  <2>1. \A x : x \in J <=>
          \/ \E a \in DOMAIN l.rows, b \in DOMAIN r.rows : x = <<a, b>> /\ KeysMatch(a, b, node.op.keys, node.op.nulls)
          \/ /\ node.op.domain \in {"union", "left"}
             /\ \E a \in DOMAIN l.rows : /\ x = [s \in {1} |-> a]
                                         /\ \A b \in DOMAIN r.rows : ~KeysMatch(a, b, node.op.keys, node.op.nulls)
          \/ /\ node.op.domain \in {"union", "right"}
             /\ \E b \in DOMAIN r.rows : /\ x = [s \in {2} |-> b]
                                         /\ \A a \in DOMAIN l.rows : ~KeysMatch(a, b, node.op.keys, node.op.nulls)
    BY JoinedElements
  <2> HIDE DEF J
  <2>2. ASSUME NEW a \in DOMAIN l.rows, NEW b \in DOMAIN r.rows, KeysMatch(a, b, node.op.keys, node.op.nulls)
        PROVE  <<a, b>> \in J
    BY <2>1, <2>2
  <2>3. ASSUME NEW a \in DOMAIN l.rows, node.op.domain \in {"union", "left"},
               \A b \in DOMAIN r.rows : ~KeysMatch(a, b, node.op.keys, node.op.nulls)
        PROVE  [s \in {1} |-> a] \in J
    BY <2>1, <2>3
  <2>4. ASSUME NEW b \in DOMAIN r.rows, node.op.domain \in {"union", "right"},
               \A a \in DOMAIN l.rows : ~KeysMatch(a, b, node.op.keys, node.op.nulls)
        PROVE  [s \in {2} |-> b] \in J
    BY <2>1, <2>4
  <2> QED
    BY <2>2, <2>3, <2>4
<1> HIDE DEF both, tuples, groups, joins, tuple, key, J
<1>8. told \in [J -> groups]
  <2> SUFFICES ASSUME NEW x \in J PROVE <<key(x), DOMAIN x>> \in groups
    OBVIOUS
  <2>1. CASE DOMAIN x = {1, 2}
    <3>1. /\ x[1] \in DOMAIN l.rows /\ x[2] \in DOMAIN r.rows /\ KeysMatch(x[1], x[2], node.op.keys, node.op.nulls)
      BY <1>7, <2>1
    <3>2. key(x) \in both
      BY <1>3, <1>4, <1>5, <2>1, <3>1
    <3> QED
      BY <1>6, <2>1, <3>2
  <2>2. CASE DOMAIN x = {1}
    <3>1. /\ x[1] \in DOMAIN l.rows /\ \A b \in DOMAIN r.rows : ~KeysMatch(x[1], b, node.op.keys, node.op.nulls)
          /\ node.op.domain \in {"union", "left"}
      BY <1>7, <2>2
    <3>2. key(x) = tuple(x[1], 1)
      BY <1>4, <2>2
    <3>3. key(x) \in tuples(1) \ both
      BY <1>3, <1>5, <3>1, <3>2
    <3> QED
      BY <1>6, <2>2, <3>1, <3>3
  <2>3. CASE DOMAIN x = {2}
    <3>1. /\ x[2] \in DOMAIN r.rows /\ \A a \in DOMAIN l.rows : ~KeysMatch(a, x[2], node.op.keys, node.op.nulls)
          /\ node.op.domain \in {"union", "right"}
      BY <1>7, <2>3
    <3>2. key(x) = tuple(x[2], 2)
      BY <1>4, <2>3
    <3>3. key(x) \in tuples(2) \ both
      BY <1>3, <1>5, <3>1, <3>2
    <3> QED
      BY <1>6, <2>3, <3>1, <3>3
  <2> QED
    BY <1>7, <2>1, <2>2, <2>3
(* A row of a side is told by its key tuple. *)
<1>9. /\ \A a, o \in DOMAIN l.rows : tuple(a, 1) = tuple(o, 1) => a = o
      /\ \A b, o \in DOMAIN r.rows : tuple(b, 2) = tuple(o, 2) => b = o
  <2>1. \A row, k, id : id \in DOMAIN node.op.keys => tuple(row, k)[id] = row[node.op.keys[id][k]]
    BY DEF tuple
  <2>2. ASSUME NEW a \in DOMAIN l.rows, NEW o \in DOMAIN l.rows, tuple(a, 1) = tuple(o, 1) PROVE a = o
    <3>1. \A id \in DOMAIN node.op.keys : a[node.op.keys[id][1]] = o[node.op.keys[id][1]]
      BY <2>1, <2>2
    <3> HIDE DEF told, group, measure, side
    <3> QED
      BY <3>1, SameKeys
  <2>3. ASSUME NEW a \in DOMAIN r.rows, NEW o \in DOMAIN r.rows, tuple(a, 2) = tuple(o, 2) PROVE a = o
    <3>1. \A id \in DOMAIN node.op.keys : a[node.op.keys[id][2]] = o[node.op.keys[id][2]]
      BY <2>1, <2>3
    <3> HIDE DEF told, group, measure, side
    <3> QED
      BY <3>1, SameKeys
  <2> QED
    BY <2>2, <2>3
<1>10. \A x, y \in J : told[x] = told[y] => x = y
  <2> SUFFICES ASSUME NEW x \in J, NEW y \in J, told[x] = told[y] PROVE x = y
    OBVIOUS
  <2>1. key(x) = key(y) /\ DOMAIN x = DOMAIN y
    OBVIOUS
  <2>2. CASE DOMAIN x = {1, 2}
    <3>1. x = <<x[1], x[2]>> /\ y = <<y[1], y[2]>>
      BY <1>7, <2>1, <2>2
    <3>2. x[1] = y[1] /\ x[2] = y[2]
      BY <1>4, <1>9, <2>1, <2>2
    <3> QED
      BY <3>1, <3>2
  <2>3. CASE DOMAIN x = {1}
    <3>1. x = [s \in {1} |-> x[1]] /\ y = [s \in {1} |-> y[1]]
      BY <1>7, <2>1, <2>3
    <3>2. x[1] = y[1]
      BY <1>4, <1>9, <2>1, <2>3
    <3> QED
      BY <3>1, <3>2
  <2>4. CASE DOMAIN x = {2}
    <3>1. x = [s \in {2} |-> x[2]] /\ y = [s \in {2} |-> y[2]]
      BY <1>7, <2>1, <2>4
    <3>2. x[2] = y[2]
      BY <1>4, <1>9, <2>1, <2>4
    <3> QED
      BY <3>1, <3>2
  <2> QED
    BY <1>7, <2>2, <2>3, <2>4
<1>11. \A t \in groups : \E x \in J : told[x] = t
  <2> SUFFICES ASSUME NEW t \in groups PROVE \E x \in J : key(x) = t[1] /\ <<t[1], DOMAIN x>> = t
    OBVIOUS
  <2>2. CASE t[1] \in both /\ t = <<t[1], {1, 2}>>
    <3>1. PICK a \in DOMAIN l.rows, b \in DOMAIN r.rows : t[1] = tuple(a, 1) /\ t[1] = tuple(b, 2) /\ joins(t[1])
      BY <1>5, <2>2
    <3>2. <<a, b>> \in J /\ DOMAIN <<a, b>> = {1, 2} /\ <<a, b>>[1] = a
      BY <1>3, <1>16, <3>1
    <3>3. key(<<a, b>>) = tuple(a, 1)
      BY <1>4, <3>2
    <3> QED
      BY <2>2, <3>1, <3>2, <3>3
  <2>3. CASE node.op.domain \in {"union", "left"} /\ t[1] \in tuples(1) \ both /\ t = <<t[1], {1}>>
    <3>1. PICK a \in DOMAIN l.rows : t[1] = tuple(a, 1)
      BY <1>5, <2>3
    <3>2. \A b \in DOMAIN r.rows : ~KeysMatch(a, b, node.op.keys, node.op.nulls)
      BY <1>3, <1>5, <2>3, <3>1
    <3> DEFINE x == [s \in {1} |-> a]
    <3>3. x \in J /\ DOMAIN x = {1} /\ x[1] = a
      BY <1>16, <2>3, <3>2
    <3> HIDE DEF x
    <3>4. key(x) = tuple(a, 1)
      BY <1>4, <3>3
    <3> QED
      BY <2>3, <3>1, <3>3, <3>4
  <2>4. CASE node.op.domain \in {"union", "right"} /\ t[1] \in tuples(2) \ both /\ t = <<t[1], {2}>>
    <3>1. PICK b \in DOMAIN r.rows : t[1] = tuple(b, 2)
      BY <1>5, <2>4
    <3>2. \A a \in DOMAIN l.rows : ~KeysMatch(a, b, node.op.keys, node.op.nulls)
      BY <1>3, <1>5, <2>4, <3>1
    <3> DEFINE x == [s \in {2} |-> b]
    <3>3. x \in J /\ DOMAIN x = {2} /\ x[2] = b
      BY <1>16, <2>4, <3>2
    <3> HIDE DEF x
    <3>4. key(x) = tuple(b, 2)
      BY <1>4, <3>3
    <3> QED
      BY <2>4, <3>1, <3>3, <3>4
  <2> QED
    BY <1>6, <2>2, <2>3, <2>4
<1>12. \A x \in J : GroupRow(x, node.op) = group(told[x])
  <2> SUFFICES ASSUME NEW x \in J PROVE GroupRow(x, node.op) = group(told[x])
    OBVIOUS
  <2>1. told[x][1] = key(x) /\ told[x][2] = DOMAIN x
    OBVIOUS
  <2>2. \A id \in DOMAIN node.op.keys : key(x)[id] = MergedKey(x, node.op.keys[id])
    BY DEF key
  <2>3. measure(told[x]) = Measure(x, node.op.output)
    <3> DEFINE k == node.op.output.side
    <3>1. CASE k \in DOMAIN x
      <4>1. x[k] \in side(k) /\ tuple(x[k], k) = key(x)
        BY <1>4, <3>1
      <4>2. \A row \in side(k) : tuple(row, k) = key(x) => row = x[k]
        BY <1>9, <4>1
      <4>3. own(told[x]) = x[k]
        <5> HIDE DEF side, told
        <5> QED
          BY <2>1, <4>1, <4>2
      <4> HIDE DEF own, side, told
      <4> QED
        BY <2>1, <3>1, <4>3 DEF Measure
    <3>2. CASE k \notin DOMAIN x
      BY <2>1, <3>2 DEF Measure
    <3> QED
      BY <3>1, <3>2
  <2> HIDE DEF measure, told
  <2> QED
    BY <2>1, <2>2, <2>3 DEF GroupRow
<1>13. told \in Bijection(J, groups)
  <2> HIDE DEF told
  <2> QED
    BY <1>8, <1>10, <1>11 DEF Bijection, Injection, Surjection, IsInjective
<1> DEFINE rows == [x \in J |-> GroupRow(x, node.op)]
           made == [t \in groups |-> group(t)]
<1>14. DOMAIN rows = J /\ DOMAIN made = groups /\ \A x \in J : rows[x] = made[told[x]]
  BY <1>8, <1>12
<1> HIDE DEF rows, made, told
<1>15. BagImage(rows, Once(J)) = BagImage(made, Once(groups))
  BY <1>1, <1>13, <1>14, SameBag
<1> QED
  BY <1>15 DEF rows, made

-----------------------------------------------------------------------------
(* Set operators count rows.                                               *)

(* Rows that are numbered lo + 1 to hi come back hi - lo times. *)
LEMMA UnnumberedTimes ==
  ASSUME NEW S, IsFiniteSet(S), \A x \in S : \E a : \E n \in Nat : x = <<a, n>>,
         NEW row, NEW lo \in Nat, NEW hi \in Nat,
         \A n \in Nat : <<row, n>> \in S <=> n \in lo + 1 .. hi
  PROVE  Times(Unnumbered(S), row) = IF lo < hi THEN hi - lo ELSE 0
<1> DEFINE f == [x \in S |-> x[1]]
           A == {o \in Numbered(Once(S)) : f[o[1]] = row}
           g == [n \in lo + 1 .. hi |-> <<<<row, n>>, 1>>]
<1>1. \A o : o \in A <=> \E x \in S : o = <<x, 1>> /\ x[1] = row
  <2>1. DOMAIN Once(S) = S /\ \A x \in S : Once(S)[x] = 1 /\ 1 .. 1 = {1}
    BY DEF Once
  <2>2. \A o : o \in Numbered(Once(S)) <=> \E x \in S : \E n \in 1 .. Once(S)[x] : o = <<x, n>>
    BY <2>1, NumberedElements
  <2> QED
    BY <2>1, <2>2
<1>2. \A x \in S : x[1] = row => \E n \in lo + 1 .. hi : x = <<row, n>>
  OBVIOUS
<1> HIDE DEF A
<1>3. g \in [lo + 1 .. hi -> A]
  <2> SUFFICES ASSUME NEW n \in lo + 1 .. hi PROVE <<<<row, n>>, 1>> \in A
    OBVIOUS
  <2>1. <<row, n>> \in S /\ <<row, n>>[1] = row
    OBVIOUS
  <2> QED
    BY <1>1, <2>1
<1>4. \A o \in A : \E n \in lo + 1 .. hi : g[n] = o
  <2> SUFFICES ASSUME NEW o \in A PROVE \E n \in lo + 1 .. hi : g[n] = o
    OBVIOUS
  <2>1. PICK x \in S : o = <<x, 1>> /\ x[1] = row
    BY <1>1
  <2>2. PICK n \in lo + 1 .. hi : x = <<row, n>>
    BY <1>2, <2>1
  <2> QED
    BY <2>1, <2>2
<1>5. \A m, n \in lo + 1 .. hi : g[m] = g[n] => m = n
  OBVIOUS
<1>6. g \in Bijection(lo + 1 .. hi, A)
  <2> HIDE DEF g
  <2> QED
    BY <1>3, <1>4, <1>5 DEF Bijection, Injection, Surjection, IsInjective
<1>7. Cardinality(A) = IF lo < hi THEN hi - lo ELSE 0
  <2>1. IsFiniteSet(lo + 1 .. hi) /\ Cardinality(lo + 1 .. hi) = IF lo + 1 > hi THEN 0 ELSE hi - (lo + 1) + 1
    BY FS_Interval
  <2>2. Cardinality(A) = Cardinality(lo + 1 .. hi)
    BY <1>6, <2>1, FS_Bijection DEF ExistsBijection
  <2> QED
    BY <2>1, <2>2
<1> DEFINE Y == {f[x] : x \in S}
           N(y) == Cardinality({o \in Numbered(Once(S)) : f[o[1]] = y})
<1>8. Unnumbered(S) = [y \in Y |-> N(y)]
  <2>1. DOMAIN Once(S) = S
    BY DEF Once
  <2> QED
    BY <2>1 DEF Unnumbered, BagImage
<1>9. N(row) = Cardinality(A)
  BY DEF A
<1>10. row \in Y <=> lo < hi
  <2>1. row \in Y <=> \E x \in S : x[1] = row
    OBVIOUS
  <2>2. lo < hi => lo + 1 \in lo + 1 .. hi
    OBVIOUS
  <2>3. lo < hi => \E x \in S : x[1] = row
    <3>1. \A n \in lo + 1 .. hi : <<row, n>> \in S /\ <<row, n>>[1] = row
      OBVIOUS
    <3> QED
      BY <2>2, <3>1
  <2>4. (\E x \in S : x[1] = row) => lo < hi
    <3>1. ASSUME NEW n \in lo + 1 .. hi PROVE lo < hi
      OBVIOUS
    <3> QED
      BY <1>2, <3>1
  <2> QED
    BY <2>1, <2>3, <2>4
<1> HIDE DEF Y, N
<1> QED
  BY <1>7, <1>8, <1>9, <1>10 DEF Times

-----------------------------------------------------------------------------
(* Numbering pairs what INTERSECT ALL and EXCEPT ALL must count. *)
LEMMA SetRowsTimes ==
  ASSUME NEW l, NEW r, IsBag(l), IsBag(r), NEW row,
         NEW op, op.operator \in SetOperators, op.duplicates \in SetForms
  PROVE  Times(SetRows(l, r, op.operator, op.duplicates), row)
           = Count(op, Times(l, row), Times(r, row))
<1> DEFINE a == Times(l, row)
           b == Times(r, row)
<1>1. a \in Nat /\ b \in Nat /\ (a > 0 <=> row \in DOMAIN l) /\ (b > 0 <=> row \in DOMAIN r)
  BY DEF IsBag, Times
<1>2. /\ \A n \in Nat : <<row, n>> \in Numbered(l) <=> n \in 1 .. a
      /\ \A n \in Nat : <<row, n>> \in Numbered(r) <=> n \in 1 .. b
  <2>1. \A c : \A n \in Nat : <<row, n>> \in Numbered(c) <=> row \in DOMAIN c /\ n \in 1 .. c[row]
    <3> TAKE c
    <3> TAKE n \in Nat
    <3>1. <<row, n>> \in Numbered(c) <=> \E x \in DOMAIN c : \E m \in 1 .. c[x] : <<row, n>> = <<x, m>>
      BY NumberedElements
    <3> QED
      BY <3>1
  <2> QED
    BY <2>1, <1>1 DEF Times
<1>3. /\ IsFiniteSet(Numbered(l))
      /\ \A x \in Numbered(l) : \E y : \E n \in Nat : x = <<y, n>>
  <2>1. \A x \in Numbered(l) : \E y \in DOMAIN l : \E n \in 1 .. l[y] : x = <<y, n>>
    BY NumberedElements
  <2> QED
    BY <2>1, NumberedFinite DEF IsBag
<1>4. CASE op.operator = "union"
  <2>1. CASE op.duplicates = "all"
    <3>1. SetRows(l, r, op.operator, op.duplicates) = [x \in DOMAIN l \cup DOMAIN r |-> Times(l, x) + Times(r, x)]
      BY <1>4, <2>1 DEF SetRows
    <3>2. Times(SetRows(l, r, op.operator, op.duplicates), row) = IF row \in DOMAIN l \cup DOMAIN r THEN a + b ELSE 0
      BY <3>1 DEF Times
    <3>3. Count(op, a, b) = a + b
      BY <1>4, <2>1 DEF Count
    <3> HIDE DEF a, b
    <3> QED
      BY <1>1, <3>2, <3>3 DEF a, b
  <2>2. CASE op.duplicates = "distinct"
    <3>1. SetRows(l, r, op.operator, op.duplicates) = Once(DOMAIN l \cup DOMAIN r)
      BY <1>4, <2>2 DEF SetRows
    <3>2. Times(SetRows(l, r, op.operator, op.duplicates), row) = IF row \in DOMAIN l \cup DOMAIN r THEN 1 ELSE 0
      BY <3>1 DEF Times, Once
    <3>3. Count(op, a, b) = IF a + b > 0 THEN 1 ELSE 0
      BY <1>4, <2>2 DEF Count
    <3> HIDE DEF a, b
    <3> QED
      BY <1>1, <3>2, <3>3 DEF a, b
  <2> QED
    BY <2>1, <2>2 DEF SetForms
<1>5. CASE op.operator = "intersect"
  <2>1. CASE op.duplicates = "all"
    <3> DEFINE S == Numbered(l) \cap Numbered(r)
               m == IF a < b THEN a ELSE b
    <3>1. SetRows(l, r, op.operator, op.duplicates) = Unnumbered(S)
      BY <1>5, <2>1 DEF SetRows
    <3>2. Count(op, a, b) = m
      BY <1>5, <2>1 DEF Count
    <3>3. IsFiniteSet(S) /\ \A x \in S : \E y : \E n \in Nat : x = <<y, n>>
      BY <1>3, FS_Subset
    <3> HIDE DEF a, b
    <3>4. m \in Nat /\ \A n \in Nat : <<row, n>> \in S <=> n \in 0 + 1 .. m
      BY <1>1, <1>2
    <3> HIDE DEF S, m
    <3>5. Times(Unnumbered(S), row) = IF 0 < m THEN m - 0 ELSE 0
      BY <3>3, <3>4, UnnumberedTimes
    <3> QED
      BY <3>1, <3>2, <3>4, <3>5 DEF a, b
  <2>2. CASE op.duplicates = "distinct"
    <3>1. SetRows(l, r, op.operator, op.duplicates) = Once(DOMAIN l \cap DOMAIN r)
      BY <1>5, <2>2 DEF SetRows
    <3>2. Times(SetRows(l, r, op.operator, op.duplicates), row) = IF row \in DOMAIN l \cap DOMAIN r THEN 1 ELSE 0
      BY <3>1 DEF Times, Once
    <3>3. Count(op, a, b) = IF a > 0 THEN IF b > 0 THEN 1 ELSE 0 ELSE 0
      BY <1>5, <2>2 DEF Count
    <3> HIDE DEF a, b
    <3> QED
      BY <1>1, <3>2, <3>3 DEF a, b
  <2> QED
    BY <2>1, <2>2 DEF SetForms
<1>6. CASE op.operator = "except"
  <2>1. CASE op.duplicates = "all"
    <3> DEFINE S == Numbered(l) \ Numbered(r)
    <3>1. SetRows(l, r, op.operator, op.duplicates) = Unnumbered(S)
      BY <1>6, <2>1 DEF SetRows
    <3>2. Count(op, a, b) = IF a > b THEN a - b ELSE 0
      BY <1>6, <2>1 DEF Count
    <3>3. IsFiniteSet(S) /\ \A x \in S : \E y : \E n \in Nat : x = <<y, n>>
      BY <1>3, FS_Subset
    <3> HIDE DEF a, b
    <3>4. \A n \in Nat : <<row, n>> \in S <=> n \in b + 1 .. a
      BY <1>1, <1>2
    <3> HIDE DEF S
    <3>5. Times(Unnumbered(S), row) = IF b < a THEN a - b ELSE 0
      BY <1>1, <3>3, <3>4, UnnumberedTimes
    <3> QED
      BY <1>1, <3>1, <3>2, <3>5 DEF a, b
  <2>2. CASE op.duplicates = "distinct"
    <3>1. SetRows(l, r, op.operator, op.duplicates) = Once(DOMAIN l \ DOMAIN r)
      BY <1>6, <2>2 DEF SetRows
    <3>2. Times(SetRows(l, r, op.operator, op.duplicates), row) = IF row \in DOMAIN l \ DOMAIN r THEN 1 ELSE 0
      BY <3>1 DEF Times, Once
    <3>3. Count(op, a, b) = IF b = 0 THEN IF a > 0 THEN 1 ELSE 0 ELSE 0
      BY <1>6, <2>2 DEF Count
    <3> HIDE DEF a, b
    <3> QED
      BY <1>1, <3>2, <3>3 DEF a, b
  <2> QED
    BY <2>1, <2>2 DEF SetForms
<1> QED
  BY <1>4, <1>5, <1>6 DEF SetOperators

-----------------------------------------------------------------------------
(* Graphs and walks.                                                       *)

(* A proposal has at least one node, and inputs are nodes. *)
LEMMA GraphFacts ==
  ASSUME graph \in Proposals
  PROVE  /\ Len(graph) \in Nat \ {0} /\ Positions = 1 .. Len(graph) /\ Root \in Positions
         /\ IsFiniteSet(Positions) /\ Cardinality(Positions) = Len(graph)
         /\ \A j \in Positions : Inputs(j) \in Seq(Positions)
<1>1. graph \in Seq([kind : STRING, inputs : Seq(Positions), query : STRING]) /\ graph # <<>>
  BY GraphAssumption DEF Positions
<1>2. Len(graph) \in Nat \ {0} /\ Positions = 1 .. Len(graph)
  BY <1>1 DEF Positions
<1>3. \A j \in Positions : Inputs(j) \in Seq(Positions)
  <2> TAKE j \in Positions
  <2>1. graph[j] \in [kind : STRING, inputs : Seq(Positions), query : STRING]
    BY <1>1, <1>2, ElementOfSeq
  <2> QED
    BY <2>1 DEF Inputs
<1>4. IsFiniteSet(Positions) /\ Cardinality(Positions) = Len(graph)
  <2>1. 1 \in Int /\ Len(graph) \in Int
    BY <1>2
  <2> QED
    BY <1>2, <2>1, FS_Interval
<1> QED
  BY <1>2, <1>3, <1>4 DEF Root

(* An edge is a use of one node by another. *)
LEMMA EdgeFacts ==
  ASSUME graph \in Proposals
  PROVE  /\ \A j \in Positions : \A e \in DOMAIN Inputs(j) : [from |-> j, nth |-> e] \in Edges
         /\ \A g \in Edges : /\ g = [from |-> g.from, nth |-> g.nth]
                             /\ g.from \in Positions /\ g.nth \in DOMAIN Inputs(g.from)
                             /\ To(g) \in Positions /\ To(g) \in ToSet(Inputs(g.from))
<1>1. \A j \in Positions : Inputs(j) \in Seq(Positions)
  BY GraphFacts
<1>2. \A g : g \in Edges <=> \E j \in Positions : \E e \in DOMAIN Inputs(j) : g = [from |-> j, nth |-> e]
  BY DEF Edges
<1>3. ASSUME NEW g \in Edges
      PROVE  /\ g = [from |-> g.from, nth |-> g.nth]
             /\ g.from \in Positions /\ g.nth \in DOMAIN Inputs(g.from)
  BY <1>2
<1>4. ASSUME NEW g \in Edges PROVE To(g) \in Positions /\ To(g) \in ToSet(Inputs(g.from))
  BY <1>1, <1>3 DEF To, ToSet
<1> QED
  BY <1>2, <1>3, <1>4

(* A proposal has finitely many edges. *)
LEMMA EdgesFinite ==
  ASSUME graph \in Proposals
  PROVE  IsFiniteSet(Edges)
<1> DEFINE f == [j \in Positions |-> {[from |-> j, nth |-> e] : e \in DOMAIN Inputs(j)}]
<1>1. ASSUME NEW j \in Positions PROVE IsFiniteSet(f[j])
  <2> DEFINE h == [e \in DOMAIN Inputs(j) |-> [from |-> j, nth |-> e]]
  <2>1. h \in Surjection(DOMAIN Inputs(j), f[j])
    BY DEF Surjection
  <2>2. IsFiniteSet(DOMAIN Inputs(j))
    <3>1. DOMAIN Inputs(j) = 1 .. Len(Inputs(j)) /\ 1 \in Int /\ Len(Inputs(j)) \in Int
      BY GraphFacts
    <3> QED
      BY <3>1, FS_Interval
  <2> HIDE DEF f, h
  <2> QED
    BY <2>1, <2>2, FS_Surjection
<1>2. IsFiniteSet({f[j] : j \in Positions})
  <2> DEFINE T == {f[j] : j \in Positions}
  <2>1. f \in Surjection(Positions, T)
    BY DEF Surjection
  <2> HIDE DEF f, T
  <2> QED
    BY <2>1, GraphFacts, FS_Surjection DEF T
<1>3. IsFiniteSet(UNION {f[j] : j \in Positions})
  <2> HIDE DEF f
  <2> QED
    BY <1>1, <1>2, FS_UNION
<1>4. Edges = UNION {f[j] : j \in Positions}
  BY DEF Edges
<1> QED
  BY <1>3, <1>4

-----------------------------------------------------------------------------
(* A walk has at most as many edges as there are nodes, which is no limit without cycles. *)
LEMMA WalkElements ==
  ASSUME graph \in Proposals, NEW j
  PROVE  \A w : w \in Walks(j) <=> w \in Seq(Edges) /\ Len(w) <= Len(graph) /\ IsWalk(w, j)
<1> TAKE w
<1>1. Len(graph) \in Nat
  BY GraphFacts
<1>2. w \in UNION {[1 .. k -> Edges] : k \in 0 .. Len(graph)} <=> w \in Seq(Edges) /\ Len(w) <= Len(graph)
  <2>1. ASSUME NEW k \in 0 .. Len(graph), w \in [1 .. k -> Edges]
        PROVE  w \in Seq(Edges) /\ Len(w) <= Len(graph)
    <3>1. k \in Nat
      BY <1>1
    <3>2. w \in Seq(Edges)
      BY <2>1, <3>1, SeqDef
    <3>3. Len(w) = k
      BY <2>1, <3>1, <3>2
    <3> QED
      BY <3>2, <3>3
  <2>2. ASSUME w \in Seq(Edges), Len(w) <= Len(graph)
        PROVE  w \in [1 .. Len(w) -> Edges] /\ Len(w) \in 0 .. Len(graph)
    BY <1>1, <2>2
  <2> QED
    BY <2>1, <2>2
<1> QED
  BY <1>2 DEF Walks

(* There are finitely many walks: each is told by its graph, a set of pairs. *)
LEMMA WalksFinite ==
  ASSUME graph \in Proposals, NEW j
  PROVE  IsFiniteSet(Walks(j))
<1> DEFINE N == Len(graph)
           All == SUBSET ((1 .. N) \X Edges)
           h == [w \in Walks(j) |-> {<<k, w[k]>> : k \in DOMAIN w}]
<1>1. IsFiniteSet(All)
  <2>1. 1 \in Int /\ N \in Int
    BY GraphFacts
  <2>2. IsFiniteSet((1 .. N) \X Edges)
    BY <2>1, EdgesFinite, FS_Interval, FS_Product
  <2> QED
    BY <2>2, FS_SUBSET
<1>2. \A w \in Walks(j) : w \in [1 .. Len(w) -> Edges] /\ Len(w) \in 0 .. N
  BY WalkElements, GraphFacts
<1>3. h \in [Walks(j) -> All]
  <2> SUFFICES ASSUME NEW w \in Walks(j) PROVE {<<k, w[k]>> : k \in DOMAIN w} \in All
    OBVIOUS
  <2>1. \A k \in DOMAIN w : k \in 1 .. N /\ w[k] \in Edges
    BY <1>2, GraphFacts
  <2> QED
    BY <2>1
<1>4. ASSUME NEW v \in Walks(j), NEW w \in Walks(j), h[v] = h[w] PROVE v = w
  <2>1. \A k : k \in DOMAIN v => k \in DOMAIN w /\ v[k] = w[k]
    <3> TAKE k
    <3> HAVE k \in DOMAIN v
    <3>1. <<k, v[k]>> \in h[w]
      BY <1>4
    <3> QED
      BY <3>1
  <2>2. \A k : k \in DOMAIN w => k \in DOMAIN v
    <3> TAKE k
    <3> HAVE k \in DOMAIN w
    <3>1. <<k, w[k]>> \in h[v]
      BY <1>4
    <3> QED
      BY <3>1
  <2> HIDE DEF h
  <2> QED
    BY <1>2, <2>1, <2>2
<1>5. h \in Injection(Walks(j), All)
  <2> HIDE DEF h, All
  <2> QED
    BY <1>3, <1>4 DEF Injection, IsInjective
<1> HIDE DEF h, All
<1> QED
  BY <1>1, <1>5, FS_Injection

(* A walk goes on from where its first edge leads, and anything that does makes a walk. *)
LEMMA WalkTail ==
  ASSUME graph \in Proposals, NEW j, NEW w \in Walks(j), w # <<>>
  PROVE  /\ w[1] \in Edges /\ w[1].from = j
         /\ Tail(w) \in Walks(To(w[1])) /\ Len(Tail(w)) = Len(w) - 1
         /\ w = <<w[1]>> \o Tail(w)
<1>1. w \in Seq(Edges) /\ Len(w) <= Len(graph) /\ IsWalk(w, j)
  BY WalkElements
<1>2. /\ Tail(w) \in Seq(Edges) /\ Len(Tail(w)) = Len(w) - 1 /\ Len(w) \in Nat \ {0}
      /\ \A i \in 1 .. Len(Tail(w)) : Tail(w)[i] = w[i + 1]
  BY <1>1, HeadTailProperties
<1>3. IsWalk(Tail(w), To(w[1]))
  <2>1. Tail(w) # <<>> => Tail(w)[1].from = To(w[1])
    <3> HAVE Tail(w) # <<>>
    <3>1. Len(Tail(w)) >= 1
      BY <1>2
    <3>2. Tail(w)[1] = w[2] /\ 1 \in 1 .. Len(w) - 1
      BY <1>2, <3>1
    <3>3. w[1 + 1].from = To(w[1])
      BY <1>1, <3>2 DEF IsWalk
    <3> QED
      BY <3>2, <3>3
  <2>2. ASSUME NEW k \in 1 .. Len(Tail(w)) - 1 PROVE Tail(w)[k + 1].from = To(Tail(w)[k])
    <3>1. k \in 1 .. Len(Tail(w)) /\ k + 1 \in 1 .. Len(Tail(w)) /\ k + 1 \in 1 .. Len(w) - 1
      BY <1>2
    <3>2. w[(k + 1) + 1].from = To(w[k + 1])
      BY <1>1, <3>1 DEF IsWalk
    <3>3. Tail(w)[k] = w[k + 1] /\ Tail(w)[k + 1] = w[(k + 1) + 1]
      BY <1>2, <3>1
    <3> QED
      BY <3>2, <3>3
  <2> QED
    BY <2>1, <2>2 DEF IsWalk
<1>4. Tail(w) \in Walks(To(w[1]))
  <2>1. Len(Tail(w)) <= Len(graph)
    BY <1>1, <1>2, GraphFacts
  <2> QED
    BY <1>2, <1>3, <2>1, WalkElements
<1>5. w = <<w[1]>> \o Tail(w)
  BY <1>1, <1>2
<1> QED
  BY <1>1, <1>2, <1>4, <1>5 DEF IsWalk

(* Walks compose: p from i to j, then w from j. *)
LEMMA WalksCompose ==
  ASSUME graph \in Proposals, NEW i, NEW j, NEW p \in Walks(i), p # <<>> => To(p[Len(p)]) = j,
         p = <<>> => i = j, NEW w \in Walks(j)
  PROVE  /\ p \o w \in Seq(Edges) /\ Len(p \o w) = Len(p) + Len(w) /\ IsWalk(p \o w, i)
         /\ Len(p) + Len(w) <= Len(graph) => p \o w \in Walks(i)
<1>1. /\ p \in Seq(Edges) /\ IsWalk(p, i) /\ w \in Seq(Edges) /\ IsWalk(w, j)
      /\ Len(p) \in Nat /\ Len(w) \in Nat
  BY WalkElements
<1>2. /\ p \o w \in Seq(Edges) /\ Len(p \o w) = Len(p) + Len(w)
      /\ \A k \in 1 .. Len(p) + Len(w) : (p \o w)[k] = IF k <= Len(p) THEN p[k] ELSE w[k - Len(p)]
  BY <1>1, ConcatProperties
<1>3. p \o w # <<>> => (p \o w)[1].from = i
  <2> HAVE p \o w # <<>>
  <2>1. CASE p = <<>>
    <3>1. Len(p) = 0 /\ w # <<>> /\ Len(w) >= 1
      BY <1>1, <1>2, <2>1
    <3>2. (p \o w)[1] = w[1]
      BY <1>1, <1>2, <3>1
    <3> QED
      BY <1>1, <2>1, <3>1, <3>2 DEF IsWalk
  <2>2. CASE p # <<>>
    <3>1. Len(p) >= 1
      BY <1>1, <2>2
    <3>2. (p \o w)[1] = p[1]
      BY <1>1, <1>2, <3>1
    <3> QED
      BY <1>1, <2>2, <3>2 DEF IsWalk
  <2> QED
    BY <2>1, <2>2
<1>4. ASSUME NEW k \in 1 .. Len(p \o w) - 1 PROVE (p \o w)[k + 1].from = To((p \o w)[k])
  <2>1. k \in 1 .. Len(p) + Len(w) /\ k + 1 \in 1 .. Len(p) + Len(w)
    BY <1>1, <1>2
  <2>2. CASE k < Len(p)
    <3>1. (p \o w)[k] = p[k] /\ (p \o w)[k + 1] = p[k + 1] /\ k \in 1 .. Len(p) - 1
      BY <1>1, <1>2, <2>1, <2>2
    <3> QED
      BY <1>1, <3>1 DEF IsWalk
  <2>3. CASE k = Len(p)
    <3>1. (p \o w)[k] = p[Len(p)] /\ (p \o w)[k + 1] = w[1] /\ p # <<>> /\ w # <<>>
      BY <1>1, <1>2, <2>1, <2>3
    <3> QED
      BY <1>1, <3>1 DEF IsWalk
  <2>4. CASE k > Len(p)
    <3>1. /\ (p \o w)[k] = w[k - Len(p)] /\ (p \o w)[k + 1] = w[(k - Len(p)) + 1]
          /\ k - Len(p) \in 1 .. Len(w) - 1
      <4>1. k - Len(p) \in 1 .. Len(w) - 1 /\ (k + 1) - Len(p) = (k - Len(p)) + 1
        BY <1>1, <1>2, <2>1, <2>4
      <4>2. ~(k <= Len(p)) /\ ~(k + 1 <= Len(p))
        BY <1>1, <2>1, <2>4
      <4> QED
        BY <1>2, <2>1, <4>1, <4>2
    <3> QED
      BY <1>1, <3>1 DEF IsWalk
  <2> QED
    BY <1>1, <2>1, <2>2, <2>3, <2>4
<1>5. IsWalk(p \o w, i)
  BY <1>3, <1>4 DEF IsWalk
<1> QED
  BY <1>2, <1>5, WalkElements

(* The empty walk stays where it is. *)
LEMMA EmptyWalk ==
  ASSUME graph \in Proposals, NEW j
  PROVE  <<>> \in Walks(j)
<1>1. <<>> \in Seq(Edges) /\ Len(<<>>) = 0 /\ IsWalk(<<>>, j)
  BY DEF IsWalk
<1>2. 0 <= Len(graph) /\ 1 <= Len(graph)
  BY GraphFacts
<1> QED
  BY <1>1, <1>2, WalkElements

(* An edge is a walk. *)
LEMMA EdgeWalk ==
  ASSUME graph \in Proposals, NEW g \in Edges
  PROVE  <<g>> \in Walks(g.from) /\ Len(<<g>>) = 1 /\ <<g>> # <<>> /\ <<g>>[1] = g
<1>1. <<g>> \in Seq(Edges) /\ Len(<<g>>) = 1 /\ IsWalk(<<g>>, g.from)
  BY DEF IsWalk
<1>2. 0 <= Len(graph) /\ 1 <= Len(graph)
  BY GraphFacts
<1> QED
  BY <1>1, <1>2, WalkElements

-----------------------------------------------------------------------------
(* Without a cycle no walk meets a node twice, so it is shorter than there are nodes. *)
LEMMA AcyclicWalk ==
  ASSUME graph \in Proposals, Acyclic, NEW j, NEW w \in Seq(Edges), IsWalk(w, j)
  PROVE  Len(w) < Len(graph)
<1> DEFINE N == Len(w)
           f == [k \in 1 .. N + 1 |-> IF k <= N THEN w[k].from ELSE IF N = 0 THEN Root ELSE To(w[N])]
<1> SUFFICES ASSUME N >= Len(graph) PROVE FALSE
  BY GraphFacts
<1>1. N \in Nat \ {0} /\ Len(graph) \in Nat \ {0}
  BY GraphFacts
<1>2. f \in [1 .. N + 1 -> Positions]
  <2> SUFFICES ASSUME NEW k \in 1 .. N + 1
               PROVE  (IF k <= N THEN w[k].from ELSE IF N = 0 THEN Root ELSE To(w[N])) \in Positions
    OBVIOUS
  <2>1. CASE k <= N
    <3>1. w[k] \in Edges
      BY <1>1, <2>1
    <3> QED
      BY <2>1, <3>1, EdgeFacts
  <2>2. CASE ~(k <= N)
    <3>1. w[N] \in Edges
      BY <1>1
    <3> QED
      BY <1>1, <2>2, <3>1, EdgeFacts
  <2> QED
    BY <2>1, <2>2
<1>3. ASSUME NEW k \in 1 .. N PROVE f[k + 1] \in ToSet(Inputs(f[k]))
  <2>1. f[k] = w[k].from /\ w[k] \in Edges
    BY <1>1
  <2>2. f[k + 1] = To(w[k])
    <3>1. CASE k = N
      <4>1. k + 1 \in 1 .. N + 1 /\ ~(k + 1 <= N)
        BY <1>1, <3>1
      <4> QED
        BY <1>1, <3>1, <4>1
    <3>2. CASE k # N
      <4>1. k \in 1 .. N - 1 /\ k + 1 \in 1 .. N + 1 /\ k + 1 <= N
        BY <1>1, <3>2
      <4> QED
        BY <4>1 DEF IsWalk
    <3> QED
      BY <3>1, <3>2
  <2> HIDE DEF f
  <2> QED
    BY <2>1, <2>2, EdgeFacts
<1>4. \E x, y \in 1 .. N + 1 : x # y /\ f[x] = f[y]
  <2>1. IsFiniteSet(1 .. N + 1) /\ Cardinality(1 .. N + 1) = N + 1
    <3>1. 1 \in Int /\ N + 1 \in Int /\ ~(1 > N + 1) /\ (N + 1) - 1 + 1 = N + 1
      BY <1>1
    <3> HIDE DEF N
    <3> QED
      BY <3>1, FS_Interval
  <2>2. IsFiniteSet(Positions) /\ Cardinality(Positions) < Cardinality(1 .. N + 1)
    BY <1>1, <2>1, GraphFacts
  <2> HIDE DEF f, N
  <2> QED
    BY <1>2, <2>1, <2>2, FS_PigeonHole
<1> HIDE DEF f
<1>5. \E x, y \in 1 .. N + 1 : x < y /\ f[x] = f[y]
  <2>1. PICK x, y \in 1 .. N + 1 : x # y /\ f[x] = f[y]
    BY <1>4
  <2>2. x < y \/ y < x
    BY <1>1, <2>1
  <2> QED
    BY <2>1, <2>2
<1>6. PICK x, y \in 1 .. N + 1 : x < y /\ f[x] = f[y]
  BY <1>5
<1> DEFINE S == {f[k] : k \in x .. y - 1}
<1>7. S \in (SUBSET Positions) \ {{}}
  <2>1. x \in x .. y - 1 /\ x .. y - 1 \subseteq 1 .. N + 1
    BY <1>1, <1>6
  <2> QED
    BY <1>2, <2>1
<1>8. ASSUME NEW j2 \in S PROVE ToSet(Inputs(j2)) \cap S # {}
  <2>1. PICK k \in x .. y - 1 : j2 = f[k]
    OBVIOUS
  <2>2. k \in 1 .. N /\ (k + 1 \in x .. y - 1 \/ k + 1 = y) /\ x \in x .. y - 1
    BY <1>1, <1>6
  <2>3. f[k + 1] \in S
    BY <1>6, <2>2
  <2> HIDE DEF S
  <2> QED
    BY <1>3, <2>1, <2>2, <2>3
<1> HIDE DEF S
<1> QED
  BY <1>7, <1>8 DEF Acyclic

(* A walk goes on with an edge that begins where it ends. *)
LEMMA WalkThenEdge ==
  ASSUME graph \in Proposals, NEW j, NEW v \in Walks(j), NEW g \in Edges,
         v # <<>> => To(v[Len(v)]) = g.from, v = <<>> => j = g.from
  PROVE  /\ v \o <<g>> \in Seq(Edges) /\ Len(v \o <<g>>) = Len(v) + 1 /\ IsWalk(v \o <<g>>, j)
         /\ (v \o <<g>>)[Len(v) + 1] = g /\ v \o <<g>> # <<>>
<1>1. <<g>> \in Walks(g.from) /\ Len(<<g>>) = 1 /\ v \in Seq(Edges) /\ <<g>> \in Seq(Edges)
  BY EdgeWalk, WalkElements
<1>2. v \o <<g>> \in Seq(Edges) /\ Len(v \o <<g>>) = Len(v) + Len(<<g>>) /\ IsWalk(v \o <<g>>, j)
  BY <1>1, WalksCompose
<1> QED
  BY <1>1, <1>2

(* A walk may begin with an edge that leads to where it begins. *)
LEMMA EdgeThenWalk ==
  ASSUME graph \in Proposals, NEW g \in Edges, NEW v \in Walks(To(g)), Len(v) < Len(graph)
  PROVE  /\ <<g>> \o v \in Walks(g.from) /\ Len(<<g>> \o v) = Len(v) + 1
         /\ (<<g>> \o v)[1] = g /\ <<g>> \o v # <<>>
<1> DEFINE one == <<g>>
<1>1. /\ one \in Walks(g.from) /\ Len(one) = 1 /\ v \in Seq(Edges) /\ one \in Seq(Edges)
      /\ one[1] = g /\ one # <<>>
  BY EdgeWalk, WalkElements
<1> HIDE DEF one
<1>2. one[Len(one)] = g
  BY <1>1
<1>3. /\ Len(one \o v) = Len(one) + Len(v)
      /\ Len(one) + Len(v) <= Len(graph) => one \o v \in Walks(g.from)
  BY <1>1, <1>2, WalksCompose
<1>4. Len(one) + Len(v) <= Len(graph)
  BY <1>1, GraphFacts
<1>5. (one \o v)[1] = g /\ one \o v # <<>>
  BY <1>1, <1>3, ConcatProperties
<1> QED
  BY <1>1, <1>3, <1>4, <1>5 DEF one

(* Walks from the root come to every node that the coverage check reaches. *)
LEMMA WalksReach ==
  ASSUME graph \in Proposals, Acyclic, Reachable = Positions, NEW j \in Positions
  PROVE  \E p \in Walks(Root) : (p # <<>> => To(p[Len(p)]) = j) /\ (p = <<>> => Root = j)
<1> DEFINE Ends(p, k) == (p # <<>> => To(p[Len(p)]) = k) /\ (p = <<>> => Root = k)
           S == {k \in Positions : \E p \in Walks(Root) : Ends(p, k)}
<1>1. Root \in S
  <2>1. <<>> \in Walks(Root) /\ Root \in Positions /\ Ends(<<>>, Root)
    BY EmptyWalk, GraphFacts
  <2> QED
    BY <2>1
<1>2. ASSUME NEW k \in S, NEW to \in ToSet(Inputs(k)) PROVE to \in S
  <2>1. PICK p \in Walks(Root) : Ends(p, k)
    BY <1>2
  <2>2. PICK e \in DOMAIN Inputs(k) : to = Inputs(k)[e]
    BY DEF ToSet
  <2> DEFINE g == [from |-> k, nth |-> e]
  <2>3. g \in Edges /\ To(g) = to /\ g.from = k
    BY <2>2, EdgeFacts DEF To
  <2> HIDE DEF g
  <2>5. /\ p \o <<g>> \in Seq(Edges) /\ Len(p \o <<g>>) = Len(p) + 1 /\ IsWalk(p \o <<g>>, Root)
        /\ (p \o <<g>>)[Len(p) + 1] = g /\ p \o <<g>> # <<>>
    BY <2>1, <2>3, WalkThenEdge
  <2>6. p \o <<g>> \in Walks(Root)
    <3>1. Len(p \o <<g>>) < Len(graph)
      BY <2>5, AcyclicWalk
    <3>2. Len(p \o <<g>>) <= Len(graph)
      BY <2>5, <3>1, GraphFacts
    <3> QED
      BY <2>5, <3>2, WalkElements
  <2>8. Ends(p \o <<g>>, to)
    BY <2>3, <2>5
  <2>9. to \in Positions
    BY <2>3, EdgeFacts
  <2> QED
    BY <2>6, <2>8, <2>9
<1>3. S \in SUBSET Positions /\ \A k \in S : ToSet(Inputs(k)) \subseteq S
  BY <1>2
<1>4. j \in S
  <2>1. j \in Reachable
    OBVIOUS
  <2> HIDE DEF S
  <2> QED
    BY <1>1, <1>3, <2>1 DEF Reachable
<1> QED
  BY <1>4

(* So the expansion of the root is the largest, and its height too. *)
LEMMA RootIsLargest ==
  ASSUME graph \in Proposals, Acyclic, Reachable = Positions, NEW j \in Positions
  PROVE  /\ Expansion(j) <= Expansion(Root)
         /\ \A w \in Walks(j) : \E v \in Walks(Root) : Len(v) >= Len(w)
<1>1. PICK p \in Walks(Root) : (p # <<>> => To(p[Len(p)]) = j) /\ (p = <<>> => Root = j)
  BY WalksReach
<1> DEFINE h == [w \in Walks(j) |-> p \o w]
<1>2. ASSUME NEW w \in Walks(j)
      PROVE  /\ p \o w \in Walks(Root) /\ Len(p \o w) = Len(p) + Len(w)
             /\ p \in Seq(Edges) /\ w \in Seq(Edges)
  <2>1. p \o w \in Seq(Edges) /\ Len(p \o w) = Len(p) + Len(w) /\ IsWalk(p \o w, Root)
    BY <1>1, WalksCompose
  <2>2. Len(p \o w) < Len(graph)
    BY <2>1, AcyclicWalk
  <2>3. Len(p \o w) <= Len(graph)
    BY <2>1, <2>2, GraphFacts
  <2> QED
    BY <2>1, <2>3, WalkElements
<1>3. h \in Injection(Walks(j), Walks(Root))
  <2>1. ASSUME NEW v \in Walks(j), NEW w \in Walks(j), h[v] = h[w] PROVE v = w
    <3>1. p \o v = p \o w
      BY <2>1
    <3>2. p \in Seq(Edges) /\ v \in Seq(Edges) /\ w \in Seq(Edges)
      BY <1>2
    <3> QED
      BY <3>1, <3>2, ConcatSimplifications
  <2>2. h \in [Walks(j) -> Walks(Root)]
    BY <1>2
  <2> HIDE DEF h
  <2> QED
    BY <2>1, <2>2 DEF Injection, IsInjective
<1>4. Expansion(j) <= Expansion(Root)
  <2>1. IsFiniteSet(Walks(Root))
    BY WalksFinite
  <2> HIDE DEF h
  <2> QED
    BY <1>3, <2>1, FS_Injection DEF Expansion
<1>5. ASSUME NEW w \in Walks(j) PROVE \E v \in Walks(Root) : Len(v) >= Len(w)
  <2>1. Len(p) \in Nat /\ Len(w) \in Nat
    BY <1>2
  <2>2. Len(p \o w) >= Len(w)
    BY <1>2, <2>1
  <2> QED
    BY <1>2, <2>2
<1> QED
  BY <1>4, <1>5

-----------------------------------------------------------------------------
(* A node has finitely many inputs. *)
LEMMA InputsFinite ==
  ASSUME graph \in Proposals, NEW j \in Positions, NEW E, E \subseteq DOMAIN Inputs(j)
  PROVE  IsFiniteSet(E) /\ Cardinality(E) \in Nat /\ (Cardinality(E) = 0 <=> E = {})
<1>1. DOMAIN Inputs(j) = 1 .. Len(Inputs(j)) /\ 1 \in Int /\ Len(Inputs(j)) \in Int
  BY GraphFacts
<1>2. IsFiniteSet(E)
  BY <1>1, FS_Interval, FS_Subset
<1> QED
  BY <1>2, FS_CardinalityType, FS_EmptySet

(* Sequences that are equal after an equal part are equal. *)
LEMMA SameTails ==
  ASSUME NEW S, NEW a \in Seq(S), NEW b \in Seq(S), NEW c \in Seq(S), a \o b = a \o c
  PROVE  b = c
  BY ConcatSimplifications

(* The walks from j whose first edge leads to i: one for each use of i and each walk from i. *)
Through(i, j) == {w \in Walks(j) : w # <<>> /\ To(w[1]) = i}

(* Walks that begin with a use of i are as many as the uses times the walks from i, and one longer. *)
LEMMA ThroughCount ==
  ASSUME graph \in Proposals, NEW i \in Positions, NEW j \in Positions,
         \A w \in Walks(i) : Len(w) < Len(graph)
  PROVE  /\ \A w \in Through(i, j) : Tail(w) \in Walks(i) /\ Len(w) = Len(Tail(w)) + 1 /\ Uses(i, j) > 0
         /\ Uses(i, j) > 0 => \A w \in Walks(i) : \E v \in Through(i, j) : Len(v) = Len(w) + 1
         /\ IsFiniteSet(Through(i, j)) /\ Cardinality(Through(i, j)) = Uses(i, j) * Cardinality(Walks(i))
<1> DEFINE E == {e \in DOMAIN Inputs(j) : Inputs(j)[e] = i}
           Edge(e) == [from |-> j, nth |-> e]
           h == [x \in E \X Walks(i) |-> <<Edge(x[1])>> \o x[2]]
<1>1. ASSUME NEW e \in E PROVE Edge(e) \in Edges /\ To(Edge(e)) = i /\ Edge(e).from = j
  BY EdgeFacts DEF To
<1>2. IsFiniteSet(E) /\ Uses(i, j) = Cardinality(E) /\ (Uses(i, j) > 0 <=> E # {})
  <2>1. E \subseteq DOMAIN Inputs(j) /\ Uses(i, j) = Cardinality(E)
    BY DEF Uses
  <2> HIDE DEF E
  <2> QED
    BY <2>1, InputsFinite
<1>3. ASSUME NEW e \in E, NEW w \in Walks(i)
      PROVE  /\ <<Edge(e)>> \o w \in Through(i, j) /\ Len(<<Edge(e)>> \o w) = Len(w) + 1
             /\ (<<Edge(e)>> \o w)[1] = Edge(e)
             /\ w \in Seq(Edges) /\ <<Edge(e)>> \in Seq(Edges)
  <2> DEFINE g == Edge(e)
  <2>1. g \in Edges /\ To(g) = i /\ g.from = j
    BY <1>1
  <2> HIDE DEF g
  <2>2. w \in Seq(Edges) /\ <<g>> \in Seq(Edges)
    BY <2>1, WalkElements
  <2>3. /\ <<g>> \o w \in Walks(j) /\ Len(<<g>> \o w) = Len(w) + 1
        /\ (<<g>> \o w)[1] = g /\ <<g>> \o w # <<>>
    BY <2>1, EdgeThenWalk
  <2>4. <<g>> \o w \in Through(i, j)
    BY <2>1, <2>3 DEF Through
  <2> QED
    BY <2>2, <2>3, <2>4 DEF g
<1>4. ASSUME NEW w \in Through(i, j)
      PROVE  /\ Tail(w) \in Walks(i) /\ Len(w) = Len(Tail(w)) + 1
             /\ \E e \in E : w = <<Edge(e)>> \o Tail(w)
  <2>1. w \in Walks(j) /\ w # <<>> /\ To(w[1]) = i
    BY DEF Through
  <2>2. /\ w[1] \in Edges /\ w[1].from = j /\ Tail(w) \in Walks(i) /\ Len(Tail(w)) = Len(w) - 1
        /\ w = <<w[1]>> \o Tail(w)
    BY <2>1, WalkTail
  <2>3. Len(w) = Len(Tail(w)) + 1
    <3>1. Len(w) \in Nat
      BY <2>1, WalkElements
    <3> QED
      BY <2>2, <3>1
  <2>4. w[1] = Edge(w[1].nth) /\ w[1].nth \in E
    BY <2>1, <2>2, EdgeFacts DEF To
  <2> HIDE DEF E, Edge
  <2> QED
    BY <2>2, <2>3, <2>4
<1>5. h \in Bijection(E \X Walks(i), Through(i, j))
  <2>1. h \in [E \X Walks(i) -> Through(i, j)]
    BY <1>3
  <2>2. ASSUME NEW x \in E \X Walks(i), NEW y \in E \X Walks(i), h[x] = h[y] PROVE x = y
    <3>1. x[1] \in E /\ x[2] \in Walks(i) /\ y[1] \in E /\ y[2] \in Walks(i)
          /\ x = <<x[1], x[2]>> /\ y = <<y[1], y[2]>>
      OBVIOUS
    <3>2. <<Edge(x[1])>> \o x[2] = <<Edge(y[1])>> \o y[2]
      BY <2>2
    <3>3. Edge(x[1]) = Edge(y[1])
      <4> HIDE DEF Edge, E
      <4> QED
        BY <1>3, <3>1, <3>2
    <3>4. x[1] = y[1]
      BY <3>3
    <3>5. x[2] = y[2]
      <4>1. <<Edge(x[1])>> \in Seq(Edges) /\ x[2] \in Seq(Edges) /\ y[2] \in Seq(Edges)
        BY <1>3, <3>1
      <4>2. <<Edge(x[1])>> \o x[2] = <<Edge(x[1])>> \o y[2]
        BY <3>2, <3>4
      <4> HIDE DEF Edge, E
      <4> QED
        BY <4>1, <4>2, SameTails
    <3> QED
      BY <3>1, <3>4, <3>5
  <2>3. ASSUME NEW w \in Through(i, j) PROVE \E x \in E \X Walks(i) : h[x] = w
    <3>1. PICK e \in E : w = <<Edge(e)>> \o Tail(w)
      BY <1>4
    <3>2. <<e, Tail(w)>> \in E \X Walks(i)
      BY <1>4
    <3>3. h[<<e, Tail(w)>>] = <<Edge(e)>> \o Tail(w)
      BY <3>2
    <3> QED
      BY <3>1, <3>2, <3>3
  <2> HIDE DEF h, E
  <2> QED
    BY <2>1, <2>2, <2>3 DEF Bijection, Injection, Surjection, IsInjective
<1>6. IsFiniteSet(Walks(i))
  BY WalksFinite
<1>7. IsFiniteSet(Through(i, j)) /\ Cardinality(Through(i, j)) = Uses(i, j) * Cardinality(Walks(i))
  <2>1. IsFiniteSet(E \X Walks(i)) /\ Cardinality(E \X Walks(i)) = Cardinality(E) * Cardinality(Walks(i))
    <3> HIDE DEF E
    <3> QED
      BY <1>2, <1>6, FS_Product
  <2>2. ExistsBijection(E \X Walks(i), Through(i, j))
    <3> HIDE DEF h, E
    <3> QED
      BY <1>5 DEF ExistsBijection
  <2> HIDE DEF E, h
  <2> QED
    BY <1>2, <2>1, <2>2, FS_Bijection
<1>8. ASSUME Uses(i, j) > 0, NEW w \in Walks(i) PROVE \E v \in Through(i, j) : Len(v) = Len(w) + 1
  <2>1. PICK e \in E : TRUE
    BY <1>2, <1>8
  <2> HIDE DEF E, Edge
  <2> QED
    BY <1>3, <2>1
<1> HIDE DEF E, Edge, h
<1> QED
  BY <1>2, <1>4, <1>7, <1>8

-----------------------------------------------------------------------------
(* The order.                                                              *)

(* Inputs of j that are not among the nodes S, and the walks from j that start towards S. *)
Waiting(j, S) == {e \in DOMAIN Inputs(j) : Inputs(j)[e] \notin S}
Open(j, S) == {w \in Walks(j) : w # <<>> => To(w[1]) \in S}
After(seq, n) == \A e \in DOMAIN Inputs(seq[n]) : \E m \in 1 .. n - 1 : seq[m] = Inputs(seq[n])[e]
HasHeight(d, W) == (\A w \in W : Len(w) < d) /\ \E w \in W : d = Len(w) + 1

(* Nodes come after their inputs, so walks from them are short; what is counted for a node are *)
(* its inputs that are not ordered and the walks through those that are.                      *)
OrderInv ==
    /\ graph \in Proposals
    /\ order \in Seq(Positions) /\ IsInjective(order)
    /\ \A n \in DOMAIN order : After(order, n)
    /\ \A n \in DOMAIN order : \A w \in Walks(order[n]) : Len(w) < n
    /\ pending = [j \in Positions |-> Cardinality(Waiting(j, ToSet(order)))]
    /\ ready = {j \in Positions \ ToSet(order) : Waiting(j, ToSet(order)) = {}}
    /\ expanded = [j \in Positions |-> Cardinality(Open(j, ToSet(order)))]
    /\ depth \in [Positions -> Nat]
    /\ \A j \in Positions : HasHeight(depth[j], Open(j, ToSet(order)))

(* What is said of walks depends on the graph only. *)
LEMMA SameGraph ==
  ASSUME graph' = graph
  PROVE  /\ Positions' = Positions /\ Root' = Root
         /\ \A j : Inputs(j)' = Inputs(j)
         /\ \A j : Walks(j)' = Walks(j)
         /\ \A g : To(g)' = To(g)
         /\ Acyclic' <=> Acyclic
         /\ Reachable' = Reachable
<1>1. Positions' = Positions /\ Root' = Root /\ \A j : Inputs(j)' = Inputs(j)
  BY DEF Positions, Root, Inputs
<1>2. \A g : To(g)' = To(g)
  BY DEF To, Inputs
<1>3. Edges' = Edges
  BY DEF Edges, Positions, Inputs
<1>4. \A w, j : IsWalk(w, j)' <=> IsWalk(w, j)
  BY DEF IsWalk, To, Inputs
<1>5. \A j : Walks(j)' = Walks(j)
  BY <1>3, <1>4 DEF Walks
<1>6. Acyclic' <=> Acyclic
  BY DEF Acyclic, Positions, Inputs
<1>7. Reachable' = Reachable
  BY DEF Reachable, Positions, Inputs, Root
<1> QED
  BY <1>1, <1>2, <1>5, <1>6, <1>7

(* The smallest ready node is one of them. *)
LEMMA LeastOne ==
  ASSUME NEW T, T \subseteq Nat, T # {}
  PROVE  Min(T) \in T
<1> DEFINE R == OpToRel(<, Nat)
<1>1. \E t \in T : \A s \in T : <<s, t>> \notin R
  BY NatLessThanWellFounded, WFMin
<1>2. PICK t \in T : \A s \in T : ~(s < t)
  BY <1>1 DEF OpToRel
<1>3. \A s \in T : t <= s
  BY <1>2
<1> QED
  BY <1>3 DEF Min

(* The node that is ordered next: its inputs are ordered, and walks from it are short. *)
LEMMA NextReady ==
  ASSUME OrderInv, ready # {}, NEW i, i = Min(ready)
  PROVE  /\ i \in Positions /\ i \notin ToSet(order)
         /\ \A e \in DOMAIN Inputs(i) : Inputs(i)[e] \in ToSet(order)
         /\ Len(order) \in Nat /\ Len(order) < Len(graph)
         /\ \A w \in Walks(i) : Len(w) <= Len(order)
         /\ Open(i, ToSet(order)) = Walks(i)
<1>1. graph \in Proposals /\ order \in Seq(Positions) /\ Len(order) \in Nat /\ DOMAIN order = 1 .. Len(order)
  BY DEF OrderInv
<1>2. i \in ready
  <2>1. ready \subseteq Nat
    BY <1>1, GraphFacts DEF OrderInv
  <2> QED
    BY <2>1, LeastOne
<1>3. i \in Positions /\ i \notin ToSet(order) /\ Waiting(i, ToSet(order)) = {}
  BY <1>2 DEF OrderInv
<1>4. \A e \in DOMAIN Inputs(i) : Inputs(i)[e] \in ToSet(order)
  BY <1>3 DEF Waiting
<1>5. Len(order) < Len(graph)
  <2>1. order \in Injection(1 .. Len(order), Positions \ {i})
    <3>1. \A n \in 1 .. Len(order) : order[n] \in Positions /\ order[n] # i
      BY <1>1, <1>3 DEF ToSet
    <3>2. order \in [1 .. Len(order) -> Positions \ {i}]
      BY <1>1, <3>1
    <3>3. \A m, n \in 1 .. Len(order) : order[m] = order[n] => m = n
      BY <1>1 DEF OrderInv, IsInjective
    <3> QED
      BY <3>2, <3>3 DEF Injection, IsInjective
  <2>2. IsFiniteSet(Positions \ {i}) /\ Cardinality(Positions \ {i}) = Len(graph) - 1
    <3>1. IsFiniteSet(Positions) /\ Cardinality(Positions) = Len(graph)
      BY <1>1, GraphFacts
    <3> QED
      BY <1>3, <3>1, FS_RemoveElement
  <2>3. Cardinality(1 .. Len(order)) <= Len(graph) - 1
    BY <2>1, <2>2, FS_Injection
  <2>4. Cardinality(1 .. Len(order)) = Len(order)
    <3>1. 1 \in Int /\ Len(order) \in Int
      BY <1>1
    <3>2. Cardinality(1 .. Len(order)) = IF 1 > Len(order) THEN 0 ELSE Len(order) - 1 + 1
      BY <3>1, FS_Interval
    <3> QED
      BY <1>1, <3>2
  <2>5. Len(graph) \in Nat
    BY <1>1, GraphFacts
  <2> QED
    BY <1>1, <2>3, <2>4, <2>5
<1>6. ASSUME NEW w \in Walks(i), w # <<>>
      PROVE  To(w[1]) \in ToSet(order) /\ Len(w) <= Len(order)
  <2>1. /\ w[1] \in Edges /\ w[1].from = i
        /\ Tail(w) \in Walks(To(w[1])) /\ Len(Tail(w)) = Len(w) - 1
    BY <1>1, <1>6, WalkTail
  <2>2. To(w[1]) \in ToSet(Inputs(i))
    BY <1>1, <2>1, EdgeFacts
  <2>3. To(w[1]) \in ToSet(order)
    BY <1>4, <2>2 DEF ToSet
  <2>4. PICK m \in DOMAIN order : To(w[1]) = order[m]
    BY <2>3 DEF ToSet
  <2>5. Len(Tail(w)) < m
    BY <2>1, <2>4 DEF OrderInv
  <2>6. Len(w) \in Nat
    BY <1>1, WalkElements
  <2> QED
    BY <1>1, <2>1, <2>3, <2>5, <2>6
<1>7. \A w \in Walks(i) : Len(w) <= Len(order)
  <2> TAKE w \in Walks(i)
  <2>1. CASE w = <<>>
    <3>1. Len(w) = 0
      BY <2>1
    <3> QED
      BY <1>1, <3>1
  <2> QED
    BY <1>6, <2>1
<1>8. Open(i, ToSet(order)) = Walks(i)
  BY <1>6 DEF Open
<1> QED
  BY <1>1, <1>3, <1>4, <1>5, <1>7, <1>8

(* What is counted for a node when one more is ordered. *)
LEMMA Widened ==
  ASSUME OrderInv, ready # {}, NEW i, i = Min(ready), NEW j \in Positions
  PROVE  LET T == ToSet(order) \cup {i}
         IN  /\ Cardinality(Waiting(j, T)) = pending[j] - Uses(i, j)
             /\ Cardinality(Open(j, T)) = expanded[j] + Uses(i, j) * expanded[i]
             /\ HasHeight(IF Uses(i, j) > 0 /\ depth[j] <= depth[i] THEN depth[i] + 1 ELSE depth[j],
                          Open(j, T))
             /\ Uses(i, j) = 0 => Waiting(j, T) = Waiting(j, ToSet(order))
             /\ Uses(i, j) > 0 => Waiting(j, ToSet(order)) # {}
<1> DEFINE done == ToSet(order)
           wider == done \cup {i}
           E == {e \in DOMAIN Inputs(j) : Inputs(j)[e] = i}
<1>1. graph \in Proposals /\ i \in Positions /\ i \notin done
      /\ Len(order) \in Nat /\ Len(order) < Len(graph)
      /\ (\A w \in Walks(i) : Len(w) <= Len(order)) /\ Open(i, done) = Walks(i)
  <2>1. graph \in Proposals
    BY DEF OrderInv
  <2> QED
    BY <2>1, NextReady
<1>2. Uses(i, j) = Cardinality(E) /\ Uses(i, j) \in Nat /\ (Uses(i, j) = 0 <=> E = {})
  <2>1. E \subseteq DOMAIN Inputs(j) /\ Uses(i, j) = Cardinality(E)
    BY DEF Uses
  <2> HIDE DEF E
  <2> QED
    BY <1>1, <2>1, InputsFinite
<1>3. Waiting(j, wider) = Waiting(j, done) \ E /\ E \subseteq Waiting(j, done)
  BY <1>1 DEF Waiting
<1>4. Cardinality(Waiting(j, wider)) = pending[j] - Uses(i, j)
  <2>1. IsFiniteSet(Waiting(j, done)) /\ Cardinality(Waiting(j, done)) = pending[j]
    BY <1>1, InputsFinite DEF Waiting, OrderInv
  <2>2. Waiting(j, done) \cap E = E
    BY <1>3
  <2>3. Cardinality(Waiting(j, done) \ E) = Cardinality(Waiting(j, done)) - Cardinality(Waiting(j, done) \cap E)
    <3> HIDE DEF E, done, wider
    <3> QED
      BY <2>1, FS_Difference
  <2> HIDE DEF E, done, wider
  <2> QED
    BY <1>2, <1>3, <2>1, <2>2, <2>3
<1>5. \A w \in Walks(i) : Len(w) < Len(graph)
  <2> TAKE w \in Walks(i)
  <2>1. Len(w) \in Nat /\ Len(graph) \in Nat
    BY <1>1, GraphFacts, WalkElements
  <2> QED
    BY <1>1, <2>1
<1>6. /\ \A w \in Through(i, j) : Tail(w) \in Walks(i) /\ Len(w) = Len(Tail(w)) + 1 /\ Uses(i, j) > 0
      /\ Uses(i, j) > 0 => \A w \in Walks(i) : \E v \in Through(i, j) : Len(v) = Len(w) + 1
      /\ IsFiniteSet(Through(i, j)) /\ Cardinality(Through(i, j)) = Uses(i, j) * Cardinality(Walks(i))
  BY <1>1, <1>5, ThroughCount
<1>7. Open(j, wider) = Open(j, done) \cup Through(i, j) /\ Open(j, done) \cap Through(i, j) = {}
  BY <1>1 DEF Open, Through
<1>8. Cardinality(Open(j, wider)) = expanded[j] + Uses(i, j) * expanded[i]
  <2>1. IsFiniteSet(Open(j, done)) /\ Cardinality(Open(j, done)) = expanded[j] /\ expanded[j] \in Nat
    <3>1. Open(j, done) \subseteq Walks(j) /\ IsFiniteSet(Walks(j))
      BY <1>1, WalksFinite DEF Open
    <3>2. Cardinality(Open(j, done)) = expanded[j]
      BY DEF OrderInv
    <3> QED
      BY <3>1, <3>2, FS_Subset, FS_CardinalityType
  <2>2. expanded[i] = Cardinality(Walks(i))
    BY <1>1 DEF OrderInv
  <2>3. Cardinality(Open(j, done) \cup Through(i, j)) = expanded[j] + Cardinality(Through(i, j)) - Cardinality({})
    <3> HIDE DEF done
    <3> QED
      BY <1>6, <1>7, <2>1, FS_Union
  <2>4. Cardinality({}) = 0 /\ Cardinality(Through(i, j)) \in Nat
    BY <1>6, FS_EmptySet, FS_CardinalityType
  <2> HIDE DEF done, wider
  <2>5. Cardinality(Open(j, wider)) = expanded[j] + Cardinality(Through(i, j))
    BY <1>7, <2>1, <2>3, <2>4
  <2> QED
    BY <1>6, <2>2, <2>5
<1>9. HasHeight(IF Uses(i, j) > 0 /\ depth[j] <= depth[i] THEN depth[i] + 1 ELSE depth[j], Open(j, wider))
  <2> DEFINE d == IF Uses(i, j) > 0 /\ depth[j] <= depth[i] THEN depth[i] + 1 ELSE depth[j]
  <2>1. /\ depth[i] \in Nat /\ depth[j] \in Nat
        /\ HasHeight(depth[i], Walks(i)) /\ HasHeight(depth[j], Open(j, done))
    BY <1>1 DEF OrderInv
  <2>2. \A w \in Through(i, j) : Uses(i, j) > 0 /\ Len(w) <= depth[i]
    <3> TAKE w \in Through(i, j)
    <3>1. Tail(w) \in Walks(i) /\ Len(w) = Len(Tail(w)) + 1 /\ Len(Tail(w)) \in Nat
      BY <1>1, <1>6, WalkElements
    <3>2. Len(Tail(w)) < depth[i]
      BY <2>1, <3>1 DEF HasHeight
    <3> QED
      BY <1>6, <2>1, <3>1, <3>2
  <2>3. ASSUME NEW w \in Open(j, wider) PROVE Len(w) < d
    <3>1. CASE w \in Open(j, done)
      <4>1. Len(w) < depth[j] /\ Len(w) \in Nat
        BY <1>1, <2>1, <3>1, WalkElements DEF HasHeight, Open
      <4> QED
        BY <2>1, <4>1
    <3>2. CASE w \in Through(i, j)
      <4>1. Len(w) <= depth[i] /\ Len(w) \in Nat /\ Uses(i, j) > 0
        BY <1>1, <2>2, <3>2, WalkElements DEF Through
      <4> QED
        BY <2>1, <4>1
    <3> HIDE DEF done, wider
    <3> QED
      BY <1>7, <3>1, <3>2
  <2>4. \E w \in Open(j, wider) : d = Len(w) + 1
    <3>1. CASE Uses(i, j) > 0 /\ depth[j] <= depth[i]
      <4>1. PICK v \in Walks(i) : depth[i] = Len(v) + 1
        BY <2>1 DEF HasHeight
      <4>2. PICK w \in Through(i, j) : Len(w) = Len(v) + 1
        BY <1>6, <3>1, <4>1
      <4> HIDE DEF done, wider
      <4> QED
        BY <1>7, <3>1, <4>1, <4>2
    <3>2. CASE ~(Uses(i, j) > 0 /\ depth[j] <= depth[i])
      <4> HIDE DEF done, wider
      <4> QED
        BY <1>7, <2>1, <3>2 DEF HasHeight
    <3> QED
      BY <3>1, <3>2
  <2> HIDE DEF d, wider
  <2> QED
    BY <2>3, <2>4 DEF HasHeight, d
<1>10. Uses(i, j) = 0 => Waiting(j, wider) = Waiting(j, done)
  BY <1>2, <1>3
<1>11. Uses(i, j) > 0 => Waiting(j, done) # {}
  BY <1>2, <1>3
<1> QED
  BY <1>4, <1>8, <1>9, <1>10, <1>11

-----------------------------------------------------------------------------
(* The greatest of a bounded set of numbers is one of them. *)
LEMMA GreatestOne ==
  ASSUME NEW n \in Nat, NEW T, T \subseteq 0 .. n, T # {}
  PROVE  Max(T) \in T /\ \A t \in T : Max(T) >= t
<1> DEFINE R == OpToRel(<, Nat)
           D == {k \in Nat : n - k \in T}
<1>1. D \subseteq Nat /\ D # {}
  <2>1. PICK t \in T : TRUE
    OBVIOUS
  <2>2. n - t \in Nat /\ n - (n - t) = t
    BY <2>1
  <2> QED
    BY <2>1, <2>2
<1>2. \E k \in D : \A j \in D : <<j, k>> \notin R
  <2> HIDE DEF D
  <2> QED
    BY <1>1, NatLessThanWellFounded, WFMin
<1>3. PICK k \in D : \A j \in D : ~(j < k)
  BY <1>2 DEF OpToRel
<1>4. ASSUME NEW t \in T PROVE n - k >= t
  <2>1. n - t \in Nat /\ n - (n - t) = t /\ t \in 0 .. n
    BY <1>4
  <2>2. n - t \in D
    BY <2>1
  <2>3. ~(n - t < k)
    BY <1>3, <2>2
  <2>4. k \in Nat
    BY <1>3
  <2> QED
    BY <2>1, <2>3, <2>4
<1>5. \E x \in T : \A y \in T : x >= y
  BY <1>3, <1>4
<1> QED
  BY <1>5 DEF Max

(* The height of a node is one more than the edges of its longest walk. *)
LEMMA HeightIs ==
  ASSUME graph \in Proposals, NEW j
  PROVE  HasHeight(Height(j), Walks(j)) /\ Height(j) \in Nat
<1> DEFINE L == {Len(w) + 1 : w \in Walks(j)}
<1>1. Len(graph) + 1 \in Nat /\ L \subseteq 0 .. Len(graph) + 1
  <2>1. Len(graph) \in Nat
    BY GraphFacts
  <2>2. \A w \in Walks(j) : Len(w) \in Nat /\ Len(w) <= Len(graph)
    BY WalkElements
  <2> QED
    BY <2>1, <2>2
<1>2. L # {}
  BY EmptyWalk
<1>3. Max(L) \in L /\ \A t \in L : Max(L) >= t
  <2> HIDE DEF L
  <2> QED
    BY <1>1, <1>2, GreatestOne
<1>4. Height(j) = Max(L)
  BY DEF Height
<1> DEFINE m == Max(L)
<1>5. m \in Nat /\ (\E w \in Walks(j) : m = Len(w) + 1) /\ \A w \in Walks(j) : Len(w) + 1 <= m /\ Len(w) \in Nat
  <2>1. (\E w \in Walks(j) : m = Len(w) + 1) /\ \A w \in Walks(j) : m >= Len(w) + 1
    <3> HIDE DEF m
    <3>1. m \in L /\ \A t \in L : m >= t
      BY <1>3 DEF m
    <3> QED
      BY <3>1
  <2>2. \A w \in Walks(j) : Len(w) \in Nat
    BY WalkElements
  <2> HIDE DEF m
  <2> QED
    BY <2>1, <2>2
<1> HIDE DEF m
<1>6. \A w \in Walks(j) : Len(w) < m
  BY <1>5
<1> QED
  BY <1>4, <1>5, <1>6 DEF HasHeight, m

(* No two numbers are the height of the same walks. *)
LEMMA HeightIsUnique ==
  ASSUME NEW d \in Nat, NEW o \in Nat, NEW W, HasHeight(d, W), HasHeight(o, W),
         \A w \in W : Len(w) \in Nat
  PROVE  d = o
  BY DEF HasHeight

-----------------------------------------------------------------------------
(* Before any node is ordered, every input is waited for and every node counts itself only. *)
LEMMA InitOrder ==
  ASSUME GraphInit
  PROVE  OrderInv
<1>1. PICK proposal \in Proposals : GraphStart(proposal)
  BY DEF GraphInit
<1>2. graph \in Proposals /\ order = <<>>
  BY <1>1 DEF GraphStart
<1>3. ToSet(order) = {} /\ order \in Seq(Positions) /\ DOMAIN order = {}
  BY <1>2 DEF ToSet
<1>4. ASSUME NEW j \in Positions
      PROVE  /\ Waiting(j, ToSet(order)) = DOMAIN Inputs(j)
             /\ Cardinality(Waiting(j, ToSet(order))) = Len(Inputs(j))
             /\ Len(Inputs(j)) = 0 <=> Waiting(j, ToSet(order)) = {}
  <2>1. Waiting(j, ToSet(order)) = DOMAIN Inputs(j)
    BY <1>3 DEF Waiting
  <2>2. DOMAIN Inputs(j) = 1 .. Len(Inputs(j)) /\ 1 \in Int /\ Len(Inputs(j)) \in Nat
    BY <1>2, GraphFacts
  <2>3. Cardinality(1 .. Len(Inputs(j))) = IF 1 > Len(Inputs(j)) THEN 0 ELSE Len(Inputs(j)) - 1 + 1
    BY <2>2, FS_Interval
  <2>4. Cardinality(1 .. Len(Inputs(j))) = Len(Inputs(j))
    BY <2>2, <2>3
  <2> QED
    BY <2>1, <2>2, <2>4
<1>5. ASSUME NEW j \in Positions
      PROVE  Cardinality(Open(j, ToSet(order))) = 1 /\ HasHeight(1, Open(j, ToSet(order)))
  <2>1. Open(j, ToSet(order)) = {<<>>}
    BY <1>2, <1>3, EmptyWalk DEF Open
  <2>2. Cardinality({<<>>}) = 1
    BY FS_Singleton
  <2> QED
    BY <2>1, <2>2 DEF HasHeight
<1>6. pending = [j \in Positions |-> Cardinality(Waiting(j, ToSet(order)))]
  BY <1>1, <1>4 DEF GraphStart
<1>7. ready = {j \in Positions \ ToSet(order) : Waiting(j, ToSet(order)) = {}}
  <2>1. ready = {j \in Positions : pending[j] = 0} /\ \A j \in Positions : pending[j] = Len(Inputs(j))
    BY <1>1 DEF GraphStart
  <2> QED
    BY <1>3, <1>4, <2>1
<1>8. expanded = [j \in Positions |-> Cardinality(Open(j, ToSet(order)))]
  BY <1>1, <1>5 DEF GraphStart
<1>9. depth \in [Positions -> Nat] /\ \A j \in Positions : HasHeight(depth[j], Open(j, ToSet(order)))
  BY <1>1, <1>5 DEF GraphStart
<1>10. IsInjective(order)
  BY <1>3 DEF IsInjective
<1> QED
  BY <1>2, <1>3, <1>6, <1>7, <1>8, <1>9, <1>10 DEF OrderInv

(* The step of topological() that orders a node. *)
LEMMA OrderAppended ==
  ASSUME OrderInv, ready # {}, graph' = graph, NEW i, i = Min(ready), order' = Append(order, i),
         pending' = [j \in Positions |-> pending[j] - Uses(i, j)],
         expanded' = [j \in Positions |-> expanded[j] + Uses(i, j) * expanded[i]],
         depth' = [j \in Positions |-> IF Uses(i, j) > 0 /\ depth[j] <= depth[i]
                                       THEN depth[i] + 1 ELSE depth[j]],
         ready' = (ready \ {i}) \cup {j \in Positions : Uses(i, j) > 0 /\ pending'[j] = 0}
  PROVE  OrderInv'
<1> DEFINE T == ToSet(order) \cup {i}
<1>1. graph \in Proposals /\ order \in Seq(Positions) /\ Len(order) \in Nat /\ DOMAIN order = 1 .. Len(order)
  BY DEF OrderInv
<1>2. /\ i \in Positions /\ i \notin ToSet(order)
      /\ \A e \in DOMAIN Inputs(i) : Inputs(i)[e] \in ToSet(order)
      /\ \A w \in Walks(i) : Len(w) <= Len(order)
  BY NextReady
<1>3. /\ order' \in Seq(Positions) /\ Len(order') = Len(order) + 1 /\ DOMAIN order' = 1 .. Len(order) + 1
      /\ \A n \in 1 .. Len(order) : order'[n] = order[n]
      /\ order'[Len(order) + 1] = i
  BY <1>1, <1>2, AppendProperties
<1>4. ToSet(order') = T
  <2>1. \A n \in DOMAIN order' : order'[n] \in T
    BY <1>1, <1>3 DEF ToSet
  <2>2. \A x \in T : \E n \in DOMAIN order' : order'[n] = x
    <3> TAKE x \in T
    <3>1. CASE x = i
      BY <1>1, <1>3, <3>1
    <3>2. CASE x \in ToSet(order)
      BY <1>1, <1>3, <3>2 DEF ToSet
    <3> QED
      BY <3>1, <3>2
  <2> HIDE DEF T
  <2> QED
    BY <2>1, <2>2 DEF ToSet
<1>5. IsInjective(order')
  <2>1. ASSUME NEW m \in DOMAIN order', NEW n \in DOMAIN order', order'[m] = order'[n] PROVE m = n
    <3>1. \A k \in 1 .. Len(order) : order'[k] \in ToSet(order)
      BY <1>1, <1>3 DEF ToSet
    <3>2. CASE m = Len(order) + 1 \/ n = Len(order) + 1
      BY <1>1, <1>2, <1>3, <2>1, <3>1, <3>2
    <3>3. CASE m # Len(order) + 1 /\ n # Len(order) + 1
      <4>1. m \in DOMAIN order /\ n \in DOMAIN order /\ order[m] = order[n]
        BY <1>1, <1>3, <2>1, <3>3
      <4> QED
        BY <4>1 DEF OrderInv, IsInjective
    <3> QED
      BY <3>2, <3>3
  <2> QED
    BY <2>1 DEF IsInjective
<1>6. ASSUME NEW n \in DOMAIN order'
      PROVE  /\ \A e \in DOMAIN Inputs(order'[n]) : \E m \in 1 .. n - 1 : order'[m] = Inputs(order'[n])[e]
             /\ \A w \in Walks(order'[n]) : Len(w) < n
  <2>1. CASE n = Len(order) + 1
    <3>1. order'[n] = i
      BY <1>3, <2>1
    <3>2. ASSUME NEW e \in DOMAIN Inputs(i) PROVE \E m \in 1 .. n - 1 : order'[m] = Inputs(i)[e]
      <4>1. PICK m \in DOMAIN order : order[m] = Inputs(i)[e]
        BY <1>2 DEF ToSet
      <4> QED
        BY <1>1, <1>3, <2>1, <4>1
    <3>3. \A w \in Walks(i) : Len(w) < n
      <4> TAKE w \in Walks(i)
      <4>1. Len(w) <= Len(order) /\ Len(w) \in Nat
        BY <1>1, <1>2, WalkElements
      <4> QED
        BY <1>1, <2>1, <4>1
    <3> QED
      BY <3>1, <3>2, <3>3
  <2>2. CASE n # Len(order) + 1
    <3>1. n \in DOMAIN order /\ order'[n] = order[n]
      BY <1>1, <1>3, <2>2
    <3>2. \A e \in DOMAIN Inputs(order[n]) : \E m \in 1 .. n - 1 : order[m] = Inputs(order[n])[e]
      BY <3>1 DEF OrderInv, After
    <3>3. \A m \in 1 .. n - 1 : order'[m] = order[m]
      BY <1>1, <1>3, <3>1
    <3>4. \A w \in Walks(order[n]) : Len(w) < n
      BY <3>1 DEF OrderInv
    <3> QED
      BY <3>1, <3>2, <3>3, <3>4
  <2> QED
    BY <2>1, <2>2
<1>7. \A j \in Positions : /\ Cardinality(Waiting(j, T)) = pending'[j]
                           /\ Cardinality(Open(j, T)) = expanded'[j]
                           /\ HasHeight(depth'[j], Open(j, T))
                           /\ Uses(i, j) = 0 => Waiting(j, T) = Waiting(j, ToSet(order))
                           /\ Uses(i, j) > 0 => Waiting(j, ToSet(order)) # {}
  <2> TAKE j \in Positions
  <2> DEFINE d == IF Uses(i, j) > 0 /\ depth[j] <= depth[i] THEN depth[i] + 1 ELSE depth[j]
  <2>1. /\ pending'[j] = pending[j] - Uses(i, j) /\ expanded'[j] = expanded[j] + Uses(i, j) * expanded[i]
        /\ depth'[j] = d
    OBVIOUS
  <2> HIDE DEF d
  <2> QED
    BY <2>1, Widened DEF d
<1>8. ready' = {j \in Positions \ T : Waiting(j, T) = {}}
  <2>1. ASSUME NEW j \in Positions
        PROVE  j \in ready' <=> j \notin T /\ Waiting(j, T) = {}
    <3>1. j \in ready <=> j \notin ToSet(order) /\ Waiting(j, ToSet(order)) = {}
      BY DEF OrderInv
    <3>2. j \in ready' <=> (j \in ready /\ j # i) \/ (Uses(i, j) > 0 /\ pending'[j] = 0)
      OBVIOUS
    <3>3. pending'[j] = 0 <=> Waiting(j, T) = {}
      <4>1. Waiting(j, T) \subseteq DOMAIN Inputs(j)
        BY DEF Waiting
      <4> HIDE DEF T
      <4> QED
        BY <1>1, <1>7, <4>1, InputsFinite
    <3>4. Uses(i, j) \in Nat
      <4>1. {e \in DOMAIN Inputs(j) : Inputs(j)[e] = i} \subseteq DOMAIN Inputs(j)
        OBVIOUS
      <4> QED
        BY <1>1, <4>1, InputsFinite DEF Uses
    <3>5. j \in ToSet(order) => Waiting(j, ToSet(order)) = {}
      <4> HAVE j \in ToSet(order)
      <4>1. PICK n \in DOMAIN order : j = order[n]
        BY DEF ToSet
      <4>2. \A e \in DOMAIN Inputs(j) : \E m \in 1 .. n - 1 : order[m] = Inputs(j)[e]
        BY <4>1 DEF OrderInv, After
      <4>3. \A m \in 1 .. n - 1 : order[m] \in ToSet(order)
        BY <1>1, <4>1 DEF ToSet
      <4> QED
        BY <4>2, <4>3 DEF Waiting
    <3>6. Waiting(i, ToSet(order)) = {}
      BY <1>2 DEF Waiting
    <3>7. CASE Uses(i, j) > 0
      <4>1. j \notin ToSet(order) /\ j # i /\ j \notin ready
        BY <1>7, <3>1, <3>5, <3>6, <3>7
      <4> QED
        BY <3>2, <3>3, <3>7, <4>1
    <3>8. CASE Uses(i, j) = 0
      <4>1. Waiting(j, T) = Waiting(j, ToSet(order))
        BY <1>7, <3>8
      <4> QED
        BY <3>1, <3>2, <3>8, <4>1
    <3>9. Uses(i, j) > 0 \/ Uses(i, j) = 0
      BY <3>4
    <3> QED
      BY <3>7, <3>8, <3>9
  <2>2. ready' \subseteq Positions
    BY DEF OrderInv
  <2> HIDE DEF T
  <2> QED
    BY <2>1, <2>2
<1>9. depth' \in [Positions -> Nat]
  <2>1. depth \in [Positions -> Nat] /\ depth[i] \in Nat
    BY <1>2 DEF OrderInv
  <2>2. \A j \in Positions : depth'[j] \in Nat
    BY <2>1
  <2> QED
    BY <2>2
<1>10. pending' = [j \in Positions |-> Cardinality(Waiting(j, T))]
  BY <1>7
<1>11. expanded' = [j \in Positions |-> Cardinality(Open(j, T))]
  BY <1>7
<1>12. /\ Positions' = Positions /\ graph' \in Proposals
       /\ \A j : Inputs(j)' = Inputs(j) /\ Walks(j)' = Walks(j)
       /\ \A j, S : Waiting(j, S)' = Waiting(j, S) /\ Open(j, S)' = Open(j, S)
  BY <1>1, SameGraph DEF Waiting, Open
<1> HIDE DEF T
<1>13. (\A n \in DOMAIN order : After(order, n))'
  <2>1. \A n \in DOMAIN order' : After(order', n)
    BY <1>6 DEF After
  <2>2. \A seq, n : After(seq, n)' <=> After(seq, n)
    BY DEF After, Inputs
  <2> QED
    BY <2>1, <2>2
<1>14. (\A n \in DOMAIN order : \A w \in Walks(order[n]) : Len(w) < n)'
  BY <1>6, <1>12
<1>15. (\A j \in Positions : HasHeight(depth[j], Open(j, ToSet(order))))'
  BY <1>4, <1>7, <1>12
<1>16. (pending = [j \in Positions |-> Cardinality(Waiting(j, ToSet(order)))])'
  BY <1>4, <1>10, <1>12
<1>17. (expanded = [j \in Positions |-> Cardinality(Open(j, ToSet(order)))])'
  BY <1>4, <1>11, <1>12
<1>18. (ready = {j \in Positions \ ToSet(order) : Waiting(j, ToSet(order)) = {}})'
  BY <1>4, <1>8, <1>12
<1> QED
  BY <1>3, <1>5, <1>9, <1>12, <1>13, <1>14, <1>15, <1>16, <1>17, <1>18 DEF OrderInv

-----------------------------------------------------------------------------
StageInv ==
    /\ stage \in {"ordering", "binding", "compiled", "refused", "graph_coverage", "graph_cycle", "work_limit"}
    /\ stage # "graph_coverage" => Reachable = Positions
    /\ stage \in {"binding", "compiled", "refused"} => Len(order) = Len(graph)
    /\ stage = "graph_cycle" => ~Acyclic
    /\ stage = "work_limit" /\ Acyclic => Expansion(Root) > MaxExpanded \/ Height(Root) > MaxDepth

(* A proposal that is ordered is one whose nodes the root all needs. *)
LEMMA InitStage ==
  ASSUME GraphInit
  PROVE  StageInv
  BY DEF GraphInit, GraphStart, StageInv

(* The expanded size and height of the root depend on the graph only. *)
LEMMA SameLimits ==
  ASSUME graph' = graph
  PROVE  Expansion(Root)' = Expansion(Root) /\ Height(Root)' = Height(Root)
<1>1. Root' = Root /\ \A j : Walks(j)' = Walks(j)
  BY SameGraph
<1>2. Walks(Root)' = Walks(Root)
  BY <1>1
<1> QED
  BY <1>2 DEF Expansion, Height

(* Steps that order nothing. *)
LEMMA OrderKept ==
  ASSUME OrderInv, UNCHANGED <<graph, ready, pending, order, expanded, depth>>
  PROVE  OrderInv'
<1>1. Positions' = Positions /\ \A j : Inputs(j)' = Inputs(j) /\ Walks(j)' = Walks(j)
  BY SameGraph
<1>2. \A j, S : Waiting(j, S)' = Waiting(j, S) /\ Open(j, S)' = Open(j, S)
  BY <1>1, SameGraph DEF Waiting, Open
<1>3. \A seq, n : After(seq, n)' <=> After(seq, n)
  BY DEF After, Inputs
<1>4. (pending = [j \in Positions |-> Cardinality(Waiting(j, ToSet(order)))])'
  BY <1>1, <1>2 DEF OrderInv
<1>5. (expanded = [j \in Positions |-> Cardinality(Open(j, ToSet(order)))])'
  BY <1>1, <1>2 DEF OrderInv
<1>6. (ready = {j \in Positions \ ToSet(order) : Waiting(j, ToSet(order)) = {}})'
  BY <1>1, <1>2 DEF OrderInv
<1> QED
  BY <1>1, <1>2, <1>3, <1>4, <1>5, <1>6 DEF OrderInv

(* A node that exceeds a limit is expanded below the root, which then exceeds it too. *)
LEMMA LimitsExceeded ==
  ASSUME OrderInv, Reachable = Positions, Acyclic, ready # {}, NEW i, i = Min(ready), NEW j \in Positions,
         \/ expanded[j] + Uses(i, j) * expanded[i] > MaxExpanded
         \/ (IF Uses(i, j) > 0 /\ depth[j] <= depth[i] THEN depth[i] + 1 ELSE depth[j]) > MaxDepth
  PROVE  Expansion(Root) > MaxExpanded \/ Height(Root) > MaxDepth
<1> DEFINE W == Open(j, ToSet(order) \cup {i})
           d == IF Uses(i, j) > 0 /\ depth[j] <= depth[i] THEN depth[i] + 1 ELSE depth[j]
           x == expanded[j] + Uses(i, j) * expanded[i]
<1>1. graph \in Proposals
  BY DEF OrderInv
<1>2. Cardinality(W) = x /\ HasHeight(d, W)
  BY Widened
<1>3. W \subseteq Walks(j)
  BY DEF Open
<1>4. /\ Expansion(j) <= Expansion(Root)
      /\ \A w \in Walks(j) : \E v \in Walks(Root) : Len(v) >= Len(w)
  BY <1>1, RootIsLargest
<1> HIDE DEF W, d, x
<1>5. x <= Expansion(Root) /\ x \in Nat /\ Expansion(Root) \in Nat
  <2>1. IsFiniteSet(Walks(j)) /\ IsFiniteSet(Walks(Root))
    BY <1>1, WalksFinite
  <2>2. IsFiniteSet(W) /\ Cardinality(W) <= Cardinality(Walks(j))
    BY <1>3, <2>1, FS_Subset
  <2>3. /\ Cardinality(W) \in Nat /\ Cardinality(Walks(j)) \in Nat
        /\ Cardinality(Walks(Root)) \in Nat
    BY <2>1, <2>2, FS_CardinalityType
  <2> QED
    BY <1>2, <1>4, <2>2, <2>3 DEF Expansion
<1>6. d <= Height(Root) /\ d \in Nat /\ Height(Root) \in Nat
  <2>1. PICK w \in W : d = Len(w) + 1
    BY <1>2 DEF HasHeight
  <2>2. PICK v \in Walks(Root) : Len(v) >= Len(w)
    BY <1>3, <1>4, <2>1
  <2>3. Len(v) < Height(Root) /\ Height(Root) \in Nat
    BY <1>1, HeightIs DEF HasHeight
  <2>4. Len(v) \in Nat /\ Len(w) \in Nat
    BY <1>1, <1>3, WalkElements
  <2> QED
    BY <2>1, <2>2, <2>3, <2>4
<1>7. x > MaxExpanded \/ d > MaxDepth
  BY DEF x, d
<1> QED
  BY <1>5, <1>6, <1>7, GraphAssumption

(* A step of topological() keeps the invariants, or refuses a graph that is too large or deep. *)
LEMMA OrderingKeeps ==
  ASSUME OrderInv, StageInv, OrderNext
  PROVE  OrderInv' /\ StageInv' /\ stage' \in {"ordering", "work_limit"}
<1> DEFINE i == Min(ready)
           more == [j \in Positions |-> expanded[j] + Uses(i, j) * expanded[i]]
           deeper == [j \in Positions |-> IF j \in {n \in Positions : Uses(i, n) > 0} /\ depth[j] <= depth[i]
                                          THEN depth[i] + 1 ELSE depth[j]]
           left == [j \in Positions |-> pending[j] - Uses(i, j)]
<1>1. stage = "ordering" /\ ready # {} /\ graph' = graph /\ Reachable = Positions
  BY DEF OrderNext, StageInv
<1>2. Reachable' = Positions' /\ (Acyclic' <=> Acyclic)
      /\ Expansion(Root)' = Expansion(Root) /\ Height(Root)' = Height(Root)
  BY <1>1, SameGraph, SameLimits
<1>3. CASE \E j \in Positions : Uses(i, j) > 0 /\ (more[j] > MaxExpanded \/ deeper[j] > MaxDepth)
  <2>1. stage' = "work_limit" /\ UNCHANGED <<graph, ready, pending, order, expanded, depth>>
    BY <1>1, <1>3 DEF OrderNext
  <2>2. Acyclic => Expansion(Root) > MaxExpanded \/ Height(Root) > MaxDepth
    <3> HAVE Acyclic
    <3>1. PICK j \in Positions : Uses(i, j) > 0 /\ (more[j] > MaxExpanded \/ deeper[j] > MaxDepth)
      BY <1>3
    <3>2. \/ expanded[j] + Uses(i, j) * expanded[i] > MaxExpanded
          \/ (IF Uses(i, j) > 0 /\ depth[j] <= depth[i] THEN depth[i] + 1 ELSE depth[j]) > MaxDepth
      BY <3>1
    <3> QED
      BY <1>1, <3>2, LimitsExceeded
  <2> QED
    BY <1>2, <2>1, <2>2, OrderKept DEF StageInv
<1>4. CASE ~\E j \in Positions : Uses(i, j) > 0 /\ (more[j] > MaxExpanded \/ deeper[j] > MaxDepth)
  <2>1. /\ order' = Append(order, i) /\ pending' = left /\ expanded' = more /\ depth' = deeper
        /\ ready' = (ready \ {i}) \cup {j \in {n \in Positions : Uses(i, n) > 0} : left[j] = 0}
        /\ stage' = stage
    BY <1>1, <1>4 DEF OrderNext
  <2>2. deeper = [j \in Positions |-> IF Uses(i, j) > 0 /\ depth[j] <= depth[i]
                                      THEN depth[i] + 1 ELSE depth[j]]
    OBVIOUS
  <2>3. {j \in {n \in Positions : Uses(i, n) > 0} : left[j] = 0} = {j \in Positions : Uses(i, j) > 0 /\ left[j] = 0}
    OBVIOUS
  <2>4. OrderInv'
    <3>1. \E k : /\ k = Min(ready) /\ order' = Append(order, k)
                 /\ pending' = [j \in Positions |-> pending[j] - Uses(k, j)]
                 /\ expanded' = [j \in Positions |-> expanded[j] + Uses(k, j) * expanded[k]]
                 /\ depth' = [j \in Positions |-> IF Uses(k, j) > 0 /\ depth[j] <= depth[k]
                                                  THEN depth[k] + 1 ELSE depth[j]]
                 /\ ready' = (ready \ {k}) \cup {j \in Positions : Uses(k, j) > 0 /\ pending'[j] = 0}
      BY <2>1, <2>2, <2>3
    <3> HIDE DEF i, left, more, deeper
    <3> QED
      BY <1>1, <3>1, OrderAppended
  <2> QED
    BY <1>1, <1>2, <2>1, <2>4 DEF StageInv
<1> QED
  BY <1>3, <1>4

(* What is left when nothing is ready is everything, or it has a cycle. *)
LEMMA OrderEnds ==
  ASSUME OrderInv, StageInv, OrderEnd
  PROVE  OrderInv' /\ StageInv' /\ stage' \in {"binding", "graph_cycle"}
<1>1. /\ stage = "ordering" /\ ready = {} /\ UNCHANGED <<graph, ready, pending, order, expanded, depth>>
      /\ stage' = IF Len(order) = Len(graph) THEN "binding" ELSE "graph_cycle"
      /\ graph \in Proposals /\ Reachable = Positions
  BY DEF OrderEnd, StageInv, OrderInv
<1>2. OrderInv'
  BY <1>1, OrderKept
<1>3. ASSUME Len(order) # Len(graph) PROVE ~Acyclic
  <2> DEFINE S == Positions \ ToSet(order)
  <2>1. S # {}
    <3> SUFFICES ASSUME Positions \subseteq ToSet(order) PROVE FALSE
      OBVIOUS
    <3>1. Len(order) \in Nat /\ order \in [1 .. Len(order) -> Positions]
      BY DEF OrderInv
    <3>2. order \in Bijection(1 .. Len(order), Positions)
      BY <3>1 DEF Bijection, Injection, Surjection, OrderInv, IsInjective, ToSet
    <3>3. Cardinality(Positions) = Len(order)
      BY <3>1, <3>2, FS_CountingElements DEF ExistsBijection
    <3> QED
      BY <1>1, <1>3, <3>3, GraphFacts
  <2>2. ASSUME NEW j \in S PROVE ToSet(Inputs(j)) \cap S # {}
    <3>1. PICK e \in DOMAIN Inputs(j) : Inputs(j)[e] \notin ToSet(order)
      BY <1>1 DEF OrderInv, Waiting
    <3>2. Inputs(j)[e] \in Positions
      BY <1>1, GraphFacts
    <3> QED
      BY <3>1, <3>2 DEF ToSet
  <2>3. S \in (SUBSET Positions) \ {{}}
    BY <2>1
  <2> HIDE DEF S
  <2> QED
    BY <2>2, <2>3 DEF Acyclic
<1>4. StageInv'
  <2>1. Reachable' = Positions' /\ (Acyclic' <=> Acyclic)
    BY <1>1, SameGraph
  <2> QED
    BY <1>1, <1>3, <2>1 DEF StageInv
<1> QED
  BY <1>1, <1>2, <1>4

(* Binding changes nothing that is ordered. *)
LEMMA StageKept ==
  ASSUME OrderInv, StageInv, UNCHANGED <<graph, ready, pending, order, expanded, depth>>,
         stage \in {"binding", "compiled", "refused"}, stage' \in {"binding", "compiled", "refused"}
  PROVE  OrderInv' /\ StageInv'
<1>1. OrderInv' /\ Reachable' = Positions'
  BY OrderKept, SameGraph DEF StageInv
<1> QED
  BY <1>1 DEF StageInv

(* OrderIsTopological is what the two invariants say of a complete order. *)
LEMMA Topological ==
  ASSUME OrderInv, StageInv
  PROVE  OrderIsTopological
<1> SUFFICES ASSUME stage = "binding"
             PROVE  /\ IsInjective(order) /\ ToSet(order) = Positions
                    /\ \A m, n \in DOMAIN order : order[m] \in ToSet(Inputs(order[n])) => m < n
                    /\ \A j \in Positions : expanded[j] = Expansion(j) /\ depth[j] = Height(j)
  BY DEF OrderIsTopological, StageInv
<1>1. /\ graph \in Proposals /\ Len(order) = Len(graph) /\ IsInjective(order)
      /\ order \in [1 .. Len(order) -> Positions] /\ Len(order) \in Nat
  BY DEF OrderInv, StageInv
<1>2. ToSet(order) = Positions
  <2>1. order \in Injection(1 .. Len(order), Positions)
    BY <1>1 DEF Injection
  <2>2. IsFiniteSet(Positions) /\ Positions = 1 .. Len(order)
    BY <1>1, GraphFacts
  <2>3. order \in Surjection(1 .. Len(order), Positions)
    BY <2>1, <2>2, FS_Injection
  <2> QED
    BY <1>1, <2>3 DEF Surjection, ToSet
<1>3. ASSUME NEW m \in DOMAIN order, NEW n \in DOMAIN order, order[m] \in ToSet(Inputs(order[n]))
      PROVE  m < n
  <2>1. PICK k \in 1 .. n - 1 : order[k] = order[m]
    BY <1>3 DEF OrderInv, After, ToSet
  <2>2. k \in DOMAIN order /\ n \in Nat
    BY <1>1, <2>1
  <2>3. k = m
    BY <1>1, <2>1, <2>2 DEF IsInjective
  <2> QED
    BY <2>1, <2>2, <2>3
<1>4. ASSUME NEW j \in Positions PROVE expanded[j] = Expansion(j) /\ depth[j] = Height(j)
  <2>1. Open(j, ToSet(order)) = Walks(j)
    <3>1. \A w \in Walks(j) : w # <<>> => To(w[1]) \in Positions
      BY <1>1, WalkTail, EdgeFacts
    <3> QED
      BY <1>2, <3>1 DEF Open
  <2>2. expanded[j] = Expansion(j)
    BY <2>1 DEF OrderInv, Expansion
  <2>3. depth[j] \in Nat /\ HasHeight(depth[j], Walks(j))
    BY <2>1 DEF OrderInv
  <2>4. \A w \in Walks(j) : Len(w) \in Nat
    BY <1>1, WalkElements
  <2> QED
    BY <1>1, <2>2, <2>3, <2>4, HeightIs, HeightIsUnique
<1> QED
  BY <1>1, <1>2, <1>3, <1>4

-----------------------------------------------------------------------------
(* Predicates: what is emitted as text against what the direct plan says.  *)

(* A set of numbers that is not empty has a smallest one. *)
LEMMA SmallestOne ==
  ASSUME NEW T, T \subseteq Nat, T # {}
  PROVE  \E t \in T : \A s \in T : t <= s
<1> DEFINE R == OpToRel(<, Nat)
<1>1. \E t \in T : \A s \in T : <<s, t>> \notin R
  BY NatLessThanWellFounded, WFMin
<1>2. PICK t \in T : \A s \in T : ~(s < t)
  BY <1>1 DEF OpToRel
<1> QED
  BY <1>2

(* The first M values of f are what F makes of the values before them. *)
Solves(f, F, M) == \A n \in 1 .. M : f[n] = F[n][[m \in 1 .. n - 1 |-> f[m]]]

(* A definition by recursion over 1 .. N has a solution: the smallest M without one is neither 0 nor
   the successor of a number with one. *)
LEMMA RecursionExists ==
  ASSUME NEW N \in Nat, NEW V, NEW F,
         \A n \in 1 .. N : \A g \in [1 .. n - 1 -> V] : F[n][g] \in V
  PROVE  \E f \in [1 .. N -> V] : Solves(f, F, N)
<1> DEFINE T == {M \in 0 .. N : ~ \E f \in [1 .. M -> V] : Solves(f, F, M)}
<1>1. SUFFICES ASSUME T # {} PROVE FALSE
  <2>1. T = {} => ~(N \in T)
    OBVIOUS
  <2> QED
    BY <1>1, <2>1
<1>2. PICK M \in T : \A s \in T : M <= s
  <2>1. T \subseteq Nat
    OBVIOUS
  <2> HIDE DEF T
  <2> QED
    BY <1>1, <2>1, SmallestOne
<1>3. M \in 0 .. N /\ ~ \E f \in [1 .. M -> V] : Solves(f, F, M)
  BY <1>2
<1>4. CASE M = 0
  <2>1. [n \in 1 .. 0 |-> n] \in [1 .. 0 -> V]
    OBVIOUS
  <2>2. Solves([n \in 1 .. 0 |-> n], F, 0)
    BY DEF Solves
  <2> QED
    BY <1>3, <1>4, <2>1, <2>2
<1>5. CASE M # 0
  <2>1. M - 1 \in 0 .. N /\ M - 1 \notin T
    BY <1>2, <1>3, <1>5
  <2>2. PICK f \in [1 .. M - 1 -> V] : Solves(f, F, M - 1)
    BY <2>1
  <2> DEFINE v == F[M][f]
             h == [n \in 1 .. M |-> IF n = M THEN v ELSE f[n]]
  <2>3. v \in V
    BY <1>3, <1>5, <2>2
  <2>4. h \in [1 .. M -> V]
    BY <1>3, <2>2, <2>3
  <2>5. ASSUME NEW n \in 1 .. M PROVE h[n] = F[n][[m \in 1 .. n - 1 |-> h[m]]]
    <3>1. \A m \in 1 .. n - 1 : m \in 1 .. M - 1 /\ h[m] = f[m]
      BY <1>3, <2>5
    <3>2. [m \in 1 .. n - 1 |-> h[m]] = [m \in 1 .. n - 1 |-> f[m]]
      BY <3>1
    <3>3. CASE n = M
      <4>1. [m \in 1 .. n - 1 |-> f[m]] = f
        BY <3>3, <2>2
      <4>2. h[n] = v
        BY <3>3
      <4> QED
        BY <3>2, <4>1, <4>2, <3>3
    <3>4. CASE n # M
      <4>1. n \in 1 .. M - 1 /\ h[n] = f[n]
        BY <3>4, <1>3, <2>5
      <4>2. f[n] = F[n][[m \in 1 .. n - 1 |-> f[m]]]
        BY <4>1, <2>2 DEF Solves
      <4> HIDE DEF h
      <4> QED
        BY <4>1, <4>2, <3>2
    <3> QED
      BY <3>3, <3>4
  <2> HIDE DEF h
  <2>6. Solves(h, F, M)
    BY <2>5 DEF Solves
  <2> QED
    BY <2>4, <2>6, <1>3
<1> QED
  BY <1>4, <1>5

(* The kinds of predicates, and what is said of a row. *)
Truths == {"true", "false", "unknown"}
Atoms == {"eq", "lt", "is_null"}
Groups == {"all", "any"}

(* The operands of a predicate have smaller numbers. *)
LEMMA TreeFacts ==
  /\ Len(Tree) \in Nat /\ DOMAIN Tree = 1 .. Len(Tree)
  /\ \A n \in DOMAIN Tree :
        /\ Tree[n].kind \in Atoms \cup Groups \cup {"not"}
        /\ Tree[n].kids \in Seq(1 .. n - 1)
        /\ \A e \in DOMAIN Tree[n].kids : Tree[n].kids[e] \in 1 .. n - 1
        /\ Tree[n].kind = "not" => DOMAIN Tree[n].kids = {1}
        /\ Tree[n].kind \in Groups => Len(Tree[n].kids) >= 1
<1>1. Len(Tree) \in Nat /\ DOMAIN Tree = 1 .. Len(Tree)
  BY TreeAssumption
<1>2. ASSUME NEW n \in DOMAIN Tree
      PROVE  /\ Tree[n].kind \in Atoms \cup Groups \cup {"not"}
             /\ Tree[n].kids \in Seq(1 .. n - 1)
             /\ \A e \in DOMAIN Tree[n].kids : Tree[n].kids[e] \in 1 .. n - 1
             /\ Tree[n].kind = "not" => DOMAIN Tree[n].kids = {1}
             /\ Tree[n].kind \in Groups => Len(Tree[n].kids) >= 1
  <2>1. /\ Tree[n].kind \in {"eq", "lt", "is_null", "not", "all", "any"}
        /\ Tree[n].kids \in Seq(Nat \ {0})
    <3> DEFINE R == [kind : {"eq", "lt", "is_null", "not", "all", "any"}, slot : STRING,
                     value : Literals, kids : Seq(Nat \ {0})]
    <3>1. Tree \in Seq(R)
      BY TreeAssumption
    <3>2. Tree[n] \in R
      <4> HIDE DEF R
      <4> QED
        BY <3>1
    <3> QED
      BY <3>2
  <2>2. \A e \in DOMAIN Tree[n].kids : Tree[n].kids[e] \in Nat \ {0} /\ Tree[n].kids[e] < n
    BY <2>1, TreeAssumption DEF ToSet
  <2>3. n \in Nat
    BY <1>1
  <2>4. \A e \in DOMAIN Tree[n].kids : Tree[n].kids[e] \in 1 .. n - 1
    BY <2>2, <2>3
  <2>5. Tree[n].kids \in Seq(1 .. n - 1)
    <3> DEFINE s == Tree[n].kids
    <3>1. Len(s) \in Nat /\ DOMAIN s = 1 .. Len(s) /\ s = [e \in 1 .. Len(s) |-> s[e]]
      BY <2>1
    <3>2. s \in [1 .. Len(s) -> 1 .. n - 1]
      BY <3>1, <2>4
    <3> QED
      BY <3>1, <3>2, SeqDef
  <2>6. Tree[n].kind = "not" => DOMAIN Tree[n].kids = {1}
    BY <2>1, TreeAssumption
  <2>7. Tree[n].kind \in Groups => Len(Tree[n].kids) >= 1
    BY <2>1, TreeAssumption DEF Groups
  <2> QED
    BY <2>1, <2>4, <2>5, <2>6, <2>7 DEF Atoms, Groups
<1> QED
  BY <1>1, <1>2

(* Predicates are true, false or unknown. *)
LEMMA TruthsAre ==
  /\ \A S : And3(S) \in Truths /\ Or3(S) \in Truths
  /\ \A v : Not3(v) \in Truths
  /\ \A p, row : Atom3(p, row) \in Truths
<1>1. \A S : And3(S) \in Truths /\ Or3(S) \in Truths
  BY DEF And3, Or3, Truths
<1>2. \A v : Not3(v) \in Truths
  BY DEF Not3, Truths
<1>3. ASSUME NEW p, NEW row PROVE Atom3(p, row) \in Truths
  BY DEF Atom3, Compare3, Bool3, Truths
<1> QED
  BY <1>1, <1>2, <1>3

(* One step of the recursion in Direct, and its solution. *)
DirectCase(n, row, truth) ==
    LET p == Tree[n]
        kids == {truth[k] : k \in ToSet(p.kids)}
    IN  CASE p.kind = "all" -> And3(kids)
          [] p.kind = "any" -> Or3(kids)
          [] p.kind = "not" -> Not3(truth[p.kids[1]])
          [] OTHER -> Atom3(p, row)
DirectTruth(row) == CHOOSE truth : truth = [n \in DOMAIN Tree |-> DirectCase(n, row, truth)]

(* What the direct plan says is that solution. *)
LEMMA DirectIs ==
  ASSUME NEW i, NEW row
  PROVE  Direct(i, row) = DirectTruth(row)[i]
BY DEF Direct, DirectTruth, DirectCase

(* The operands of predicate n are among the first n - 1. *)
LEMMA KidsSame ==
  ASSUME NEW n \in DOMAIN Tree, NEW f
  PROVE  /\ \A e \in DOMAIN Tree[n].kids : [m \in 1 .. n - 1 |-> f[m]][Tree[n].kids[e]] = f[Tree[n].kids[e]]
         /\ \A k \in ToSet(Tree[n].kids) : k \in 1 .. n - 1 /\ [m \in 1 .. n - 1 |-> f[m]][k] = f[k]
<1>1. \A e \in DOMAIN Tree[n].kids : Tree[n].kids[e] \in 1 .. n - 1
  BY TreeFacts
<1> QED
  BY <1>1 DEF ToSet

(* What the direct plan says of a predicate depends on its operands only. *)
LEMMA DirectDepends ==
  ASSUME NEW n \in DOMAIN Tree, NEW row, NEW f
  PROVE  DirectCase(n, row, [m \in 1 .. n - 1 |-> f[m]]) = DirectCase(n, row, f)
<1> DEFINE g == [m \in 1 .. n - 1 |-> f[m]]
           kids == ToSet(Tree[n].kids)
<1>1. \A k \in kids : g[k] = f[k]
  BY KidsSame
<1>2. {g[k] : k \in kids} = {f[k] : k \in kids}
  BY <1>1
<1>3. Tree[n].kind = "not" => g[Tree[n].kids[1]] = f[Tree[n].kids[1]]
  BY KidsSame, TreeFacts
<1> HIDE DEF g
<1>4. DirectCase(n, row, g) = DirectCase(n, row, f)
  BY <1>2, <1>3 DEF DirectCase
<1> QED
  BY <1>4 DEF g

(* CheckedPredicate::direct is total: every predicate is what its operator makes of its operands. *)
LEMMA DirectRecursive ==
  ASSUME NEW row
  PROVE  /\ DirectTruth(row) \in [DOMAIN Tree -> Truths]
         /\ \A n \in DOMAIN Tree : DirectTruth(row)[n] = DirectCase(n, row, DirectTruth(row))
<1> DEFINE N == Len(Tree)
           F == [n \in 1 .. N |-> [g \in [1 .. n - 1 -> Truths] |-> DirectCase(n, row, g)]]
<1>1. N \in Nat /\ DOMAIN Tree = 1 .. N
  BY TreeFacts
<1>2. \A n, g : DirectCase(n, row, g) \in Truths
  <2> TAKE n, g
  <2> QED
    BY TruthsAre DEF DirectCase
<1>3. \A n \in 1 .. N : \A g \in [1 .. n - 1 -> Truths] : F[n][g] = DirectCase(n, row, g)
  OBVIOUS
<1> HIDE DEF F, N
<1>4. PICK f \in [1 .. N -> Truths] : Solves(f, F, N)
  <2>1. \A n \in 1 .. N : \A g \in [1 .. n - 1 -> Truths] : F[n][g] \in Truths
    BY <1>2, <1>3
  <2> QED
    BY <1>1, <2>1, RecursionExists
<1>5. \A n \in 1 .. N : f[n] = DirectCase(n, row, f)
  <2> TAKE n \in 1 .. N
  <2>1. [m \in 1 .. n - 1 |-> f[m]] \in [1 .. n - 1 -> Truths]
    BY <1>1, <1>4
  <2>2. f[n] = F[n][[m \in 1 .. n - 1 |-> f[m]]]
    BY <1>4 DEF Solves
  <2> QED
    BY <1>1, <1>3, <2>1, <2>2, DirectDepends
<1>6. f = [n \in DOMAIN Tree |-> DirectCase(n, row, f)]
  BY <1>1, <1>4, <1>5
<1>7. DirectTruth(row) = [n \in DOMAIN Tree |-> DirectCase(n, row, DirectTruth(row))]
  BY <1>6 DEF DirectTruth
<1> QED
  BY <1>2, <1>7

(* One step of the reduction of texts, and all of them. *)
Step(kind, s, t) == IF kind = "all" THEN JoinAnd(s, t) ELSE s \o t
Closed(kind, Q) == \A s, t \in Q : Step(kind, s, t) \in Q
Reduces(joined, kind, texts, m) ==
    /\ joined[1] = texts[1]
    /\ \A e \in 2 .. m : joined[e] = Step(kind, joined[e - 1], texts[e])
    /\ Reduced(kind, texts) = joined[m]

(* The solution of the recursion in Reduced. *)
JoinedTexts(kind, texts) ==
    CHOOSE joined : joined = [e \in DOMAIN texts |->
            IF e = 1 THEN texts[1]
            ELSE IF kind = "all" THEN JoinAnd(joined[e - 1], texts[e]) ELSE joined[e - 1] \o texts[e]]

(* What a group is reduced to is that solution at the last text. *)
LEMMA ReducedIs ==
  ASSUME NEW kind, NEW texts
  PROVE  Reduced(kind, texts) = JoinedTexts(kind, texts)[Len(texts)]
BY DEF Reduced, JoinedTexts

(* Texts are reduced from the left, to a text of any set that the step does not leave. *)
LEMMA ReducedRecursive ==
  ASSUME NEW Q, NEW kind, NEW m \in Nat, m # 0, NEW texts \in [1 .. m -> Q],
         Closed(kind, Q)
  PROVE  \E joined \in [1 .. m -> Q] : Reduces(joined, kind, texts, m)
<1> DEFINE C(e, g) == IF e = 1 THEN texts[1] ELSE Step(kind, g[e - 1], texts[e])
           F == [e \in 1 .. m |-> [g \in [1 .. e - 1 -> Q] |-> C(e, g)]]
<1>0. \A s, t \in Q : Step(kind, s, t) \in Q
  BY DEF Closed
<1>1. \A e \in 1 .. m : \A g \in [1 .. e - 1 -> Q] : F[e][g] = C(e, g)
  OBVIOUS
<1>2. \A e \in 1 .. m : \A g \in [1 .. e - 1 -> Q] : C(e, g) \in Q
  BY <1>0
<1> HIDE DEF F
<1>3. PICK f \in [1 .. m -> Q] : Solves(f, F, m)
  <2>1. \A e \in 1 .. m : \A g \in [1 .. e - 1 -> Q] : F[e][g] \in Q
    BY <1>1, <1>2
  <2> QED
    BY <2>1, RecursionExists
<1>4. \A e \in 1 .. m : f[e] = C(e, f)
  <2> TAKE e \in 1 .. m
  <2> DEFINE g == [n \in 1 .. e - 1 |-> f[n]]
  <2>1. g \in [1 .. e - 1 -> Q]
    BY <1>3
  <2>2. f[e] = F[e][g]
    BY <1>3 DEF Solves
  <2>3. e # 1 => g[e - 1] = f[e - 1]
    OBVIOUS
  <2>4. f[e] = C(e, g)
    <3> HIDE DEF g, C
    <3> QED
      BY <1>1, <2>1, <2>2
  <2>5. C(e, g) = C(e, f)
    <3> HIDE DEF g
    <3> QED
      BY <2>3
  <2> QED
    BY <2>4, <2>5
<1>5. f = [e \in DOMAIN texts |->
            IF e = 1 THEN texts[1]
            ELSE IF kind = "all" THEN JoinAnd(f[e - 1], texts[e]) ELSE f[e - 1] \o texts[e]]
  BY <1>3, <1>4 DEF Step
<1> DEFINE j == JoinedTexts(kind, texts)
<1>6. j = [e \in DOMAIN texts |->
            IF e = 1 THEN texts[1]
            ELSE IF kind = "all" THEN JoinAnd(j[e - 1], texts[e]) ELSE j[e - 1] \o texts[e]]
  BY <1>5 DEF JoinedTexts
<1>7. Len(texts) = m
  <2>1. texts \in Seq(Q)
    BY SeqDef
  <2> QED
    BY <2>1
<1> HIDE DEF j
<1>8. /\ j[1] = texts[1]
      /\ \A e \in 2 .. m : j[e] = Step(kind, j[e - 1], texts[e])
  <2> DEFINE C2(e) == IF e = 1 THEN texts[1]
                      ELSE IF kind = "all" THEN JoinAnd(j[e - 1], texts[e]) ELSE j[e - 1] \o texts[e]
  <2>1. j = [e \in 1 .. m |-> C2(e)]
    BY <1>6
  <2> HIDE DEF C2
  <2>2. \A e \in 1 .. m : j[e] = C2(e)
    BY <2>1
  <2>3. C2(1) = texts[1] /\ \A e \in 2 .. m : C2(e) = Step(kind, j[e - 1], texts[e])
    BY DEF C2, Step
  <2>4. 1 \in 1 .. m /\ \A e \in 2 .. m : e \in 1 .. m
    OBVIOUS
  <2> QED
    BY <2>2, <2>3, <2>4
<1>9. \A e \in 1 .. m : j[e] \in Q
  <2> DEFINE T == {e \in 1 .. m : j[e] \notin Q}
  <2> SUFFICES ASSUME T # {} PROVE FALSE
    OBVIOUS
  <2>1. PICK e \in T : \A d \in T : e <= d
    <3>1. T \subseteq Nat
      OBVIOUS
    <3> HIDE DEF T
    <3> QED
      BY <3>1, SmallestOne
  <2>2. e # 1
    BY <2>1, <1>8
  <2>3. e - 1 \in 1 .. m /\ e - 1 \notin T
    BY <2>1, <2>2
  <2>4. j[e - 1] \in Q /\ texts[e] \in Q /\ e \in 2 .. m
    BY <2>1, <2>2, <2>3
  <2>5. j[e] \in Q
    BY <2>4, <1>0, <1>8
  <2> QED
    BY <2>1, <2>5
<1>10. j \in [1 .. m -> Q] /\ Reduced(kind, texts) = j[m]
  <2>1. j \in [1 .. m -> Q]
    BY <1>6, <1>9
  <2> QED
    BY <2>1, <1>7, ReducedIs DEF j
<1> QED
  BY <1>8, <1>10 DEF Reduces

(* Texts of operands in B, and those without OR. *)
Many(B) == Seq(Seq(B)) \ {<<>>}
Single(B) == {t \in Seq(Seq(B)) : Len(t) = 1}

(* Joining texts gives a text. *)
LEMMA JoinMany ==
  ASSUME NEW B, NEW s \in Many(B), NEW t \in Many(B)
  PROVE  JoinAnd(s, t) \in Many(B) /\ s \o t \in Many(B)
<1> DEFINE A == Seq(B)
<1>1. s \in Seq(A) /\ t \in Seq(A) /\ Len(s) >= 1 /\ Len(t) >= 1
  BY DEF Many
<1>2. s[Len(s)] \in A /\ t[1] \in A
  BY <1>1
<1>3. s[Len(s)] \o t[1] \in A
  BY <1>2
<1> HIDE DEF A
<1>4. Front(s) \in Seq(A) /\ Tail(t) \in Seq(A) /\ Last(s) = s[Len(s)] /\ Head(t) = t[1]
  BY <1>1 DEF Front, Last
<1>5. <<Last(s) \o Head(t)>> \in Seq(A) /\ Len(<<Last(s) \o Head(t)>>) = 1
  BY <1>3, <1>4
<1> DEFINE mid == <<Last(s) \o Head(t)>>
<1> HIDE DEF mid
<1>6. Front(s) \o mid \o Tail(t) \in Seq(A) /\ Len(Front(s) \o mid \o Tail(t)) >= 1
  BY <1>4, <1>5 DEF mid
<1>7. s \o t \in Seq(A) /\ Len(s \o t) >= 1
  BY <1>1
<1> QED
  BY <1>6, <1>7 DEF JoinAnd, mid, A, Many

(* Joining texts without OR appends the operands of AND. *)
LEMMA JoinSingle ==
  ASSUME NEW B, NEW s \in Single(B), NEW t \in Single(B)
  PROVE  /\ JoinAnd(s, t) \in Single(B)
         /\ JoinAnd(s, t)[1] = s[1] \o t[1]
<1>1. s \in Seq(Seq(B)) /\ t \in Seq(Seq(B)) /\ Len(s) = 1 /\ Len(t) = 1
  BY DEF Single
<1>2. s[1] \in Seq(B) /\ t[1] \in Seq(B)
  BY <1>1
<1>3. Last(s) = s[1] /\ Head(t) = t[1]
  BY <1>1 DEF Last
<1>4. Front(s) = <<>> /\ Tail(t) = <<>>
  <2>1. Front(s) = <<>>
    <3>1. Front(s) = SubSeq(s, 1, 0)
      BY <1>1 DEF Front
    <3> QED
      BY <1>1, <3>1, SubSeqEmpty
  <2>2. Tail(t) \in Seq(Seq(B)) /\ Len(Tail(t)) = 0
    BY <1>1
  <2>3. Tail(t) = <<>>
    BY <2>2, EmptySeq
  <2> QED
    BY <2>1, <2>3
<1> DEFINE c == s[1] \o t[1]
<1>5. c \in Seq(B)
  BY <1>2
<1>6. JoinAnd(s, t) = <<>> \o <<c>> \o <<>>
  BY <1>3, <1>4 DEF JoinAnd
<1> HIDE DEF c
<1>7. <<>> \o <<c>> \o <<>> = <<c>>
  BY <1>5
<1>8. JoinAnd(s, t) = <<c>> /\ <<c>> \in Seq(Seq(B)) /\ Len(<<c>>) = 1 /\ <<c>>[1] = c
  BY <1>5, <1>6, <1>7
<1> QED
  BY <1>8 DEF c, Single

(* What is in two sequences. *)
LEMMA ConcatSet ==
  ASSUME NEW A, NEW s \in Seq(A), NEW t \in Seq(A)
  PROVE  ToSet(s \o t) = ToSet(s) \cup ToSet(t)
<1>1. ASSUME NEW x \in ToSet(s \o t) PROVE x \in ToSet(s) \cup ToSet(t)
  <2>1. PICK e \in 1 .. Len(s) + Len(t) : x = (s \o t)[e]
    BY <1>1 DEF ToSet
  <2>2. CASE e <= Len(s)
    BY <2>1, <2>2 DEF ToSet
  <2>3. CASE e > Len(s)
    <3>1. x = t[e - Len(s)] /\ e - Len(s) \in 1 .. Len(t)
      BY <2>1, <2>3
    <3> QED
      BY <3>1 DEF ToSet
  <2> QED
    BY <2>1, <2>2, <2>3
<1>2. ASSUME NEW x \in ToSet(s) PROVE x \in ToSet(s \o t)
  <2>1. PICK e \in 1 .. Len(s) : x = s[e]
    BY <1>2 DEF ToSet
  <2>2. (s \o t)[e] = x /\ e \in 1 .. Len(s \o t)
    BY <2>1
  <2> QED
    BY <2>2 DEF ToSet
<1>3. ASSUME NEW x \in ToSet(t) PROVE x \in ToSet(s \o t)
  <2>1. PICK e \in 1 .. Len(t) : x = t[e]
    BY <1>3 DEF ToSet
  <2>2. (s \o t)[Len(s) + e] = x /\ Len(s) + e \in 1 .. Len(s \o t)
    BY <2>1
  <2> QED
    BY <2>2 DEF ToSet
<1> QED
  BY <1>1, <1>2, <1>3

(* A group of texts is reduced to a text. *)
LEMMA ReducedMany ==
  ASSUME NEW B, NEW kind, NEW m \in Nat, m # 0, NEW texts \in [1 .. m -> Many(B)]
  PROVE  Reduced(kind, texts) \in Many(B)
<1> DEFINE Q == Many(B)
<1>1. Closed(kind, Q)
  BY JoinMany DEF Step, Closed
<1>2. m \in Nat /\ m # 0 /\ texts \in [1 .. m -> Q]
  OBVIOUS
<1> HIDE DEF Q
<1>3. PICK joined \in [1 .. m -> Q] : Reduces(joined, kind, texts, m)
  BY <1>1, <1>2, ReducedRecursive
<1> QED
  BY <1>2, <1>3 DEF Q, Reduces

(* A text without OR is one conjunction. *)
LEMMA SingleElement ==
  ASSUME NEW B, NEW t \in Single(B)
  PROVE  t \in Seq(Seq(B)) /\ Len(t) = 1 /\ t[1] \in Seq(B)
<1> DEFINE A == Seq(B)
<1>1. t \in Seq(A) /\ Len(t) = 1
  BY DEF Single
<1> HIDE DEF A
<1>2. t[1] \in A
  BY <1>1
<1> QED
  BY <1>1, <1>2 DEF A

(* A conjunction of texts without OR has their operands. *)
LEMMA ReducedAll ==
  ASSUME NEW B, NEW m \in Nat, m # 0, NEW texts \in [1 .. m -> Single(B)]
  PROVE  /\ Reduced("all", texts) \in Single(B)
         /\ \A x : x \in ToSet(Reduced("all", texts)[1]) <=> \E e \in 1 .. m : x \in ToSet(texts[e][1])
<1> DEFINE Q == Single(B)
<1>1. Closed("all", Q) /\ m \in Nat /\ m # 0 /\ texts \in [1 .. m -> Q]
  BY JoinSingle DEF Step, Closed
<1> HIDE DEF Q
<1>0. PICK joined \in [1 .. m -> Q] : Reduces(joined, "all", texts, m)
  BY <1>1, ReducedRecursive
<1>2. /\ joined \in [1 .. m -> Q] /\ joined[1] = texts[1]
      /\ \A e \in 2 .. m : joined[e] = Step("all", joined[e - 1], texts[e])
      /\ Reduced("all", texts) = joined[m]
  BY <1>0 DEF Reduces
<1> DEFINE Whole(e) == \A x : x \in ToSet(joined[e][1]) <=> \E d \in 1 .. e : x \in ToSet(texts[d][1])
<1>3. \A e \in 1 .. m : Whole(e)
  <2> DEFINE T == {e \in 1 .. m : ~Whole(e)}
  <2> SUFFICES ASSUME T # {} PROVE FALSE
    OBVIOUS
  <2>1. PICK e \in T : \A d \in T : e <= d
    <3>1. T \subseteq Nat
      OBVIOUS
    <3> HIDE DEF T
    <3> QED
      BY <3>1, SmallestOne
  <2>2. e # 1
    <3>1. 1 .. 1 = {1}
      OBVIOUS
    <3>2. Whole(1)
      BY <3>1, <1>2
    <3> QED
      BY <2>1, <3>2
  <2> HIDE DEF Whole
  <2>3. e \in 2 .. m /\ e - 1 \in 1 .. m /\ ~(e <= e - 1)
    BY <2>1, <2>2
  <2>4. Whole(e - 1)
    BY <2>1, <2>3
  <2>5. joined[e] = JoinAnd(joined[e - 1], texts[e])
    BY <1>2, <2>3 DEF Step
  <2>6. joined[e - 1] \in Single(B) /\ texts[e] \in Single(B)
    BY <1>2, <2>3 DEF Q
  <2>7. joined[e][1] = joined[e - 1][1] \o texts[e][1]
    <3> DEFINE s == joined[e - 1]
               t == texts[e]
    <3>1. s \in Single(B) /\ t \in Single(B) /\ joined[e] = JoinAnd(s, t)
      BY <2>5, <2>6
    <3> HIDE DEF s, t
    <3>2. JoinAnd(s, t)[1] = s[1] \o t[1]
      BY <3>1, JoinSingle
    <3> QED
      BY <3>1, <3>2 DEF s, t
  <2>8. joined[e - 1][1] \in Seq(B) /\ texts[e][1] \in Seq(B)
    BY <2>6, SingleElement
  <2>9. ToSet(joined[e][1]) = ToSet(joined[e - 1][1]) \cup ToSet(texts[e][1])
    BY <2>7, <2>8, ConcatSet
  <2>10. 1 .. e = (1 .. e - 1) \cup {e}
    BY <2>3
  <2>12. Whole(e)
    BY <2>4, <2>9, <2>10 DEF Whole
  <2> QED
    BY <2>1, <2>12
<1>4. Whole(m) /\ joined[m] \in Single(B)
  <2>1. m \in 1 .. m
    OBVIOUS
  <2>2. joined[m] \in Q
    BY <1>2, <2>1
  <2> HIDE DEF Whole
  <2> QED
    BY <1>3, <2>1, <2>2 DEF Q
<1>5. \A x : x \in ToSet(joined[m][1]) <=> \E e \in 1 .. m : x \in ToSet(texts[e][1])
  BY <1>4
<1> HIDE DEF Whole
<1> QED
  BY <1>2, <1>4, <1>5

(* A disjunction of texts has their conjunctions. *)
LEMMA ReducedAny ==
  ASSUME NEW B, NEW m \in Nat, m # 0, NEW texts \in [1 .. m -> Many(B)]
  PROVE  \A x : x \in ToSet(Reduced("any", texts)) <=> \E e \in 1 .. m : x \in ToSet(texts[e])
<1> DEFINE Q == Many(B)
<1>1. Closed("any", Q) /\ m \in Nat /\ m # 0 /\ texts \in [1 .. m -> Q]
  BY JoinMany DEF Step, Closed
<1> HIDE DEF Q
<1>0. PICK joined \in [1 .. m -> Q] : Reduces(joined, "any", texts, m)
  BY <1>1, ReducedRecursive
<1>2. /\ joined \in [1 .. m -> Q] /\ joined[1] = texts[1]
      /\ \A e \in 2 .. m : joined[e] = Step("any", joined[e - 1], texts[e])
      /\ Reduced("any", texts) = joined[m]
  BY <1>0 DEF Reduces
<1> DEFINE Whole(e) == \A x : x \in ToSet(joined[e]) <=> \E d \in 1 .. e : x \in ToSet(texts[d])
<1>3. \A e \in 1 .. m : Whole(e)
  <2> DEFINE T == {e \in 1 .. m : ~Whole(e)}
  <2> SUFFICES ASSUME T # {} PROVE FALSE
    OBVIOUS
  <2>1. PICK e \in T : \A d \in T : e <= d
    <3>1. T \subseteq Nat
      OBVIOUS
    <3> HIDE DEF T
    <3> QED
      BY <3>1, SmallestOne
  <2>2. e # 1
    <3>1. 1 .. 1 = {1}
      OBVIOUS
    <3>2. Whole(1)
      BY <3>1, <1>2
    <3> QED
      BY <2>1, <3>2
  <2> HIDE DEF Whole
  <2>3. e \in 2 .. m /\ e - 1 \in 1 .. m /\ ~(e <= e - 1)
    BY <2>1, <2>2
  <2>4. Whole(e - 1)
    BY <2>1, <2>3
  <2>5. joined[e] = joined[e - 1] \o texts[e]
    BY <1>2, <2>3 DEF Step
  <2>6. joined[e - 1] \in Seq(Seq(B)) /\ texts[e] \in Seq(Seq(B))
    BY <1>2, <2>3 DEF Many, Q
  <2>9. ToSet(joined[e]) = ToSet(joined[e - 1]) \cup ToSet(texts[e])
    BY <2>5, <2>6, ConcatSet
  <2>10. 1 .. e = (1 .. e - 1) \cup {e}
    BY <2>3
  <2>12. Whole(e)
    BY <2>4, <2>9, <2>10 DEF Whole
  <2> QED
    BY <2>1, <2>12
<1>4. Whole(m)
  BY <1>3
<1> QED
  BY <1>2, <1>4 DEF Q

(* The predicates that are emitted as operands. *)
Operands(n) == {k \in DOMAIN Tree : k <= n /\ Tree[k].kind \notin Groups}

(* One step of the recursion in Emit, and its solution. *)
TextCase(n, text) ==
    IF Tree[n].kind \in {"all", "any"}
    THEN Reduced(Tree[n].kind, [e \in DOMAIN Tree[n].kids |-> text[Tree[n].kids[e]]])
    ELSE <<<<n>>>>
Texts == CHOOSE text : text = [n \in DOMAIN Tree |-> TextCase(n, text)]

(* What is emitted is that solution. *)
LEMMA EmitIs ==
  ASSUME NEW i
  PROVE  Emit(i) = Texts[i]
BY DEF Emit, Texts, TextCase

(* The text of a predicate depends on the texts of its operands only. *)
LEMMA TextDepends ==
  ASSUME NEW n \in DOMAIN Tree, NEW f
  PROVE  TextCase(n, [m \in 1 .. n - 1 |-> f[m]]) = TextCase(n, f)
<1> DEFINE g == [m \in 1 .. n - 1 |-> f[m]]
           kids == Tree[n].kids
<1>1. \A e \in DOMAIN kids : g[kids[e]] = f[kids[e]]
  BY KidsSame
<1>2. [e \in DOMAIN kids |-> g[kids[e]]] = [e \in DOMAIN kids |-> f[kids[e]]]
  BY <1>1
<1> HIDE DEF g
<1>3. TextCase(n, g) = TextCase(n, f)
  BY <1>2 DEF TextCase
<1> QED
  BY <1>3 DEF g

(* Texts of the first numbers are texts of the later ones. *)
LEMMA MoreOperands ==
  ASSUME NEW A, NEW B, A \subseteq B
  PROVE  Many(A) \subseteq Many(B) /\ Single(A) \subseteq Single(B)
<1>1. Seq(A) \subseteq Seq(B)
  BY SeqMonotonic
<1>2. Seq(Seq(A)) \subseteq Seq(Seq(B))
  BY <1>1, SeqMonotonic
<1> QED
  BY <1>2 DEF Many, Single

(* An atom or a negation is a text of its own. *)
LEMMA OperandText ==
  ASSUME NEW n \in DOMAIN Tree, Tree[n].kind \notin Groups
  PROVE  <<<<n>>>> \in Single(Operands(n)) /\ <<<<n>>>> \in Many(Operands(n))
<1>1. n \in Operands(n)
  <2>1. n \in Nat
    BY TreeFacts
  <2> QED
    BY <2>1 DEF Operands
<1>2. <<n>> \in Seq(Operands(n))
  BY <1>1
<1>3. <<<<n>>>> \in Seq(Seq(Operands(n))) /\ Len(<<<<n>>>>) = 1
  BY <1>2
<1> QED
  BY <1>3 DEF Single, Many

(* CheckedPredicate::sql is total: every text is made of the texts of the operands. *)
LEMMA TextsRecursive == \A n \in DOMAIN Tree : Texts[n] = TextCase(n, Texts)
<1> DEFINE N == Len(Tree)
           V == Many(DOMAIN Tree)
           F == [n \in 1 .. N |-> [g \in [1 .. n - 1 -> V] |-> TextCase(n, g)]]
<1>1. N \in Nat /\ DOMAIN Tree = 1 .. N
  BY TreeFacts
<1>2. ASSUME NEW n \in 1 .. N, NEW g \in [1 .. n - 1 -> V]
      PROVE  TextCase(n, g) \in V
  <2>1. CASE Tree[n].kind \in Groups
    <3> DEFINE texts == [e \in DOMAIN Tree[n].kids |-> g[Tree[n].kids[e]]]
               m == Len(Tree[n].kids)
    <3>1. m \in Nat /\ m # 0 /\ DOMAIN Tree[n].kids = 1 .. m
      BY <1>1, <2>1, TreeFacts
    <3>2. \A e \in 1 .. m : Tree[n].kids[e] \in 1 .. n - 1
      BY <1>1, <3>1, TreeFacts
    <3>3. texts \in [1 .. m -> V]
      BY <3>1, <3>2
    <3> HIDE DEF texts, V, m
    <3>4. Reduced(Tree[n].kind, texts) \in V
      BY <3>1, <3>3, ReducedMany DEF V
    <3> QED
      BY <2>1, <3>4 DEF TextCase, texts, Groups
  <2>2. CASE Tree[n].kind \notin Groups
    <3>1. Operands(n) \subseteq DOMAIN Tree
      BY DEF Operands
    <3>2. <<<<n>>>> \in V
      BY <1>1, <2>2, <3>1, OperandText, MoreOperands
    <3> QED
      BY <2>2, <3>2 DEF TextCase, Groups
  <2> QED
    BY <2>1, <2>2
<1>3. \A n \in 1 .. N : \A g \in [1 .. n - 1 -> V] : F[n][g] = TextCase(n, g)
  OBVIOUS
<1> HIDE DEF F, N, V
<1>4. PICK f \in [1 .. N -> V] : Solves(f, F, N)
  <2>1. \A n \in 1 .. N : \A g \in [1 .. n - 1 -> V] : F[n][g] \in V
    BY <1>2, <1>3
  <2> QED
    BY <1>1, <2>1, RecursionExists
<1>5. \A n \in 1 .. N : f[n] = TextCase(n, f)
  <2> TAKE n \in 1 .. N
  <2>1. [m \in 1 .. n - 1 |-> f[m]] \in [1 .. n - 1 -> V]
    BY <1>1, <1>4
  <2>2. f[n] = F[n][[m \in 1 .. n - 1 |-> f[m]]]
    BY <1>4 DEF Solves
  <2> QED
    BY <1>1, <1>3, <2>1, <2>2, TextDepends
<1>6. f = [n \in DOMAIN Tree |-> TextCase(n, f)]
  BY <1>1, <1>4, <1>5
<1>7. Texts = [n \in DOMAIN Tree |-> TextCase(n, Texts)]
  BY <1>6 DEF Texts
<1> QED
  BY <1>7

(* A text has atoms and negations only, with numbers up to that of its predicate. *)
LEMMA TextsBounded == \A n \in DOMAIN Tree : Texts[n] \in Many(Operands(n))
<1> DEFINE T == {n \in DOMAIN Tree : Texts[n] \notin Many(Operands(n))}
<1> SUFFICES ASSUME T # {} PROVE FALSE
  OBVIOUS
<1>1. PICK n \in T : \A d \in T : n <= d
  <2>1. T \subseteq Nat
    BY TreeFacts
  <2> HIDE DEF T
  <2> QED
    BY <2>1, SmallestOne
<1>2. n \in DOMAIN Tree /\ n \in Nat
  BY <1>1, TreeFacts
<1>3. Texts[n] = TextCase(n, Texts)
  BY <1>2, TextsRecursive
<1>4. CASE Tree[n].kind \in Groups
  <2> DEFINE kids == Tree[n].kids
             m == Len(kids)
             texts == [e \in DOMAIN kids |-> Texts[kids[e]]]
  <2>1. m \in Nat /\ m # 0 /\ DOMAIN kids = 1 .. m
    BY <1>2, <1>4, TreeFacts
  <2>2. ASSUME NEW e \in 1 .. m PROVE texts[e] \in Many(Operands(n))
    <3>1. kids[e] \in 1 .. n - 1 /\ kids[e] \in DOMAIN Tree
      BY <1>2, <2>1, TreeFacts
    <3>2. ~(n <= kids[e])
      BY <1>2, <3>1
    <3>3. Texts[kids[e]] \in Many(Operands(kids[e]))
      BY <1>1, <3>1, <3>2
    <3>4. Operands(kids[e]) \subseteq Operands(n)
      BY <1>2, <3>1, TreeFacts DEF Operands
    <3> QED
      BY <2>1, <3>3, <3>4, MoreOperands
  <2>3. texts \in [1 .. m -> Many(Operands(n))]
    BY <2>1, <2>2
  <2> HIDE DEF texts, m
  <2>4. Reduced(Tree[n].kind, texts) \in Many(Operands(n))
    BY <2>1, <2>3, ReducedMany
  <2>5. Texts[n] = Reduced(Tree[n].kind, texts)
    BY <1>3, <1>4 DEF TextCase, texts, Groups
  <2> QED
    BY <1>1, <2>4, <2>5
<1>5. CASE Tree[n].kind \notin Groups
  <2>1. Texts[n] = <<<<n>>>>
    BY <1>3, <1>5 DEF TextCase, Groups
  <2> QED
    BY <1>1, <1>2, <1>5, <2>1, OperandText
<1> QED
  BY <1>4, <1>5

(* No disjunction is an operand of a conjunction. *)
Unnested(i) == \A n \in 1 .. i : Tree[n].kind = "all" => \A k \in ToSet(Tree[n].kids) : Tree[k].kind # "any"

(* Without nested disjunctions, only the text of a disjunction has an OR. *)
LEMMA TextsSingle ==
  ASSUME NEW i \in DOMAIN Tree, Unnested(i)
  PROVE  \A n \in 1 .. i : Tree[n].kind # "any" => Texts[n] \in Single(Operands(n))
<1> DEFINE Claim(n) == Tree[n].kind # "any" => Texts[n] \in Single(Operands(n))
           T == {n \in 1 .. i : ~Claim(n)}
<1> SUFFICES ASSUME T # {} PROVE FALSE
  OBVIOUS
<1>1. PICK n \in T : \A d \in T : n <= d
  <2>1. T \subseteq Nat
    OBVIOUS
  <2> HIDE DEF T
  <2> QED
    BY <2>1, SmallestOne
<1>2. n \in DOMAIN Tree /\ n \in Nat /\ n <= i /\ i \in Nat /\ n \in 1 .. i
  BY <1>1, TreeFacts
<1>3. Texts[n] = TextCase(n, Texts)
  BY <1>2, TextsRecursive
<1>4. CASE Tree[n].kind = "all"
  <2> DEFINE kids == Tree[n].kids
             m == Len(kids)
             texts == [e \in DOMAIN kids |-> Texts[kids[e]]]
  <2>1. m \in Nat /\ m # 0 /\ DOMAIN kids = 1 .. m
    BY <1>2, <1>4, TreeFacts DEF Groups
  <2>2. ASSUME NEW e \in 1 .. m PROVE texts[e] \in Single(Operands(n))
    <3>1. kids[e] \in 1 .. n - 1 /\ kids[e] \in DOMAIN Tree
      BY <1>2, <2>1, TreeFacts
    <3>2. ~(n <= kids[e]) /\ kids[e] \in 1 .. i
      BY <1>2, <3>1
    <3>3. kids[e] \in ToSet(kids)
      BY <2>1 DEF ToSet
    <3>4. Tree[kids[e]].kind # "any"
      BY <1>2, <1>4, <3>3 DEF Unnested
    <3>5. Claim(kids[e])
      <4> HIDE DEF Claim
      <4> QED
        BY <1>1, <3>2
    <3>6. Texts[kids[e]] \in Single(Operands(kids[e]))
      BY <3>4, <3>5
    <3>7. Operands(kids[e]) \subseteq Operands(n)
      <4>1. \A k \in DOMAIN Tree : k <= kids[e] => k <= n
        <5>1. \A k \in DOMAIN Tree : k \in Nat
          BY TreeFacts
        <5>2. n \in Nat
          BY <1>2, <5>1
        <5>3. kids[e] \in 1 .. n - 1
          BY <3>1
        <5> HIDE DEF kids, T, Claim, texts
        <5>4. kids[e] \in Nat /\ kids[e] <= n
          BY <5>2, <5>3
        <5> QED
          BY <5>1, <5>2, <5>4
      <4> HIDE DEF kids
      <4> QED
        BY <4>1 DEF Operands
    <3> QED
      BY <2>1, <3>6, <3>7, MoreOperands
  <2>3. texts \in [1 .. m -> Single(Operands(n))]
    BY <2>1, <2>2
  <2> HIDE DEF texts, m
  <2>4. Reduced("all", texts) \in Single(Operands(n))
    BY <2>1, <2>3, ReducedAll
  <2>5. Texts[n] = Reduced("all", texts)
    BY <1>3, <1>4 DEF TextCase, texts
  <2> QED
    BY <1>1, <2>4, <2>5
<1>5. CASE Tree[n].kind \notin Groups
  <2>1. Texts[n] = <<<<n>>>>
    BY <1>3, <1>5 DEF TextCase, Groups
  <2>2. Texts[n] \in Single(Operands(n))
    BY <1>2, <1>5, <2>1, OperandText
  <2> QED
    BY <1>1, <2>2
<1>6. CASE Tree[n].kind = "any"
  BY <1>1, <1>6
<1> QED
  BY <1>4, <1>5, <1>6 DEF Groups

(* What a text means, if v are the values of its operands. *)
Meaning(t, v) == Or3({And3({v[k] : k \in ToSet(c)}) : c \in ToSet(t)})

(* AND of all is AND of the ANDs. *)
LEMMA AndFamily ==
  ASSUME NEW m, NEW S, NEW U, \A x : x \in U <=> \E e \in 1 .. m : x \in S[e]
  PROVE  And3(U) = And3({And3(S[e]) : e \in 1 .. m})
<1> DEFINE W == {And3(S[e]) : e \in 1 .. m}
<1>1. "false" \in W <=> \E e \in 1 .. m : "false" \in S[e]
  BY DEF And3
<1>2. "false" \notin W => ("unknown" \in W <=> \E e \in 1 .. m : "unknown" \in S[e])
  BY DEF And3
<1> HIDE DEF W
<1>3. And3(U) = And3(W)
  BY <1>1, <1>2 DEF And3
<1> QED
  BY <1>3 DEF W

(* OR of all is OR of the ORs. *)
LEMMA OrFamily ==
  ASSUME NEW m, NEW S, NEW U, \A x : x \in U <=> \E e \in 1 .. m : x \in S[e]
  PROVE  Or3(U) = Or3({Or3(S[e]) : e \in 1 .. m})
<1> DEFINE W == {Or3(S[e]) : e \in 1 .. m}
<1>1. "true" \in W <=> \E e \in 1 .. m : "true" \in S[e]
  BY DEF Or3
<1>2. "true" \notin W => ("unknown" \in W <=> \E e \in 1 .. m : "unknown" \in S[e])
  BY DEF Or3
<1> HIDE DEF W
<1>3. Or3(U) = Or3(W)
  BY <1>1, <1>2 DEF Or3
<1> QED
  BY <1>3 DEF W

(* A group of one is its operand. *)
LEMMA OfOne ==
  \A x \in Truths : And3({x}) = x /\ Or3({x}) = x
BY DEF And3, Or3, Truths

(* A text without OR means the AND of its operands. *)
LEMMA MeaningSingle ==
  ASSUME NEW B, NEW t \in Single(B), NEW v
  PROVE  Meaning(t, v) = And3({v[k] : k \in ToSet(t[1])})
<1>1. ToSet(t) = {t[1]}
  <2>1. DOMAIN t = {1}
    BY SingleElement
  <2> QED
    BY <2>1 DEF ToSet
<1> DEFINE x == And3({v[k] : k \in ToSet(t[1])})
<1>2. {And3({v[k] : k \in ToSet(c)}) : c \in ToSet(t)} = {x}
  BY <1>1
<1>3. x \in Truths
  BY TruthsAre
<1> HIDE DEF x
<1>4. Meaning(t, v) = x
  BY <1>2, <1>3, OfOne DEF Meaning
<1> QED
  BY <1>4 DEF x

(* A conjunction of texts without OR means the AND of what they mean. *)
LEMMA MeaningAll ==
  ASSUME NEW B, NEW m \in Nat, m # 0, NEW texts \in [1 .. m -> Single(B)], NEW v
  PROVE  Meaning(Reduced("all", texts), v) = And3({Meaning(texts[e], v) : e \in 1 .. m})
<1> DEFINE r == Reduced("all", texts)
           U == {v[k] : k \in ToSet(r[1])}
           S == [e \in 1 .. m |-> {v[k] : k \in ToSet(texts[e][1])}]
<1>1. r \in Single(B) /\ \A x : x \in ToSet(r[1]) <=> \E e \in 1 .. m : x \in ToSet(texts[e][1])
  BY ReducedAll
<1>2. Meaning(r, v) = And3(U)
  <2> HIDE DEF r
  <2> QED
    BY <1>1, MeaningSingle
<1>3. \A e \in 1 .. m : Meaning(texts[e], v) = And3(S[e])
  BY MeaningSingle
<1>4. \A x : x \in U <=> \E e \in 1 .. m : x \in S[e]
  <2> HIDE DEF r
  <2> QED
    BY <1>1
<1> HIDE DEF r, U, S
<1>5. And3(U) = And3({And3(S[e]) : e \in 1 .. m})
  BY <1>4, AndFamily
<1>6. {And3(S[e]) : e \in 1 .. m} = {Meaning(texts[e], v) : e \in 1 .. m}
  BY <1>3
<1> QED
  BY <1>2, <1>5, <1>6 DEF r

(* A disjunction of texts means the OR of what they mean. *)
LEMMA MeaningAny ==
  ASSUME NEW B, NEW m \in Nat, m # 0, NEW texts \in [1 .. m -> Many(B)], NEW v
  PROVE  Meaning(Reduced("any", texts), v) = Or3({Meaning(texts[e], v) : e \in 1 .. m})
<1> DEFINE r == Reduced("any", texts)
           Of(c) == And3({v[k] : k \in ToSet(c)})
           U == {Of(c) : c \in ToSet(r)}
           S == [e \in 1 .. m |-> {Of(c) : c \in ToSet(texts[e])}]
<1>1. \A x : x \in ToSet(r) <=> \E e \in 1 .. m : x \in ToSet(texts[e])
  BY ReducedAny
<1>2. Meaning(r, v) = Or3(U)
  BY DEF Meaning
<1>3. \A e \in 1 .. m : Meaning(texts[e], v) = Or3(S[e])
  BY DEF Meaning
<1>4. \A x : x \in U <=> \E e \in 1 .. m : x \in S[e]
  <2> HIDE DEF r, Of
  <2> QED
    BY <1>1
<1> HIDE DEF r, U, S
<1>5. Or3(U) = Or3({Or3(S[e]) : e \in 1 .. m})
  BY <1>4, OrFamily
<1>6. {Or3(S[e]) : e \in 1 .. m} = {Meaning(texts[e], v) : e \in 1 .. m}
  BY <1>3
<1> QED
  BY <1>2, <1>5, <1>6 DEF r

(* Without nested disjunctions, the text of a predicate means what the direct plan says. *)
LEMMA MeaningDirect ==
  ASSUME NEW i \in DOMAIN Tree, Unnested(i), NEW row
  PROVE  \A n \in 1 .. i : Meaning(Texts[n], DirectTruth(row)) = DirectTruth(row)[n]
<1> DEFINE v == DirectTruth(row)
           Claim(n) == Meaning(Texts[n], v) = v[n]
           T == {n \in 1 .. i : ~Claim(n)}
<1> SUFFICES ASSUME T # {} PROVE FALSE
  OBVIOUS
<1>1. PICK n \in T : \A d \in T : n <= d
  <2>1. T \subseteq Nat
    OBVIOUS
  <2> HIDE DEF T
  <2> QED
    BY <2>1, SmallestOne
<1>2. n \in DOMAIN Tree /\ n \in Nat /\ n <= i /\ i \in Nat /\ n \in 1 .. i
  BY <1>1, TreeFacts
<1>3. Texts[n] = TextCase(n, Texts) /\ v[n] = DirectCase(n, row, v) /\ v[n] \in Truths
  BY <1>2, TextsRecursive, DirectRecursive
<1> HIDE DEF v
<1>4. CASE Tree[n].kind \in Groups
  <2> DEFINE kids == Tree[n].kids
             m == Len(kids)
             texts == [e \in DOMAIN kids |-> Texts[kids[e]]]
  <2>1. m \in Nat /\ m # 0 /\ DOMAIN kids = 1 .. m
    BY <1>2, <1>4, TreeFacts
  <2>2. ASSUME NEW e \in 1 .. m
        PROVE  /\ texts[e] = Texts[kids[e]] /\ Meaning(texts[e], v) = v[kids[e]]
               /\ kids[e] \in 1 .. i /\ kids[e] \in DOMAIN Tree /\ kids[e] \in ToSet(kids)
    <3>1. kids[e] \in 1 .. n - 1 /\ kids[e] \in DOMAIN Tree
      BY <1>2, <2>1, TreeFacts
    <3>2. ~(n <= kids[e]) /\ kids[e] \in 1 .. i
      BY <1>2, <3>1
    <3>3. Claim(kids[e])
      <4> HIDE DEF Claim
      <4> QED
        BY <1>1, <3>2
    <3> QED
      BY <2>1, <3>1, <3>2, <3>3 DEF ToSet
  <2>3. {Meaning(texts[e], v) : e \in 1 .. m} = {v[k] : k \in ToSet(kids)}
    <3>1. {Meaning(texts[e], v) : e \in 1 .. m} = {v[kids[e]] : e \in 1 .. m}
      <4>1. \A e \in 1 .. m : Meaning(texts[e], v) = v[kids[e]]
        BY <2>2
      <4> HIDE DEF texts
      <4> QED
        BY <4>1
    <3>2. ToSet(kids) = {kids[e] : e \in 1 .. m}
      BY <2>1 DEF ToSet
    <3> QED
      BY <3>1, <3>2
  <2>4. Texts[n] = Reduced(Tree[n].kind, texts)
    BY <1>3, <1>4 DEF TextCase, Groups
  <2>5. CASE Tree[n].kind = "all"
    <3>1. \A e \in 1 .. m : texts[e] \in Single(DOMAIN Tree)
      <4> TAKE e \in 1 .. m
      <4>1. Tree[kids[e]].kind # "any"
        BY <1>2, <2>2, <2>5 DEF Unnested
      <4>2. texts[e] \in Single(Operands(kids[e])) /\ Operands(kids[e]) \subseteq DOMAIN Tree
        BY <2>2, <4>1, TextsSingle DEF Operands
      <4>3. Single(Operands(kids[e])) \subseteq Single(DOMAIN Tree)
        BY <4>2, MoreOperands
      <4> QED
        BY <4>2, <4>3
    <3>2. texts \in [1 .. m -> Single(DOMAIN Tree)]
      BY <2>1, <3>1
    <3> HIDE DEF texts, m
    <3>5. Meaning(Reduced("all", texts), v) = And3({Meaning(texts[e], v) : e \in 1 .. m})
      <4> DEFINE B == DOMAIN Tree
      <4>1. m \in Nat /\ m # 0 /\ texts \in [1 .. m -> Single(B)]
        BY <2>1, <3>2
      <4> HIDE DEF B
      <4> QED
        BY <4>1, MeaningAll
    <3>3. Meaning(Texts[n], v) = And3({Meaning(texts[e], v) : e \in 1 .. m})
      BY <2>4, <2>5, <3>5
    <3>4. v[n] = And3({v[k] : k \in ToSet(kids)})
      BY <1>3, <2>5 DEF DirectCase
    <3> QED
      BY <1>1, <2>3, <3>3, <3>4
  <2>6. CASE Tree[n].kind = "any"
    <3>1. \A e \in 1 .. m : texts[e] \in Many(DOMAIN Tree)
      <4> TAKE e \in 1 .. m
      <4>1. texts[e] \in Many(Operands(kids[e])) /\ Operands(kids[e]) \subseteq DOMAIN Tree
        BY <2>2, TextsBounded DEF Operands
      <4> QED
        BY <4>1, MoreOperands
    <3>2. texts \in [1 .. m -> Many(DOMAIN Tree)]
      BY <2>1, <3>1
    <3> HIDE DEF texts, m
    <3>5. Meaning(Reduced("any", texts), v) = Or3({Meaning(texts[e], v) : e \in 1 .. m})
      BY <2>1, <3>2, MeaningAny
    <3>3. Meaning(Texts[n], v) = Or3({Meaning(texts[e], v) : e \in 1 .. m})
      BY <2>4, <2>6, <3>5
    <3>4. v[n] = Or3({v[k] : k \in ToSet(kids)})
      BY <1>3, <2>6 DEF DirectCase
    <3> QED
      BY <1>1, <2>3, <3>3, <3>4
  <2> QED
    BY <1>4, <2>5, <2>6 DEF Groups
<1>5. CASE Tree[n].kind \notin Groups
  <2>1. Texts[n] = <<<<n>>>>
    BY <1>3, <1>5 DEF TextCase, Groups
  <2>2. <<<<n>>>> \in Single(Operands(n))
    BY <1>2, <1>5, OperandText
  <2>3. ToSet(<<<<n>>>>[1]) = {n}
    BY DEF ToSet
  <2>4. {v[k] : k \in ToSet(<<<<n>>>>[1])} = {v[n]}
    BY <2>3
  <2>5. Meaning(<<<<n>>>>, v) = And3({v[n]})
    BY <2>2, <2>4, MeaningSingle
  <2>6. Claim(n)
    BY <1>3, <2>1, <2>5, OfOne
  <2> QED
    BY <1>1, <2>6
<1> QED
  BY <1>4, <1>5

(* What the parsed text says, if truth says what the operands of negations come to. *)
OperandValue(k, row, truth) ==
    IF Tree[k].kind = "not" THEN Not3(truth[Tree[k].kids[1]]) ELSE Atom3(Tree[k], row)

(* One step of the recursion in Emitted, and its solution. *)
EmittedCase(n, row, truth) ==
    Or3({And3({OperandValue(k, row, truth) : k \in ToSet(conjuncts)}) : conjuncts \in ToSet(Emit(n))})
EmittedTruth(row) == CHOOSE truth : truth = [n \in DOMAIN Tree |-> EmittedCase(n, row, truth)]

(* What the parsed text says is that solution. *)
LEMMA EmittedIs ==
  ASSUME NEW i, NEW row
  PROVE  Emitted(i, row) = EmittedTruth(row)[i]
BY DEF Emitted, EmittedTruth, EmittedCase, OperandValue

(* A parsed text says what it means for the values of its operands. *)
LEMMA SameMeaning ==
  ASSUME NEW n \in DOMAIN Tree, NEW row, NEW f, NEW v,
         \A k \in Operands(n) : OperandValue(k, row, f) = v[k]
  PROVE  EmittedCase(n, row, f) = Meaning(Texts[n], v)
<1>1. \A c \in ToSet(Texts[n]) : \A k \in ToSet(c) : k \in Operands(n)
  <2>1. Texts[n] \in Seq(Seq(Operands(n)))
    BY TextsBounded DEF Many
  <2> DEFINE A == Seq(Operands(n))
  <2>2. ASSUME NEW c \in ToSet(Texts[n]) PROVE c \in A
    <3> HIDE DEF A
    <3>1. Texts[n] \in Seq(A)
      BY <2>1 DEF A
    <3> QED
      BY <2>2, <3>1 DEF ToSet
  <2>3. ASSUME NEW c \in ToSet(Texts[n]), NEW k \in ToSet(c) PROVE k \in Operands(n)
    <3> DEFINE O == Operands(n)
    <3>1. c \in Seq(O)
      BY <2>2
    <3> HIDE DEF O
    <3>2. k \in O
      BY <3>1, <2>3 DEF ToSet
    <3> QED
      BY <3>2 DEF O
  <2> QED
    BY <2>3
<1>2. \A c \in ToSet(Texts[n]) :
         {OperandValue(k, row, f) : k \in ToSet(c)} = {v[k] : k \in ToSet(c)}
  BY <1>1
<1> DEFINE A(c) == And3({OperandValue(k, row, f) : k \in ToSet(c)})
           M(c) == And3({v[k] : k \in ToSet(c)})
<1>3. \A c \in ToSet(Texts[n]) : A(c) = M(c)
  BY <1>2
<1>4. EmittedCase(n, row, f) = Or3({A(c) : c \in ToSet(Texts[n])})
  BY EmitIs DEF EmittedCase
<1>5. Meaning(Texts[n], v) = Or3({M(c) : c \in ToSet(Texts[n])})
  BY DEF Meaning
<1> HIDE DEF A, M
<1>6. {A(c) : c \in ToSet(Texts[n])} = {M(c) : c \in ToSet(Texts[n])}
  BY <1>3
<1> QED
  BY <1>4, <1>5, <1>6

(* What a parsed text says depends on the operands of its negations only, which have smaller numbers. *)
LEMMA EmittedDepends ==
  ASSUME NEW n \in DOMAIN Tree, NEW row, NEW f
  PROVE  EmittedCase(n, row, [m \in 1 .. n - 1 |-> f[m]]) = EmittedCase(n, row, f)
<1> DEFINE g == [m \in 1 .. n - 1 |-> f[m]]
           v == [k \in Operands(n) |-> OperandValue(k, row, f)]
<1>1. \A k \in Operands(n) : OperandValue(k, row, g) = OperandValue(k, row, f)
  <2> TAKE k \in Operands(n)
  <2>1. k \in DOMAIN Tree /\ k <= n /\ n \in Nat /\ k \in Nat
    BY TreeFacts DEF Operands
  <2>2. Tree[k].kind = "not" => Tree[k].kids[1] \in 1 .. n - 1
    <3>1. Tree[k].kind = "not" => Tree[k].kids[1] \in 1 .. k - 1
      BY <2>1, TreeFacts
    <3> QED
      BY <2>1, <3>1
  <2>3. Tree[k].kind = "not" => g[Tree[k].kids[1]] = f[Tree[k].kids[1]]
    BY <2>2
  <2> HIDE DEF g
  <2> QED
    BY <2>3 DEF OperandValue
<1>2. \A k \in Operands(n) : OperandValue(k, row, f) = v[k]
  OBVIOUS
<1> HIDE DEF g, v
<1>3. \A k \in Operands(n) : OperandValue(k, row, g) = v[k]
  BY <1>1, <1>2
<1>4. EmittedCase(n, row, g) = EmittedCase(n, row, f)
  BY <1>2, <1>3, SameMeaning
<1> QED
  BY <1>4 DEF g

(* What is parsed from the emitted texts is defined for every predicate. *)
LEMMA EmittedRecursive ==
  ASSUME NEW row
  PROVE  \A n \in DOMAIN Tree : EmittedTruth(row)[n] = EmittedCase(n, row, EmittedTruth(row))
<1> DEFINE N == Len(Tree)
           F == [n \in 1 .. N |-> [g \in [1 .. n - 1 -> Truths] |-> EmittedCase(n, row, g)]]
<1>1. N \in Nat /\ DOMAIN Tree = 1 .. N
  BY TreeFacts
<1>2. \A n, g : EmittedCase(n, row, g) \in Truths
  <2> TAKE n, g
  <2> QED
    BY TruthsAre DEF EmittedCase
<1>3. \A n \in 1 .. N : \A g \in [1 .. n - 1 -> Truths] : F[n][g] = EmittedCase(n, row, g)
  OBVIOUS
<1> HIDE DEF F, N
<1>4. PICK f \in [1 .. N -> Truths] : Solves(f, F, N)
  <2>1. \A n \in 1 .. N : \A g \in [1 .. n - 1 -> Truths] : F[n][g] \in Truths
    BY <1>2, <1>3
  <2> QED
    BY <1>1, <2>1, RecursionExists
<1>5. \A n \in 1 .. N : f[n] = EmittedCase(n, row, f)
  <2> TAKE n \in 1 .. N
  <2>1. [m \in 1 .. n - 1 |-> f[m]] \in [1 .. n - 1 -> Truths]
    BY <1>1, <1>4
  <2>2. f[n] = F[n][[m \in 1 .. n - 1 |-> f[m]]]
    BY <1>4 DEF Solves
  <2> QED
    BY <1>1, <1>3, <2>1, <2>2, EmittedDepends
<1>6. f = [n \in DOMAIN Tree |-> EmittedCase(n, row, f)]
  BY <1>1, <1>4, <1>5
<1>7. EmittedTruth(row) = [n \in DOMAIN Tree |-> EmittedCase(n, row, EmittedTruth(row))]
  BY <1>6 DEF EmittedTruth
<1> QED
  BY <1>7

(* Without nested disjunctions, the parsed text says of every row what the direct plan says. *)
LEMMA EmittedIsDirect ==
  ASSUME NEW i \in DOMAIN Tree, Unnested(i), NEW row
  PROVE  Emitted(i, row) = Direct(i, row)
<1> DEFINE v == DirectTruth(row)
           w == EmittedTruth(row)
           T == {n \in 1 .. i : w[n] # v[n]}
<1>1. T = {}
  <2> SUFFICES ASSUME T # {} PROVE FALSE
    OBVIOUS
  <2>1. PICK n \in T : \A d \in T : n <= d
    <3>1. T \subseteq Nat
      OBVIOUS
    <3> HIDE DEF T
    <3> QED
      BY <3>1, SmallestOne
  <2>2. n \in DOMAIN Tree /\ n \in Nat /\ n <= i /\ i \in Nat /\ n \in 1 .. i
    BY <2>1, TreeFacts
  <2>3. ASSUME NEW k \in Operands(n) PROVE OperandValue(k, row, w) = v[k]
    <3>1. k \in DOMAIN Tree /\ k <= n /\ k \in Nat /\ Tree[k].kind \notin Groups
      BY <2>2, TreeFacts DEF Operands
    <3>2. v[k] = DirectCase(k, row, v)
      BY <3>1, DirectRecursive
    <3>3. CASE Tree[k].kind = "not"
      <4>1. Tree[k].kids[1] \in 1 .. k - 1
        BY <3>1, <3>3, TreeFacts
      <4>2. Tree[k].kids[1] \in 1 .. i /\ ~(n <= Tree[k].kids[1])
        BY <2>2, <3>1, <4>1
      <4>3. w[Tree[k].kids[1]] = v[Tree[k].kids[1]]
        BY <2>1, <4>2
      <4> HIDE DEF v, w
      <4> QED
        BY <3>2, <3>3, <4>3 DEF OperandValue, DirectCase
    <3>4. CASE Tree[k].kind # "not"
      <4> HIDE DEF v, w
      <4> QED
        BY <3>1, <3>2, <3>4 DEF OperandValue, DirectCase, Groups
    <3> QED
      BY <3>3, <3>4
  <2>4. w[n] = EmittedCase(n, row, w)
    BY <2>2, EmittedRecursive
  <2>5. EmittedCase(n, row, w) = Meaning(Texts[n], v)
    <3> HIDE DEF v, w
    <3> QED
      BY <2>2, <2>3, SameMeaning
  <2>6. Meaning(Texts[n], v) = v[n]
    BY <2>2, MeaningDirect
  <2> QED
    BY <2>1, <2>4, <2>5, <2>6
<1>2. i \in 1 .. i
  BY TreeFacts
<1>3. w[i] = v[i]
  BY <1>1, <1>2
<1> QED
  BY <1>3, EmittedIs, DirectIs

-----------------------------------------------------------------------------
(* The nodes.                                                              *)

(* What a node of two inputs must be to them. *)
Follows(node, l, r) ==
    /\ node.op.kind = "set" => RowsCount(node, l, r)
    /\ node.op.kind = "compose" =>
          /\ ~RepeatsField(node.op.keys, l, r) /\ Marked(l) /\ Marked(r) => Identified(l) /\ Identified(r)
          /\ Identified(l) /\ Identified(r) => /\ GroupsKept(node, l, r)
                                               /\ node.grain # NoGrain => Identified(node)

(* What is filtered or chosen by is one of the predicates. *)
HasTree(op) == op.kind \in {"filter", "conditional"} => op.tree \in DOMAIN Tree

(* Where a grain that repeats no field identifies rows, up to the n-th node: no composition so far
   has repeated one. *)
Aligns(node, l, r) == node.op.kind = "compose" => ~RepeatsField(node.op.keys, l, r)
Unrepeated(seq, n) == \A m \in 1 .. n : Aligns(seq[m], seq[seq[m].op.left], seq[seq[m].op.right])

(* The n-th node keeps its promises and is what its operator means of earlier nodes. *)
Sound(seq, n) ==
    /\ Good(seq[n]) /\ HasTree(seq[n].op)
    /\ Unrepeated(seq, n) => Marked(seq[n])
    /\ seq[n].op.kind \in Binary =>
          /\ seq[n].op.left \in 1 .. n - 1 /\ seq[n].op.right \in 1 .. n - 1
          /\ Follows(seq[n], seq[seq[n].op.left], seq[seq[n].op.right])

NodesInv ==
    /\ nodes \in Seq(ToSet(nodes)) /\ Len(nodes) <= Len(order)
    /\ stage \notin {"binding", "compiled", "refused"} => nodes = <<>>
    /\ \A n \in DOMAIN nodes : Sound(nodes, n)

GraphInv == OrderInv /\ StageInv /\ NodesInv

-----------------------------------------------------------------------------
(* The checked nodes are numbered like the order. *)
LEMMA NodesAre ==
  ASSUME OrderInv, NodesInv
  PROVE  /\ Len(nodes) \in Nat /\ DOMAIN nodes = 1 .. Len(nodes)
         /\ Len(order) \in Nat /\ DOMAIN order = 1 .. Len(order)
         /\ \A n \in DOMAIN nodes : Good(nodes[n])
         /\ Unrepeated(nodes, Len(nodes)) => \A n \in DOMAIN nodes : Marked(nodes[n])
<1>1. \A S, seq : seq \in Seq(S) => Len(seq) \in Nat /\ DOMAIN seq = 1 .. Len(seq)
  OBVIOUS
<1>2. Len(nodes) \in Nat /\ DOMAIN nodes = 1 .. Len(nodes)
  BY <1>1 DEF NodesInv
<1>3. ASSUME Unrepeated(nodes, Len(nodes)), NEW n \in DOMAIN nodes PROVE Marked(nodes[n])
  <2>1. 1 .. n \subseteq 1 .. Len(nodes)
    BY <1>2
  <2>2. Unrepeated(nodes, n)
    BY <1>3, <2>1 DEF Unrepeated
  <2> QED
    BY <2>2 DEF NodesInv, Sound
<1> QED
  BY <1>1, <1>2, <1>3 DEF OrderInv, NodesInv, Sound

(* The inputs of the next node are bound, and there are as many as its operator takes. *)
LEMMA OperandsBound ==
  ASSUME OrderInv, StageInv, NodesInv, Binding
  PROVE  /\ \A k \in DOMAIN NextNode.inputs : Operand(k) \in DOMAIN nodes
         /\ NextNode.kind \in Unary => 1 \in DOMAIN NextNode.inputs
         /\ NextNode.kind \in Binary => 1 \in DOMAIN NextNode.inputs /\ 2 \in DOMAIN NextNode.inputs
         /\ NextNode.kind = "rows" => NextNode.query \in DOMAIN Leaves
<1> DEFINE n == Len(nodes) + 1
           j == order[n]
<1>1. n \in DOMAIN order /\ DOMAIN nodes = 1 .. n - 1
  BY NodesAre DEF Binding
<1>2. After(order, n) /\ j \in Positions /\ graph \in Proposals
  BY <1>1 DEF OrderInv
<1>3. NextNode = graph[j] /\ NextNode.inputs = Inputs(j)
  BY DEF NextNode, Inputs
<1>4. ASSUME NEW k \in DOMAIN NextNode.inputs PROVE Operand(k) \in DOMAIN nodes
  <2>1. \E m \in DOMAIN nodes : order[m] = NextNode.inputs[k]
    BY <1>1, <1>2, <1>3 DEF After
  <2> QED
    BY <2>1 DEF Operand
<1>5. Inputs(j) \in Seq(Positions)
  BY <1>2, GraphFacts
<1>6. /\ graph[j].kind = "rows" => graph[j].query \in DOMAIN Leaves
      /\ graph[j].kind \in Unary => Len(Inputs(j)) = 1
      /\ graph[j].kind \in Binary => Len(Inputs(j)) = 2
  BY <1>2, GraphAssumption DEF Inputs, Positions
<1> HIDE DEF n, j
<1>7. Len(Inputs(j)) \in {1, 2} => DOMAIN Inputs(j) = 1 .. Len(Inputs(j))
  BY <1>5
<1>8. /\ NextNode.kind \in Unary => 1 \in DOMAIN NextNode.inputs
      /\ NextNode.kind \in Binary => 1 \in DOMAIN NextNode.inputs /\ 2 \in DOMAIN NextNode.inputs
  BY <1>3, <1>6, <1>7
<1> QED
  BY <1>3, <1>4, <1>6, <1>8

(* A step that binds a node which keeps its promises. *)
LEMMA NodeBound ==
  ASSUME GraphInv, Binding, NEW node, Bind(node), Good(node), HasTree(node.op),
         /\ Unrepeated(nodes, Len(nodes)) /\ Aligns(node, nodes[node.op.left], nodes[node.op.right])
         => Marked(node),
         node.op.kind \in Binary =>
            /\ node.op.left \in DOMAIN nodes /\ node.op.right \in DOMAIN nodes
            /\ Follows(node, nodes[node.op.left], nodes[node.op.right])
  PROVE  GraphInv'
<1>1. OrderInv' /\ StageInv'
  BY StageKept DEF GraphInv, Bind, Binding
<1>2. nodes' = Append(nodes, node) /\ order' = order /\ stage' = "binding"
  BY DEF Bind, Binding
<1>3. /\ Len(nodes) \in Nat /\ DOMAIN nodes = 1 .. Len(nodes)
      /\ nodes \in Seq(ToSet(nodes)) /\ Len(nodes) < Len(order) /\ Len(order) \in Nat
  BY NodesAre DEF GraphInv, NodesInv, Binding
<1>4. /\ Len(nodes') = Len(nodes) + 1 /\ DOMAIN nodes' = 1 .. Len(nodes) + 1
      /\ nodes'[Len(nodes) + 1] = node /\ \A n \in DOMAIN nodes : nodes'[n] = nodes[n]
  BY <1>2, <1>3
<1>5. nodes' \in Seq(ToSet(nodes'))
  <2>1. \A n \in DOMAIN nodes' : nodes'[n] \in ToSet(nodes')
    BY DEF ToSet
  <2>2. nodes' \in Seq(ToSet(nodes) \cup {node})
    BY <1>2, <1>3
  <2> QED
    BY <2>1, <2>2
<1>6. ASSUME NEW m \in DOMAIN nodes
      PROVE  Aligns(nodes'[m], nodes'[nodes'[m].op.left], nodes'[nodes'[m].op.right])
                <=> Aligns(nodes[m], nodes[nodes[m].op.left], nodes[nodes[m].op.right])
  <2>1. CASE nodes[m].op.kind = "compose"
    <3>1. nodes[m].op.left \in 1 .. m - 1 /\ nodes[m].op.right \in 1 .. m - 1
      BY <2>1 DEF GraphInv, NodesInv, Sound, Binary
    <3>2. \A k \in 1 .. m - 1 : nodes'[k] = nodes[k]
      BY <1>3, <1>4
    <3> QED
      BY <1>4, <3>1, <3>2
  <2>2. CASE nodes[m].op.kind # "compose"
    BY <1>4, <2>2 DEF Aligns
  <2> QED
    BY <2>1, <2>2
<1>7. ASSUME NEW n \in DOMAIN nodes, Unrepeated(nodes', n) PROVE Unrepeated(nodes, n)
  <2>1. 1 .. n \subseteq DOMAIN nodes
    BY <1>3
  <2> QED
    BY <1>6, <1>7, <2>1 DEF Unrepeated
<1>8. ASSUME NEW n \in DOMAIN nodes' PROVE Sound(nodes', n)
  <2>1. CASE n \in DOMAIN nodes
    <3>1. Sound(nodes, n) /\ nodes'[n] = nodes[n] /\ \A m \in 1 .. n - 1 : nodes'[m] = nodes[m]
      BY <1>3, <1>4, <2>1 DEF GraphInv, NodesInv
    <3> QED
      BY <1>7, <2>1, <3>1 DEF Sound
  <2>2. CASE n = Len(nodes) + 1
    <3>1. nodes'[n] = node /\ 1 .. n - 1 = DOMAIN nodes /\ n \in 1 .. n
      BY <1>3, <1>4, <2>2
    <3>2. Unrepeated(nodes', n) => Marked(node)
      <4> SUFFICES ASSUME Unrepeated(nodes', n) PROVE Marked(node)
        OBVIOUS
      <4>1. ASSUME NEW m \in 1 .. Len(nodes)
            PROVE  Aligns(nodes[m], nodes[nodes[m].op.left], nodes[nodes[m].op.right])
        <5>1. m \in 1 .. n /\ m \in DOMAIN nodes
          BY <1>3, <2>2
        <5> QED
          BY <1>6, <5>1 DEF Unrepeated
      <4>2. Aligns(node, nodes'[node.op.left], nodes'[node.op.right])
        BY <3>1 DEF Unrepeated
      <4>3. Aligns(node, nodes[node.op.left], nodes[node.op.right])
        BY <1>4, <4>2 DEF Aligns, Binary
      <4> QED
        BY <4>1, <4>3 DEF Unrepeated
    <3> QED
      BY <1>4, <3>1, <3>2 DEF Sound
  <2> QED
    BY <1>3, <1>4, <2>1, <2>2
<1>9. NodesInv'
  BY <1>2, <1>3, <1>4, <1>5, <1>8 DEF NodesInv
<1> QED
  BY <1>1, <1>9 DEF GraphInv

-----------------------------------------------------------------------------
(* The actions.                                                            *)

(* A leaf keeps the promises that are verified when its row query is bound. *)
LEMMA RowsBound ==
  ASSUME GraphInv, BindRows
  PROVE  GraphInv'
<1>1. Binding /\ NextNode.kind = "rows"
  BY DEF BindRows, Takes
<1>2. NextNode.query \in DOMAIN Leaves
  BY <1>1, OperandsBound DEF GraphInv
<1>3. PICK leaf \in Leaves[NextNode.query] : Bind(leaf)
  BY DEF BindRows
<1>4. leaf.op.kind = "rows" /\ Good(leaf) /\ Marked(leaf)
  BY <1>2, LeavesAssumption DEF Good, Marked, KeysOnly
<1> QED
  BY <1>1, <1>3, <1>4, NodeBound DEF Binary, HasTree

(* The input of a unary operator. *)
LEMMA SourceIs ==
  ASSUME GraphInv, NEW kind \in Unary, Takes(kind)
  PROVE  /\ Binding /\ Good(nodes[Operand(1)])
         /\ Unrepeated(nodes, Len(nodes)) => Marked(nodes[Operand(1)])
<1>1. Binding /\ NextNode.kind \in Unary
  BY DEF Takes
<1> QED
  BY <1>1, OperandsBound, NodesAre DEF GraphInv

(* A unary operator that derives a slot with the nulls it declares. *)
LEMMA DerivedBound ==
  ASSUME GraphInv, NEW kind \in Unary, Takes(kind), NEW source, source = nodes[Operand(1)],
         NEW pass \in Passes(source), NEW op, op.kind = kind, HasTree(op),
         NEW slot \in [type : Types, null : BOOLEAN, origin : STRING \cup {Null}],
         NEW value, \A row \in DOMAIN source.rows : value[row] = Null => slot.null,
         Bind(Derive(source, pass, op, slot, value))
  PROVE  GraphInv'
<1> DEFINE node == Derive(source, pass, op, slot, value)
<1>1. Binding /\ Good(source) /\ (Unrepeated(nodes, Len(nodes)) => Marked(source))
  BY SourceIs
<1>2. Good(node) /\ node.op = op /\ (Marked(source) => Marked(node))
  BY <1>1, DeriveIsGood
<1>3. op.kind \notin Binary
  BY DEF Unary, Binary
<1> HIDE DEF node
<1>4. Bind(node)
  BY DEF node
<1> QED
  BY <1>1, <1>2, <1>3, <1>4, NodeBound

(* A slot of a node has a type, may be nullable and may have an origin. *)
LEMMA SlotOf ==
  ASSUME NEW node, Typed(node), NEW s \in DOMAIN node.slots
  PROVE  /\ node.slots[s].type \in Types /\ node.slots[s].null \in BOOLEAN
         /\ node.slots[s].origin \in STRING \cup {Null}
  BY DEF Typed

(* The derived slots have a type. *)
LEMMA TypesAre ==
  /\ "int64" \in Types /\ "decimal" \in Types /\ "boolean" \in Types
  /\ Null \in STRING \cup {Null} /\ TRUE \in BOOLEAN /\ FALSE \in BOOLEAN
  BY DEF Types

(* A calculation may divide by zero or read a null; it is declared nullable. *)
LEMMA CalculateBound ==
  ASSUME GraphInv, Calculate
  PROVE  GraphInv'
<1> DEFINE source == nodes[Operand(1)]
           op == [kind |-> "calculate", input |-> Operand(1)]
           slot == Slot("decimal", TRUE, Null)
<1>1. Takes("calculate") /\ "calculate" \in Unary /\ op.kind = "calculate" /\ HasTree(op)
  BY DEF Calculate, Unary, HasTree
<1>2. \E pass \in Passes(source) : \E value : Bind(Derive(source, pass, op, slot, value))
  BY DEF Calculate
<1>3. slot \in [type : Types, null : BOOLEAN, origin : STRING \cup {Null}] /\ slot.null = TRUE
  BY TypesAre DEF Slot
<1> HIDE DEF source, op, slot
<1>4. PICK pass \in Passes(source) : \E value : Bind(Derive(source, pass, op, slot, value))
  BY <1>2
<1>5. PICK value : Bind(Derive(source, pass, op, slot, value))
  BY <1>4
<1> QED
  BY <1>1, <1>3, <1>5, DerivedBound DEF source

(* A conditional is declared nullable. *)
LEMMA ConditionalBound ==
  ASSUME GraphInv, Conditional
  PROVE  GraphInv'
<1> DEFINE source == nodes[Operand(1)]
           op(p) == [kind |-> "conditional", input |-> Operand(1), tree |-> p]
           slot == Slot("int64", TRUE, Null)
<1>1. Takes("conditional") /\ "conditional" \in Unary /\ \A p \in DOMAIN Tree : op(p).kind = "conditional" /\ HasTree(op(p))
  BY DEF Conditional, Unary, HasTree
<1>2. \E pass \in Passes(source) : \E p \in DOMAIN Tree : \E value : Bind(Derive(source, pass, op(p), slot, value))
  BY DEF Conditional
<1>3. slot \in [type : Types, null : BOOLEAN, origin : STRING \cup {Null}] /\ slot.null = TRUE
  BY TypesAre DEF Slot
<1> HIDE DEF source, op, slot
<1>4. PICK pass \in Passes(source) :
         \E p \in DOMAIN Tree : \E value : Bind(Derive(source, pass, op(p), slot, value))
  BY <1>2
<1>5. PICK p \in DOMAIN Tree : \E value : Bind(Derive(source, pass, op(p), slot, value))
  BY <1>4
<1>6. PICK value : Bind(Derive(source, pass, op(p), slot, value))
  BY <1>5
<1> QED
  BY <1>1, <1>3, <1>6, DerivedBound DEF source

(* A cast is null where its slot is. *)
LEMMA CastBound ==
  ASSUME GraphInv, Cast
  PROVE  GraphInv'
<1> DEFINE source == nodes[Operand(1)]
           op == [kind |-> "cast", input |-> Operand(1)]
           slot(s) == [source.slots[s] EXCEPT !.type = "decimal"]
           value(s) == [row \in DOMAIN source.rows |-> row[s]]
<1>1. Takes("cast") /\ "cast" \in Unary /\ op.kind = "cast" /\ HasTree(op)
  BY DEF Cast, Unary, HasTree
<1>2. PICK pass \in Passes(source), s \in Integers64(source) : Bind(Derive(source, pass, op, slot(s), value(s)))
  BY DEF Cast
<1>3. Good(source)
  BY <1>1, SourceIs
<1>4. s \in DOMAIN source.slots
  BY DEF Integers64
<1>5. /\ slot(s) \in [type : Types, null : BOOLEAN, origin : STRING \cup {Null}]
      /\ slot(s).null = source.slots[s].null
  <2>1. source.slots[s] \in [type : Types, null : BOOLEAN, origin : STRING \cup {Null}]
    BY <1>3, <1>4 DEF Good, Typed
  <2> HIDE DEF source
  <2> QED
    BY <2>1, TypesAre
<1>6. \A row \in DOMAIN source.rows : value(s)[row] = Null => slot(s).null
  <2>1. \A row \in DOMAIN source.rows : row[s] = Null => source.slots[s].null
    BY <1>3, <1>4 DEF Good, NullsFit
  <2>2. \A row \in DOMAIN source.rows : value(s)[row] = row[s]
    OBVIOUS
  <2> HIDE DEF slot, value, source
  <2> QED
    BY <1>5, <2>1, <2>2
<1> HIDE DEF source, op, slot, value
<1> QED
  BY <1>1, <1>2, <1>5, <1>6, DerivedBound DEF source

(* A null test is 0 or 1. *)
LEMMA NullTestBound ==
  ASSUME GraphInv, NullTest
  PROVE  GraphInv'
<1> DEFINE source == nodes[Operand(1)]
           op == [kind |-> "null_test", input |-> Operand(1)]
           slot == Slot("boolean", FALSE, Null)
           value(s, negated) == [row \in DOMAIN source.rows |-> IF (row[s] = Null) # negated THEN 1 ELSE 0]
<1>1. Takes("null_test") /\ "null_test" \in Unary /\ op.kind = "null_test" /\ HasTree(op)
  BY DEF NullTest, Unary, HasTree
<1>2. PICK pass \in Passes(source), s \in Integers64(source), negated \in BOOLEAN :
         Bind(Derive(source, pass, op, slot, value(s, negated)))
  BY DEF NullTest
<1>3. slot \in [type : Types, null : BOOLEAN, origin : STRING \cup {Null}]
  BY TypesAre DEF Slot
<1>4. \A row \in DOMAIN source.rows : value(s, negated)[row] # Null
  BY GraphAssumption
<1> HIDE DEF source, op, slot, value
<1> QED
  BY <1>1, <1>2, <1>3, <1>4, DerivedBound DEF source

(* A comparison is unknown only if one of its operands is null. *)
LEMMA CompareSlotsBound ==
  ASSUME GraphInv, CompareSlots
  PROVE  GraphInv'
<1> DEFINE source == nodes[Operand(1)]
           op == [kind |-> "compare_slots", input |-> Operand(1)]
           slot(s, t) == Slot("boolean", source.slots[s].null \/ source.slots[t].null, Null)
           value(s, t, operator) ==
               [row \in DOMAIN source.rows |-> LET v == Compare3(row[s], operator, row[t])
                                               IN  CASE v = "true" -> 1 [] v = "false" -> 0 [] OTHER -> Null]
<1>1. Takes("compare_slots") /\ "compare_slots" \in Unary /\ op.kind = "compare_slots" /\ HasTree(op)
  BY DEF CompareSlots, Unary, HasTree
<1>2. PICK pass \in Passes(source), s \in Integers64(source), t \in Integers64(source), operator \in {"eq", "lt"} :
         Bind(Derive(source, pass, op, slot(s, t), value(s, t, operator)))
  BY DEF CompareSlots
<1>3. Good(source)
  BY <1>1, SourceIs
<1>4. s \in DOMAIN source.slots /\ t \in DOMAIN source.slots
  BY DEF Integers64
<1>5. source.slots[s].null \in BOOLEAN /\ source.slots[t].null \in BOOLEAN
  BY <1>3, <1>4, SlotOf DEF Good
<1>6. /\ slot(s, t) \in [type : Types, null : BOOLEAN, origin : STRING \cup {Null}]
      /\ slot(s, t).null = (source.slots[s].null \/ source.slots[t].null)
  BY <1>5, TypesAre DEF Slot
<1>7. ASSUME NEW row \in DOMAIN source.rows, value(s, t, operator)[row] = Null
      PROVE  source.slots[s].null \/ source.slots[t].null
  <2>1. Compare3(row[s], operator, row[t]) \notin {"true", "false"}
    <3> DEFINE v == Compare3(row[s], operator, row[t])
    <3>1. (CASE v = "true" -> 1 [] v = "false" -> 0 [] OTHER -> Null) = Null
      BY <1>7
    <3> HIDE DEF v
    <3>2. v \notin {"true", "false"}
      BY <3>1, GraphAssumption
    <3> QED
      BY <3>2 DEF v
  <2>2. row[s] = Null \/ row[t] = Null
    BY <2>1 DEF Compare3, Bool3
  <2> QED
    BY <1>3, <1>4, <2>2 DEF Good, NullsFit
<1> HIDE DEF source, op, slot, value
<1> QED
  BY <1>1, <1>2, <1>6, <1>7, DerivedBound DEF source

(* A filter binds. *)
LEMMA FilterBound ==
  ASSUME GraphInv, Filter
  PROVE  GraphInv'
<1> DEFINE source == nodes[Operand(1)]
           op(p) == [kind |-> "filter", input |-> Operand(1), tree |-> p]
           kept(S) == [row \in {r \in DOMAIN source.rows : r \in S} |-> source.rows[row]]
<1>1. Takes("filter") /\ "filter" \in Unary /\ \A p \in DOMAIN Tree : op(p).kind = "filter" /\ HasTree(op(p))
  BY DEF Filter, Unary, HasTree
<1>2. PICK p \in DOMAIN Tree :
         Bind(CheckedNode(op(p), source.slots, source.grain,
                          [row \in {r \in DOMAIN source.rows : Direct(p, r) = "true"} |-> source.rows[row]]))
  BY DEF Filter
<1> DEFINE S == {r \in DOMAIN source.rows : Direct(p, r) = "true"}
           node == CheckedNode(op(p), source.slots, source.grain, kept(S))
<1>3. Bind(node)
  <2>1. {r \in DOMAIN source.rows : Direct(p, r) = "true"} = {r \in DOMAIN source.rows : r \in S}
    OBVIOUS
  <2> QED
    BY <1>2, <2>1
<1>4. Binding /\ Good(source) /\ (Unrepeated(nodes, Len(nodes)) => Marked(source))
  BY <1>1, SourceIs
<1> HIDE DEF source, op, S
<1>5. Good(node) /\ node.op = op(p) /\ (Marked(source) => Marked(node))
  BY <1>4, FilterIsGood
<1> HIDE DEF node
<1> QED
  BY <1>1, <1>3, <1>4, <1>5, NodeBound DEF Binary

(* The inputs of an operator of two inputs. *)
LEMMA PairIs ==
  ASSUME GraphInv, NEW kind \in Binary, Takes(kind)
  PROVE  /\ Binding /\ Operand(1) \in DOMAIN nodes /\ Operand(2) \in DOMAIN nodes
         /\ Good(nodes[Operand(1)]) /\ Good(nodes[Operand(2)])
         /\ Unrepeated(nodes, Len(nodes)) => Marked(nodes[Operand(1)]) /\ Marked(nodes[Operand(2)])
<1>1. Binding /\ NextNode.kind \in Binary
  BY DEF Takes
<1> QED
  BY <1>1, OperandsBound, NodesAre DEF GraphInv

(* A set operation binds, and counts rows as its operator says. *)
LEMMA SetOperationBound ==
  ASSUME GraphInv, SetOperation
  PROVE  GraphInv'
<1> DEFINE l == nodes[Operand(1)]
           r == nodes[Operand(2)]
           op(columns, operator, duplicates) ==
             [kind |-> "set", left |-> Operand(1), right |-> Operand(2), columns |-> columns,
              operator |-> operator, duplicates |-> duplicates]
<1>1. Takes("set") /\ "set" \in Binary
  BY DEF SetOperation, Binary
<1>2. PICK columns \in Alignments(l, r), operator \in SetOperators, duplicates \in SetForms :
         Bind(SetNode(l, r, columns, operator, duplicates, op(columns, operator, duplicates)))
  BY DEF SetOperation, SetOperators, SetForms, SetNode
<1>3. Binding /\ Operand(1) \in DOMAIN nodes /\ Operand(2) \in DOMAIN nodes /\ Good(l) /\ Good(r)
  BY <1>1, PairIs
<1> DEFINE o == op(columns, operator, duplicates)
           made == SetNode(l, r, columns, operator, duplicates, o)
<1>4. /\ o.kind = "set" /\ o.left = Operand(1) /\ o.right = Operand(2) /\ o.columns = columns
      /\ o.operator = operator /\ o.duplicates = duplicates
  OBVIOUS
<1>5. made.rows = SetRows(Project(l, columns, 1), Project(r, columns, 2), operator, duplicates)
  BY DEF CheckedNode, SetNode
<1>6. Good(made) /\ made.op = o /\ Marked(made)
  <2> HIDE DEF o, l, r
  <2> QED
    BY <1>3, SetIsGood
<1> HIDE DEF op, l, r
<1>7. IsBag(Project(l, columns, 1)) /\ IsBag(Project(r, columns, 2))
  <2>1. \A id \in DOMAIN columns : columns[id][1] \in DOMAIN l.slots /\ columns[id][2] \in DOMAIN r.slots
    BY DEF Alignments
  <2> QED
    BY <1>3, <2>1, ProjectIsBag
<1> HIDE DEF o, made
<1>8. RowsCount(made, l, r)
  <2> DEFINE pl == Project(l, columns, 1)
             pr == Project(r, columns, 2)
  <2>1. IsBag(pl) /\ IsBag(pr) /\ made.rows = SetRows(pl, pr, o.operator, o.duplicates)
    BY <1>4, <1>5, <1>7
  <2>2. made.op.columns = columns /\ o.operator \in SetOperators /\ o.duplicates \in SetForms
    BY <1>4, <1>6
  <2> HIDE DEF pl, pr
  <2>3. \A row : Times(made.rows, row) = Count(made.op, Times(pl, row), Times(pr, row))
    BY <1>6, <2>1, <2>2, SetRowsTimes
  <2> QED
    BY <2>2, <2>3 DEF RowsCount, pl, pr
<1>9. Bind(made) /\ made.op.left = Operand(1) /\ made.op.right = Operand(2) /\ made.op.kind = "set"
  <2>1. Bind(made)
    BY <1>2 DEF made, o
  <2> QED
    BY <1>4, <1>6, <2>1
<1>10. Follows(made, l, r)
  BY <1>8, <1>9 DEF Follows
<1> QED
  BY <1>3, <1>6, <1>9, <1>10, NodeBound DEF l, r, HasTree

(* A composition binds, and keeps the groups of its domain. *)
LEMMA ComposeBound ==
  ASSUME GraphInv, Compose
  PROVE  GraphInv'
<1> DEFINE l == nodes[Operand(1)]
           r == nodes[Operand(2)]
           choices == [kind : {"compose"}, left : {Operand(1)}, right : {Operand(2)},
                       keys : KeyAlignments(l, r), nulls : {"match", "never_match"},
                       domain : {"union", "intersection", "left", "right"},
                       output : Outputs(l, r, {"null", "zero"})]
           node(c, type) ==
             CheckedNode(c, [id \in DOMAIN c.keys \cup {"value"} |->
                               IF id = "value" THEN Slot(type, TRUE, Null)
                               ELSE [l.slots[c.keys[id][1]] EXCEPT !.null = TRUE]],
                         ComposedGrain(l, r, c), ComposedRows(l, r, c))
           source(c) == IF c.output.side = 1 THEN l.slots[c.output.slot] ELSE r.slots[c.output.slot]
<1>1. Takes("compose") /\ "compose" \in Binary
  BY DEF Compose, Binary
<1>2. /\ l.grain # NoGrain /\ r.grain # NoGrain
      /\ \E c \in choices : Bind(node(c, source(c).type))
  BY DEF Compose
<1>3. PICK c \in choices : Bind(node(c, source(c).type))
  BY <1>2
<1>4. /\ Binding /\ Operand(1) \in DOMAIN nodes /\ Operand(2) \in DOMAIN nodes
      /\ Good(l) /\ Good(r) /\ (Unrepeated(nodes, Len(nodes)) => Marked(l) /\ Marked(r))
  BY <1>1, PairIs
<1>5. /\ c.kind = "compose" /\ c.left = Operand(1) /\ c.right = Operand(2)
      /\ c.keys \in KeyAlignments(l, r) /\ c.nulls \in {"match", "never_match"}
      /\ c.output \in Outputs(l, r, {"null", "zero"})
  BY <1>3
<1> DEFINE type == source(c).type
           made == node(c, type)
<1>6. c.output.side \in {1, 2} /\ type \in Types
  <2>1. /\ c.output.side \in {1, 2}
        /\ c.output.side = 1 => c.output.slot \in DOMAIN l.slots
        /\ c.output.side = 2 => c.output.slot \in DOMAIN r.slots
    <3> HIDE DEF l, r, choices
    <3> QED
      BY <1>5 DEF Outputs
  <2> QED
    BY <1>4, <2>1, SlotOf DEF Good
<1>7. made.rows = ComposedRows(l, r, c)
  BY DEF CheckedNode
<1> HIDE DEF l, r, choices, source, type
<1>8. /\ Good(made) /\ made.op = c
      /\ Identified(l) /\ Identified(r) /\ made.grain # NoGrain => Identified(made)
  BY <1>2, <1>4, <1>5, <1>6, ComposeIsGood
<1>9. Bind(made)
  BY <1>3 DEF type
<1> HIDE DEF node, made
<1>10. Identified(l) /\ Identified(r) => GroupsKept(made, l, r)
  BY <1>2, <1>4, <1>5, <1>6, <1>7, <1>8, ComposeKeepsGroups
<1>11. ~RepeatsField(c.keys, l, r) /\ Marked(l) /\ Marked(r) => Identified(l) /\ Identified(r)
  BY <1>2, <1>4, <1>5, KeysIdentify
<1>12. Follows(made, l, r)
  BY <1>5, <1>8, <1>10, <1>11 DEF Follows
<1>13. Unrepeated(nodes, Len(nodes)) /\ Aligns(made, l, r) => Marked(made)
  BY <1>4, <1>5, <1>8, <1>11 DEF Aligns, Marked, KeysOnly
<1>14. HasTree(made.op) /\ made.op.kind \in Binary
       /\ made.op.left = Operand(1) /\ made.op.right = Operand(2)
  BY <1>1, <1>5, <1>8 DEF HasTree
<1> QED
  BY <1>4, <1>8, <1>9, <1>12, <1>13, <1>14, NodeBound DEF l, r

-----------------------------------------------------------------------------
(* Nothing is ordered or bound initially. *)
LEMMA InitGraph ==
  ASSUME GraphInit
  PROVE  GraphInv
<1>1. order = <<>> /\ nodes = <<>>
  BY DEF GraphInit, GraphStart
<1>2. NodesInv
  <2>1. Len(nodes) = 0 /\ Len(order) = 0 /\ DOMAIN nodes = {} /\ nodes \in Seq(ToSet(nodes))
    BY <1>1
  <2> QED
    BY <1>1, <2>1 DEF NodesInv
<1> QED
  BY <1>2, InitOrder, InitStage DEF GraphInv

(* Nodes are as they were while the order grows or the stage ends. *)
LEMMA NodesKept ==
  ASSUME NodesInv, nodes' = nodes, order' = order \/ nodes = <<>>,
         order' \in Seq(Positions'),
         stage \in {"binding", "compiled", "refused"} => stage' \in {"binding", "compiled", "refused"}
  PROVE  NodesInv'
<1>1. Len(nodes') <= Len(order')
  <2>1. Len(order') \in Nat
    OBVIOUS
  <2>2. nodes = <<>> => Len(nodes) = 0
    OBVIOUS
  <2> QED
    BY <2>1, <2>2 DEF NodesInv
<1>2. \A n \in DOMAIN nodes' : Sound(nodes', n)
  BY DEF NodesInv
<1>3. nodes' \in Seq(ToSet(nodes'))
  BY DEF NodesInv
<1>4. stage' \notin {"binding", "compiled", "refused"} => nodes' = <<>>
  BY DEF NodesInv
<1> QED
  BY <1>1, <1>2, <1>3, <1>4 DEF NodesInv

(* Every action keeps the invariant. *)
LEMMA GraphStep ==
  ASSUME GraphInv, GraphNext
  PROVE  GraphInv'
<1>1. ASSUME OrderNext PROVE GraphInv'
  <2>1. OrderInv' /\ StageInv'
    BY <1>1, OrderingKeeps DEF GraphInv
  <2>2. nodes' = nodes /\ stage = "ordering"
    BY <1>1 DEF OrderNext
  <2>3. nodes = <<>>
    BY <2>2 DEF GraphInv, NodesInv
  <2>4. order' \in Seq(Positions')
    BY <2>1 DEF OrderInv
  <2>5. NodesInv'
    BY <2>2, <2>3, <2>4, NodesKept DEF GraphInv
  <2> QED
    BY <2>1, <2>5 DEF GraphInv
<1>2. ASSUME OrderEnd PROVE GraphInv'
  <2>1. OrderInv' /\ StageInv'
    BY <1>2, OrderEnds DEF GraphInv
  <2>2. nodes' = nodes /\ order' = order /\ stage = "ordering"
    BY <1>2 DEF OrderEnd
  <2>3. order' \in Seq(Positions')
    BY <2>1 DEF OrderInv
  <2>4. NodesInv'
    BY <2>2, <2>3, NodesKept DEF GraphInv
  <2> QED
    BY <2>1, <2>4 DEF GraphInv
<1>3. ASSUME RefuseNode \/ GraphDone PROVE GraphInv'
  <2>1. /\ UNCHANGED <<graph, ready, pending, order, expanded, depth>> /\ nodes' = nodes
        /\ stage = "binding" /\ stage' \in {"compiled", "refused"}
    BY <1>3 DEF RefuseNode, GraphDone, Binding
  <2>2. OrderInv' /\ StageInv'
    BY <2>1, StageKept DEF GraphInv
  <2>3. order' \in Seq(Positions')
    BY <2>2 DEF OrderInv
  <2>4. NodesInv'
    BY <2>1, <2>3, NodesKept DEF GraphInv
  <2> QED
    BY <2>2, <2>4 DEF GraphInv
<1> QED
  BY <1>1, <1>2, <1>3, RowsBound, CalculateBound, ConditionalBound, CastBound, NullTestBound,
     CompareSlotsBound, FilterBound, SetOperationBound, ComposeBound DEF GraphNext

(* So does a step that changes nothing. *)
LEMMA GraphStutters ==
  ASSUME GraphInv, UNCHANGED graphVars
  PROVE  GraphInv'
<1>1. OrderInv'
  BY OrderKept DEF GraphInv, graphVars
<1>2. StageInv'
  <2>1. Reachable' = Reachable /\ Positions' = Positions /\ (Acyclic' <=> Acyclic)
    BY SameGraph DEF graphVars
  <2>2. Expansion(Root)' = Expansion(Root) /\ Height(Root)' = Height(Root)
    BY SameLimits DEF graphVars
  <2> QED
    BY <2>1, <2>2 DEF GraphInv, StageInv, graphVars
<1>3. NodesInv'
  <2>1. order' \in Seq(Positions')
    BY <1>1 DEF OrderInv
  <2> QED
    BY <2>1, NodesKept DEF GraphInv, graphVars
<1> QED
  BY <1>1, <1>2, <1>3 DEF GraphInv

(* The order built so far, the error reported and the nodes bound are what the compiler promises:
   the invariant of topological() and of the binding loop of graph.rs. *)
THEOREM GraphInductive == GraphSpec => []GraphInv
<1>1. GraphInit => GraphInv
  BY InitGraph
<1>2. GraphInv /\ [GraphNext]_graphVars => GraphInv'
  BY GraphStep, GraphStutters
<1> QED
  BY <1>1, <1>2, PTL DEF GraphSpec

(* What is counted for a node is a number, because a proposal is finite. *)
LEMMA GraphTyped ==
  ASSUME GraphInv
  PROVE  GraphTypeOK
<1>1. graph \in Proposals /\ order \in Seq(Positions) /\ ready \subseteq Positions
  BY DEF GraphInv, OrderInv
<1>2. graph \in Seq([kind : STRING, inputs : Seq(Positions), query : STRING])
  BY <1>1, GraphAssumption DEF Positions
<1>3. \A j \in Positions : IsFiniteSet(Waiting(j, ToSet(order))) /\ IsFiniteSet(Open(j, ToSet(order)))
  <2> TAKE j \in Positions
  <2>1. IsFiniteSet(Walks(j)) /\ IsFiniteSet(DOMAIN Inputs(j))
    BY <1>1, WalksFinite, InputsFinite
  <2> QED
    BY <2>1, FS_Subset DEF Waiting, Open
<1>4. \A j \in Positions : Cardinality(Waiting(j, ToSet(order))) \in Nat /\ Cardinality(Open(j, ToSet(order))) \in Nat
  BY <1>3, FS_CardinalityType
<1>5. pending \in [Positions -> Nat] /\ expanded \in [Positions -> Nat] /\ depth \in [Positions -> Nat]
  BY <1>4 DEF GraphInv, OrderInv
<1>6. \A n \in DOMAIN nodes : Typed(nodes[n])
  BY DEF GraphInv, NodesInv, Sound, Good
<1> QED
  BY <1>1, <1>2, <1>5, <1>6 DEF GraphTypeOK, GraphInv, StageInv

(* Every variable of the compiler has its type. *)
THEOREM GraphTypes == GraphSpec => []GraphTypeOK
<1>1. GraphInv => GraphTypeOK
  BY GraphTyped
<1> QED
  BY <1>1, GraphInductive, PTL

(* The order of topological() is one in which inputs come first and counts every expansion; a cycle
   is reported only if there is one, and a limit only if the expanded graph exceeds it. *)
THEOREM TopologicalOrder == GraphSpec => []OrderIsTopological
<1>1. GraphInv => OrderIsTopological
  BY Topological DEF GraphInv
<1> QED
  BY <1>1, GraphInductive, PTL

(* No row of a checked node has a null in a slot that is not declared nullable, whatever scalar.rs,
   set.rs and compose.rs derived it from. *)
THEOREM DeclaredNulls == GraphSpec => []NullsAreDeclared
<1>1. GraphInv => NullsAreDeclared
  BY DEF GraphInv, NodesInv, Sound, Good, NullsAreDeclared
<1> QED
  BY <1>1, GraphInductive, PTL

(* As long as the relationships that compositions use repeat no field, what compose.rs aligns has one
   row for each tuple of its keys, and so has what it makes if it claims a grain, although unary
   operators only count the keys they pass on. *)
THEOREM IdentifyingGrains == GraphSpec => []ComposedGrainsIdentify
<1>1. GraphInv => ComposedGrainsIdentify
  <2> SUFFICES ASSUME GraphInv, NEW n \in Composed,
                      \A m \in Composed :
                         ~RepeatsField(nodes[m].op.keys, nodes[nodes[m].op.left], nodes[nodes[m].op.right])
               PROVE  /\ Identified(nodes[nodes[n].op.left]) /\ Identified(nodes[nodes[n].op.right])
                      /\ nodes[n].grain # NoGrain => Identified(nodes[n])
    BY DEF ComposedGrainsIdentify, GrainsIdentify
  <2>1. DOMAIN nodes = 1 .. Len(nodes) /\ n \in DOMAIN nodes /\ nodes[n].op.kind = "compose"
    BY NodesAre DEF GraphInv, Composed
  <2>2. Unrepeated(nodes, Len(nodes))
    BY <2>1 DEF Unrepeated, Aligns, Composed
  <2>3. \A m \in DOMAIN nodes : Marked(nodes[m])
    BY <2>2, NodesAre DEF GraphInv
  <2>4. /\ Follows(nodes[n], nodes[nodes[n].op.left], nodes[nodes[n].op.right])
        /\ nodes[n].op.left \in 1 .. n - 1 /\ nodes[n].op.right \in 1 .. n - 1
    BY <2>1 DEF GraphInv, NodesInv, Sound, Binary
  <2>5. nodes[n].op.left \in DOMAIN nodes /\ nodes[n].op.right \in DOMAIN nodes
    BY <2>1, <2>4, NodesAre DEF GraphInv
  <2> QED
    BY <2>1, <2>3, <2>4, <2>5 DEF Follows
<1> QED
  BY <1>1, GraphInductive, PTL

(* The numbered joins of set.rs count rows as SQL does, and the joins of compose.rs keep every group
   of their domain once with its own measure, wherever the keys identify the rows of both sides. *)
THEOREM DefinedRows == GraphSpec => []RowsAreAsDefined
<1>1. GraphInv => RowsAreAsDefined
  BY DEF GraphInv, NodesInv, Sound, Follows, Binary, RowsAreAsDefined
<1> QED
  BY <1>1, GraphInductive, PTL

(* A predicate that calculate.rs emits as SQL text for a filter or a conditional says of every row what
   scalar.rs makes of it in the direct plan, whatever the predicate, unless a disjunction is an operand
   of a conjunction. *)
THEOREM EmittedPredicates == GraphSpec => []EmittedAgreesUnnested
<1>1. GraphInv => EmittedAgreesUnnested
  <2> SUFFICES ASSUME GraphInv, NEW n \in DOMAIN nodes, Predicated(n),
                      NEW p, p = nodes[n].op.tree, NEW node,
                      ~\E i \in 1 .. p : Tree[i].kind = "all"
                         /\ \E k \in ToSet(Tree[i].kids) : Tree[k].kind = "any"
               PROVE  Agrees(p, node)
    BY DEF EmittedAgreesUnnested
  <2>1. p \in DOMAIN Tree
    BY DEF GraphInv, NodesInv, Sound, HasTree, Predicated
  <2>2. Unnested(p)
    BY DEF Unnested
  <2> QED
    BY <2>1, <2>2, EmittedIsDirect DEF Agrees
<1> QED
  BY <1>1, GraphInductive, PTL
=============================================================================
