--------------------------- MODULE ExecutionFrame ---------------------------
(***************************************************************************)
(* How a query gets its materialized relations: Engine::execution_frame of *)
(* crates/semantic-engine/src/materialization.rs.  Relations are taken in  *)
(* registration order, inputs first; each one the query needs and that has *)
(* a policy is resolved to a generation.  Cache keys carry the generations *)
(* of the inputs; age limits go down to the inputs.                        *)
(*                                                                         *)
(* The cache is what SnapshotStore promises: atomic snapshots, one visible *)
(* per key, one fill at a time.  The clock does not go back here (it does  *)
(* in Materialization).  Policies are those of relations no write binding  *)
(* excludes.                                                               *)
(***************************************************************************)
EXTENDS Integers, Sequences, FiniteSets, FiniteSetsExt

CONSTANTS
    Queries,       \* executions, each on an engine of its own
    Relations,
    Deps,          \* relation -> its direct inputs; none for a base relation
    Order,         \* registration_order: the relations, inputs first
    Policy,        \* query -> its engine's policies: relation -> max age
    Options,       \* what queries ask: [root, age, refresh]
    Generations,   \* bound: the supply of unique generation names
    Timeout,       \* QueryOptions.timeout_seconds
    MaxClock       \* bound: the last second

ASSUME ConstantsAssumption ==
    /\ Deps \in [Relations -> SUBSET Relations]
    /\ Order \in Seq(Relations)
    /\ {Order[n] : n \in DOMAIN Order} = Relations
    /\ \A n \in DOMAIN Order : Deps[Order[n]] \subseteq {Order[k] : k \in 1..(n - 1)}
    /\ \A m, n \in DOMAIN Order : Order[m] = Order[n] => m = n
    /\ \A q \in Queries : /\ DOMAIN Policy[q] \subseteq Relations
                          /\ Policy[q] \in [DOMAIN Policy[q] -> Nat \ {0}]
    /\ Options \subseteq [root : Relations, age : Nat \ {0}, refresh : SUBSET Relations]
    /\ Timeout \in Nat \ {0} /\ MaxClock \in Nat

VARIABLES
    now,           \* the clock, in seconds
    info,          \* generation -> its manifest, for those ever published
    current,       \* the generations some CURRENT file names
    pc,            \* query -> "idle", "frame" or "fill"
    want,          \* query -> its options
    began,         \* query -> when it began; its deadline follows
    at,            \* query -> the place in Order it has come to
    gens,          \* query -> relation -> the generation it was given
    acquired,      \* query -> relation -> the age of its oldest input
    invalidated,   \* query -> whether the refresh it was asked for is done
    since          \* query -> when its fill began

query == <<want, began>>
vars == <<now, info, current, pc, query, at, gens, acquired, invalidated, since>>

IsBase(r) == Deps[r] = {}

(* What a loop that adds successors comes to: the least set that holds r   *)
(* and is closed under them.                                               *)
Reached(r, next) ==
    {x \in Relations : \A S \in SUBSET Relations :
        r \in S /\ (\A y \in S : next[y] \subseteq S) => x \in S}

(* A relation and everything it is made from.                              *)
Below[r \in Relations] == Reached(r, Deps)

Inputs(r) == UNION {Below[d] : d \in Deps[r]}

Needed(q) == Below[want[q].root]
Resolved(q) == Needed(q) \cap DOMAIN Policy[q]

-----------------------------------------------------------------------------
(* Mutant: the limit of a view reaches its direct inputs only.             *)
AllowedMutant(q, r) ==
    Min({want[q].age} \cup
        {Policy[q][x] : x \in {x \in Resolved(q) : r \in {x} \cup Deps[x]}})

(* The age r may have: the limit of every needed view on the way to it     *)
(* applies (allowed_ages), whether the views between have one or not.      *)
Allowed(q, r) ==
    Min({want[q].age} \cup
        {Policy[q][x] : x \in {x \in Resolved(q) : r \in Below[x]}})

(* Mutant: identities leave the generations of the inputs out.             *)
IdentityMutant(given, r) == [relation |-> r, inputs |-> << >>]

(* A relation and those it reads through relations that were not given a   *)
(* generation.                                                             *)
Plain(given, r) == Reached(r, [x \in Relations |-> Deps[x] \ DOMAIN given])

(* The identity of r (descriptor.cache_key) in a frame whose relations     *)
(* were given these generations: an input counts with its generation, or,  *)
(* if it has none, with its own identity, which the generations of its     *)
(* inputs make.                                                            *)
Identity(given, r) ==
    LET read == UNION {Deps[x] : x \in Plain(given, r)}
    IN [relation |-> r, inputs |-> [d \in read \cap DOMAIN given |-> given[d]]]

Key(q, r) == Identity(gens[q], r)

Visible(k) == {g \in current : info[g].key = k}

(* MaterializationManager::fresh.                                          *)
Fresh(q, r) ==
    {g \in Visible(Key(q, r)) : now - info[g].published <= Allowed(q, r)}

(* The rename of CURRENT.                                                  *)
Supersede(k, g) == (current \ Visible(k)) \cup {g}

(* The age of the oldest input of r.                                       *)
Oldest(q, r) == IF IsBase(r) THEN now ELSE Min({acquired[q][d] : d \in Deps[r]})

-----------------------------------------------------------------------------
(* Between executions.                                                     *)
Unasked == CHOOSE o \in Options : TRUE

Init ==
    /\ now = 0
    /\ info = << >>
    /\ current = {}
    /\ pc = [q \in Queries |-> "idle"]
    /\ want = [q \in Queries |-> Unasked]
    /\ began = [q \in Queries |-> 0]
    /\ at = [q \in Queries |-> 1]
    /\ gens = [q \in Queries |-> << >>]
    /\ acquired = [q \in Queries |-> [r \in Relations |-> 0]]
    /\ invalidated = [q \in Queries |-> FALSE]
    /\ since = [q \in Queries |-> 0]

InTime(q) == now <= began[q] + Timeout
Begin(q, o) ==
    /\ pc[q] = "idle"
    /\ pc' = [pc EXCEPT ![q] = "frame"]
    /\ want' = [want EXCEPT ![q] = o]
    /\ began' = [began EXCEPT ![q] = now]
    /\ UNCHANGED <<now, info, current, at, gens, acquired, invalidated, since>>

(* Query q has come to relation r.                                         *)
AtRelation(q, r) ==
    /\ pc[q] = "frame"
    /\ at[q] \in DOMAIN Order
    /\ r = Order[at[q]]

Advance(q) == at' = [at EXCEPT ![q] = @ + 1]

(* A relation that is not cached is registered as it is.                   *)
Register(q, r) ==
    /\ AtRelation(q, r)
    /\ r \notin Resolved(q)
    /\ acquired' = [acquired EXCEPT ![q][r] = Oldest(q, r)]
    /\ Advance(q)
    /\ UNCHANGED <<now, info, current, pc, query, gens, invalidated, since>>

Filling(k) == \E p \in Queries : pc[p] = "fill" /\ Key(p, Order[at[p]]) = k

(* Mutant: does not wait for a fill that is running.                       *)
InvalidateMutant(q, r) ==
    /\ AtRelation(q, r)
    /\ r \in Resolved(q) \cap want[q].refresh
    /\ ~invalidated[q]
    /\ InTime(q)
    /\ invalidated' = [invalidated EXCEPT ![q] = TRUE]
    /\ current' = current \ Visible(Key(q, r))
    /\ UNCHANGED <<now, info, pc, query, at, gens, acquired, since>>

(* A refresh the query was asked for.                                      *)
Invalidate(q, r) ==
    /\ AtRelation(q, r)
    /\ r \in Resolved(q) \cap want[q].refresh
    /\ ~invalidated[q]
    /\ InTime(q)
    /\ ~Filling(Key(q, r))
    /\ invalidated' = [invalidated EXCEPT ![q] = TRUE]
    /\ current' = current \ Visible(Key(q, r))
    /\ UNCHANGED <<now, info, pc, query, at, gens, acquired, since>>

Resolving(q, r) ==
    /\ AtRelation(q, r)
    /\ r \in Resolved(q)
    /\ r \in want[q].refresh => invalidated[q]
    /\ InTime(q)

(* r is bound to generation g for the rest of the frame.                   *)
Bind(q, r, g) ==
    /\ gens' = [gens EXCEPT ![q] = [x \in DOMAIN @ \cup {r} |->
                                       IF x = r THEN g ELSE @[x]]]
    /\ invalidated' = [invalidated EXCEPT ![q] = FALSE]
    /\ Advance(q)

Hit(q, r, g) ==
    /\ Resolving(q, r)
    /\ g \in Fresh(q, r)
    /\ Bind(q, r, g)
    /\ acquired' = [acquired EXCEPT ![q][r] = info[g].acquired]
    /\ UNCHANGED <<now, info, current, pc, query, since>>

(* A miss under the locks of the cache: one fill at a time.                *)
StartFill(q, r) ==
    /\ Resolving(q, r)
    /\ Fresh(q, r) = {}
    /\ \A p \in Queries : pc[p] # "fill"
    /\ pc' = [pc EXCEPT ![q] = "fill"]
    /\ since' = [since EXCEPT ![q] = now]
    /\ acquired' = [acquired EXCEPT ![q][r] = Oldest(q, r)]
    /\ UNCHANGED <<now, info, current, query, at, gens, invalidated>>

(* The fill of r is published as g.  It has read the generations of this   *)
(* frame, and live relations at some time t since it began.                *)
Publish(q, r, g, t) ==
    LET from == [x \in Inputs(r) \cap DOMAIN gens[q] |-> gens[q][x]]
        manifest == [key |-> Key(q, r),
                     published |-> now,
                     acquired |-> acquired[q][r],
                     read |-> Min({t} \cup {info[from[x]].read : x \in DOMAIN from}),
                     from |-> from]
    IN /\ pc[q] = "fill"
       /\ r = Order[at[q]]
       /\ InTime(q)
       /\ g \notin DOMAIN info
       /\ t \in since[q]..now
       /\ info' = [x \in DOMAIN info \cup {g} |->
                      IF x = g THEN manifest ELSE info[x]]
       /\ current' = Supersede(Key(q, r), g)
       /\ Bind(q, r, g)
       /\ pc' = [pc EXCEPT ![q] = "frame"]
       /\ UNCHANGED <<now, query, acquired, since>>

(* The query ends, fails, times out or is dropped; so does its fill.       *)
Leave(q) ==
    /\ pc[q] # "idle"
    /\ pc' = [pc EXCEPT ![q] = "idle"]
    /\ at' = [at EXCEPT ![q] = 1]
    /\ gens' = [gens EXCEPT ![q] = << >>]
    /\ acquired' = [acquired EXCEPT ![q] = [r \in Relations |-> 0]]
    /\ invalidated' = [invalidated EXCEPT ![q] = FALSE]
    /\ since' = [since EXCEPT ![q] = 0]
    /\ want' = [want EXCEPT ![q] = Unasked]
    /\ began' = [began EXCEPT ![q] = 0]
    /\ UNCHANGED <<now, info, current>>

(* The cache needs room.                                                   *)
Evict(g) ==
    /\ g \in current
    /\ current' = current \ {g}
    /\ UNCHANGED <<now, info, pc, query, at, gens, acquired, invalidated, since>>

Tick ==
    /\ now < MaxClock
    /\ now' = now + 1
    /\ UNCHANGED <<info, current, pc, query, at, gens, acquired, invalidated, since>>

Next ==
    \/ \E q \in Queries :
          \/ \E o \in Options : Begin(q, o)
          \/ \E r \in Relations :
                \/ Register(q, r)
                \/ Invalidate(q, r)
                \/ \E g \in current : Hit(q, r, g)
                \/ StartFill(q, r)
                \/ \E g \in Generations, t \in 0..MaxClock : Publish(q, r, g, t)
          \/ Leave(q)
    \/ \E g \in current : Evict(g)
    \/ Tick

Spec == Init /\ [][Next]_vars

-----------------------------------------------------------------------------
(* Properties.                                                             *)

(* Every variable holds a value of its kind; what CURRENT files name is a  *)
(* function of their keys, and generations in use have manifests.          *)
TypeOK ==
    /\ now \in 0..MaxClock
    /\ DOMAIN info \subseteq Generations
    /\ \A g \in DOMAIN info :
          /\ info[g].key.relation \in Relations
          /\ {info[g].published, info[g].acquired, info[g].read} \subseteq 0..now
          /\ info[g].from \in [DOMAIN info[g].from -> DOMAIN info]
    /\ current \subseteq DOMAIN info
    /\ \A g, h \in current : info[g].key = info[h].key => g = h
    /\ pc \in [Queries -> {"idle", "frame", "fill"}]
    /\ want \in [Queries -> Options]
    /\ began \in [Queries -> 0..now]
    /\ at \in [Queries -> 1..(Len(Order) + 1)]
    /\ \A q \in Queries : /\ DOMAIN gens[q] \subseteq Relations
                          /\ gens[q] \in [DOMAIN gens[q] -> DOMAIN info]
    /\ acquired \in [Queries -> [Relations -> 0..now]]
    /\ invalidated \in [Queries -> BOOLEAN]
    /\ since \in [Queries -> 0..now]

(* A query that sees a relation both directly and through a materialized   *)
(* view sees one generation of it: the view was filled from the very       *)
(* generation that the frame scans.                                        *)
OneGenerationPerFrame ==
    \A q \in Queries : \A r \in DOMAIN gens[q] :
        LET from == info[gens[q][r]].from
        IN \A x \in DOMAIN from : x \in DOMAIN gens[q] /\ gens[q][x] = from[x]

(* No row a frame scans through a materialized relation was read from its  *)
(* source longer before the query than the relation's limit and the time   *)
(* one fill may take, however many cached and uncached views lie between.  *)
DataWithinLimits ==
    \A q \in Queries : \A r \in DOMAIN gens[q] :
        began[q] - info[gens[q][r]].read
            <= Min({want[q].age, Policy[q][r]}) + Timeout

(* What the query asked to refresh was published since it began, and a     *)
(* base relation was read since.                                           *)
RefreshIsNew ==
    \A q \in Queries : \A r \in DOMAIN gens[q] \cap want[q].refresh :
        /\ info[gens[q][r]].published >= began[q]
        /\ IsBase(r) => info[gens[q][r]].read >= began[q]

(* "TTL age follows acquisition time, including the oldest materialized    *)
(* input for a view" (docs/generated/spikes/clickhouse-implementation.md,  *)
(* line 25).                                                               *)
AgeFollowsAcquisition ==
    [][\A q \in Queries, r \in Relations, g \in current :
          Hit(q, r, g) => now - info[g].acquired <= Allowed(q, r)]_vars
=============================================================================
