---------------------------- MODULE QueryLimits ----------------------------
(***************************************************************************)
(* The limits that validation puts on a document: how costly (cost.py) and   *)
(* how deep (validation.py, DepthLimitValidationRule) its selections are     *)
(* once every fragment is in its place.  Both walk the document once per     *)
(* fragment and situation instead of once per path, and both refuse to       *)
(* count what a cycle of fragments (_fragment_cycles.py) would make endless. *)
(*                                                                          *)
(* A selection is a field, an inline fragment or a spread; body is its       *)
(* sequence of selections, None for a leaf.  These are functions: a rule     *)
(* keeps nothing beyond one validation.                                      *)
(***************************************************************************)
EXTENDS Integers, Sequences, SequencesExt, FiniteSets, TLC

CONSTANTS
    None,
    Meta,      \* the name of an introspection field
    Variable,  \* where the document has a variable
    FieldsOf,  \* type -> field -> its named type and whether it is a list
    Root,      \* the type of the operation
    Complexity, TypeDepth \* type -> what its Meta declares, or None

Type == DOMAIN FieldsOf

(* What a walk reads besides the document: settings, and the variables that *)
(* are bound, of which the document has one for sizes and one for @skip or  *)
(* @include; skip is whether that one leaves its selection out.             *)
Env == [maxPage : Nat \cup {None}, defaultPage : Nat \cup {None}, multiplier : Nat,
        directive : Nat, size : Int \cup {None}, default : Int \cup {None},
        skip : BOOLEAN]

(* is_selection_skipped: a condition that cannot be resolved skips nothing. *)
Skipped(s, env) == s.skip = TRUE \/ (s.skip = Variable /\ env.skip)

(* The type a fragment is resolved against; an unknown name narrows nothing. *)
Narrowed(on, type) == IF on \in Type THEN on ELSE type

-----------------------------------------------------------------------------
(* Cost.                                                                    *)

OwnCost(type, hasChildren) ==
    IF Complexity[type] # None THEN Complexity[type] ELSE IF hasChildren THEN 1 ELSE 0

DirectiveCost(s, env) == s.directives * env.directive

(* _page_size_argument *)
PageSizeArgument(s, env) ==
    IF s.size # Variable THEN s.size ELSE IF env.size # None THEN env.size ELSE env.default

ListMultiplier(f, s, env) ==
    LET size == PageSizeArgument(s, env)
    IN  IF ~f.list THEN 1
        ELSE IF size # None
        THEN LET n == Max({size, 0})
             IN  IF env.maxPage # None THEN Min({n, env.maxPage}) ELSE n
        ELSE IF env.maxPage # None THEN env.maxPage
        ELSE IF env.defaultPage # None THEN env.defaultPage ELSE env.multiplier

Counts(s, type) == s.name # Meta /\ s.name \in DOMAIN FieldsOf[type]

SpreadKeyByName(name, type) == <<name>> \* mutant: the type a spread is resolved against is left out
SpreadKey(name, type) == <<name, type>>

(* _selection_set_cost.  The accumulator has the total, the costs of        *)
(* spreads, and the number of spreads that the cycle guard cut short: a walk *)
(* it truncated is not remembered.                                          *)
RECURSIVE SelectionSetCost(_, _, _, _, _, _)
SelectionSetCost(doc, env, body, type, active, acc) ==
    LET Below(b, t, path, a) == SelectionSetCost(doc, env, b, t, path, [a EXCEPT !.total = 0])
        OfField(a, s) ==
            LET f == FieldsOf[type][s.name]
                own == OwnCost(f.type, s.body # None) + DirectiveCost(s, env)
            IN  IF s.body = None THEN [a EXCEPT !.total = @ + own]
                ELSE LET below == Below(s.body, f.type, active, a)
                     IN  [below EXCEPT !.total = a.total + own + ListMultiplier(f, s, env) * @]
        OfSpread(a, s) ==
            LET fragment == doc.fragments[s.name]
                t == Narrowed(fragment.on, type)
                key == SpreadKey(s.name, t)
            IN  IF key \in DOMAIN a.costs THEN [a EXCEPT !.total = @ + a.costs[key]]
                ELSE LET below == Below(fragment.body, t, active \cup {s.name}, a)
                     IN  [total |-> a.total + below.total, cuts |-> below.cuts,
                          costs |-> IF below.cuts = a.cuts
                                    THEN (key :> below.total) @@ below.costs
                                    ELSE below.costs]
        Of(a, s) ==
            CASE Skipped(s, env) -> a
              [] s.is = "field" -> IF Counts(s, type) THEN OfField(a, s) ELSE a
              [] s.is = "inline" ->
                    SelectionSetCost(doc, env, s.body, Narrowed(s.on, type), active, a)
              [] s.is = "spread" /\ s.name \in active -> [a EXCEPT !.cuts = @ + 1]
              [] s.is = "spread" /\ s.name \in DOMAIN doc.fragments -> OfSpread(a, s)
              [] OTHER -> a
    IN  FoldLeft(Of, acc, body)

OperationCost(doc, env) ==
    SelectionSetCost(doc, env, doc.body, Root, {}, [total |-> 0, costs |-> <<>>, cuts |-> 0]).total

-----------------------------------------------------------------------------
(* Depth.  A constraint allows limit levels below its origin.               *)

Exceeded(depth, constraints) ==
    SelectSeq(constraints, LAMBDA c : depth - c.origin > c.limit)

Tightened(type, depth, constraints) ==
    IF TypeDepth[type] = None THEN constraints
    ELSE Append(constraints, [limit |-> TypeDepth[type], origin |-> depth, label |-> type])

BudgetIgnored(depth, constraints) == None \* mutant: clean is clean, however much is left
(* The tightest of the budgets that are left. *)
Budget(depth, constraints) ==
    Min({c.limit - (depth - c.origin) : c \in ToSet(constraints)})

(* _walk ends with the first constraint that a field exceeds.  clean has    *)
(* the spreads that are proven to exceed none.                              *)
RECURSIVE Walk(_, _, _, _, _, _, _)
Walk(doc, body, type, depth, constraints, active, acc) ==
    LET OfField(a, s) ==
            IF s.body = None \/ s.name = Meta THEN a
            ELSE IF Exceeded(depth + 1, constraints) # <<>>
            THEN [a EXCEPT !.over = Head(Exceeded(depth + 1, constraints))]
            ELSE IF ~Counts(s, type) THEN a
            ELSE LET t == FieldsOf[type][s.name].type
                 IN  Walk(doc, s.body, t, depth + 1, Tightened(t, depth + 1, constraints), active, a)
        OfSpread(a, s) ==
            LET fragment == doc.fragments[s.name]
                t == Narrowed(fragment.on, type)
                key == <<s.name, t, Budget(depth, constraints)>>
                below == Walk(doc, fragment.body, t, depth, constraints, active \cup {s.name}, a)
            IN  IF key \in a.clean THEN a
                ELSE IF below.over = None /\ below.cuts = a.cuts
                THEN [below EXCEPT !.clean = @ \cup {key}] ELSE below
        Of(a, s) ==
            CASE a.over # None \/ s.skip = TRUE -> a
              [] s.is = "field" -> OfField(a, s)
              [] s.is = "inline" ->
                    Walk(doc, s.body, Narrowed(s.on, type), depth, constraints, active, a)
              [] s.is = "spread" /\ s.name \in active -> [a EXCEPT !.cuts = @ + 1]
              [] s.is = "spread" /\ s.name \in DOMAIN doc.fragments -> OfSpread(a, s)
              [] OTHER -> a
    IN  FoldLeft(Of, acc, body)

(* The configured limit, if any, and last the structural one. *)
Constraints(limits) == [i \in DOMAIN limits |-> [limit |-> limits[i], origin |-> 0, label |-> i]]
TooDeep(doc, limits) ==
    Walk(doc, doc.body, Root, 0, Constraints(limits), {},
         [over |-> None, clean |-> {}, cuts |-> 0]).over

-----------------------------------------------------------------------------
(* Cycles.                                                                  *)

RECURSIVE Spreads(_)
Spreads(body) ==
    UNION {LET s == body[i] IN
           IF s.is = "spread" THEN {s.name} ELSE IF s.body = None THEN {} ELSE Spreads(s.body)
           : i \in DOMAIN body}
Edges(doc) == [f \in DOMAIN doc.fragments |-> Spreads(doc.fragments[f].body) \cap DOMAIN doc.fragments]

(* Kahn's reduction: fragments that no remaining one refers to are removed. *)
RECURSIVE Reduced(_, _)
Reduced(edges, left) ==
    LET ready == {f \in left : \A g \in left : f \notin edges[g]}
    IN  IF ready = {} THEN left ELSE Reduced(edges, left \ ready)
HasCycle(doc) == Reduced(Edges(doc), DOMAIN doc.fragments) # {}

(* The rule and the report.  Validation binds no variables and does not     *)
(* trust the defaults of the document; the report has both.                 *)
Unbound(env) == [env EXCEPT !.size = None, !.default = None, !.skip = FALSE]
Enforced(doc, env) == IF HasCycle(doc) THEN None ELSE OperationCost(doc, Unbound(env))
Reported(doc, env) == IF HasCycle(doc) THEN None ELSE OperationCost(doc, env)

-----------------------------------------------------------------------------
(* The definition: the document with every fragment in its place, up to the *)
(* first repetition of a fragment on a path.  A field keeps the type it is  *)
(* selected on.                                                             *)
RECURSIVE Expanded(_, _, _, _, _)
Expanded(doc, env, body, type, path) ==
    LET In(b, t, p) == Expanded(doc, env, b, t, p)
        Of(s) ==
            CASE Skipped(s, env) -> <<>>
              [] s.is = "inline" -> In(s.body, Narrowed(s.on, type), path)
              [] s.is = "spread" ->
                    IF s.name \in path \/ s.name \notin DOMAIN doc.fragments THEN <<>>
                    ELSE LET fragment == doc.fragments[s.name]
                         IN  In(fragment.body, Narrowed(fragment.on, type), path \cup {s.name})
              [] OTHER ->
                    <<[field |-> s, on |-> type,
                       below |-> IF s.body # None /\ Counts(s, type)
                                 THEN In(s.body, FieldsOf[type][s.name].type, path)
                                 ELSE <<>>]>>
    IN  FlattenSeq([i \in DOMAIN body |-> Of(body[i])])

RECURSIVE CostOfTree(_, _)
CostOfTree(tree, env) ==
    FoldLeft(LAMBDA n, x : n + x, 0, [i \in DOMAIN tree |->
        LET s == tree[i].field
            f == FieldsOf[tree[i].on][s.name]
        IN  IF ~Counts(s, tree[i].on) THEN 0
            ELSE OwnCost(f.type, s.body # None) + DirectiveCost(s, env)
                 + (IF s.body = None THEN 0
                    ELSE ListMultiplier(f, s, env) * CostOfTree(tree[i].below, env))])

(* The constraints that are exceeded, in the order of the document.         *)
RECURSIVE Violations(_, _, _)
Violations(tree, depth, constraints) ==
    FlattenSeq([i \in DOMAIN tree |->
        LET s == tree[i].field
            t == FieldsOf[tree[i].on][s.name].type
        IN  IF s.body = None \/ s.name = Meta THEN <<>>
            ELSE Exceeded(depth + 1, constraints)
                 \o (IF Counts(s, tree[i].on)
                     THEN Violations(tree[i].below, depth + 1, Tightened(t, depth + 1, constraints))
                     ELSE <<>>)])

(* Reached from f over at least one reference. *)
Reach(edges, f) ==
    LET grow[n \in Nat] == IF n = 0 THEN edges[f]
                           ELSE grow[n - 1] \cup UNION {edges[g] : g \in grow[n - 1]}
    IN  grow[Cardinality(DOMAIN edges)]

(* Each spread is costed once, and counts in full wherever it stands.       *)
CostIsExact(doc, env) ==
    OperationCost(doc, env) = CostOfTree(Expanded(doc, env, doc.body, Root, {}), env)

(* What a spread was proven not to exceed in one place it does not exceed   *)
(* where it is skipped, and the constraint reported is the first exceeded.  *)
DepthIsExact(doc, env, limits) ==
    LET over == Violations(Expanded(doc, Unbound(env), doc.body, Root, {}), 0,
                           Constraints(limits))
    IN  TooDeep(doc, limits) = IF over = <<>> THEN None ELSE Head(over)

CyclesAreFound(doc) == HasCycle(doc) <=> \E f \in DOMAIN doc.fragments : f \in Reach(Edges(doc), f)

(* With MAX_PAGE_SIZE no variables make a document cost more than what was  *)
(* enforced before they were known.                                         *)
EnforcedCovers(doc, env) ==
    env.maxPage # None /\ ~HasCycle(doc) => Enforced(doc, env) >= Reported(doc, env)
=============================================================================
