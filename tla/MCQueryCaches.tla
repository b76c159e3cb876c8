--------------------------- MODULE MCQueryCaches ---------------------------
(* Documents of one and two tokens for the caches, many small documents for *)
(* the limits that a verdict depends on, and small schemas to prune.        *)
EXTENDS QueryCaches

CONSTANTS q1, q2, Meta, Variable

MCTokensOf == (q1 :> 1) @@ (q2 :> 2)
MCSymmetry == Permutations(Thread) \cup Permutations(Signature)
              \cup Permutations(Address)

(* A query type Q with a list and an object, which have themselves again    *)
(* and differ in what their fields cost.                                    *)
Of(type, list) == [type |-> type, list |-> list]
MCFieldsOf ==
    ("Q" :> ("t" :> Of("T", TRUE) @@ "x" :> Of("U", FALSE))) @@
    ("T" :> ("t" :> Of("T", FALSE) @@ "x" :> Of("S", FALSE))) @@
    ("U" :> ("t" :> Of("T", TRUE))) @@ ("S" :> <<>>)
MCComplexity == ("Q" :> None) @@ ("T" :> 2) @@ ("U" :> None) @@ ("S" :> None)
MCTypeDepth == ("Q" :> None) @@ ("T" :> None) @@ ("U" :> 2) @@ ("S" :> None)

Limits == INSTANCE QueryLimits WITH
    FieldsOf <- MCFieldsOf, Root <- "Q", Complexity <- MCComplexity, TypeDepth <- MCTypeDepth

Field(name, body) ==
    [is |-> "field", name |-> name, body |-> body, skip |-> FALSE, size |-> None, directives |-> 0]
Inline(on, body) == [is |-> "inline", on |-> on, body |-> body, skip |-> FALSE]
Spread(name) == [is |-> "spread", name |-> name, skip |-> FALSE]

Atoms == {Spread("F"), Spread("G"), Field("x", None)}
Selections ==
    Atoms \cup {Field("t", <<a>>) : a \in Atoms} \cup
    {Field("x", <<Spread("F")>>), [Field("t", <<Field("t", None)>>) EXCEPT !.size = Variable]}
Odd == {Inline("T", <<Spread("G")>>), [Spread("G") EXCEPT !.skip = Variable],
        [Field("t", <<Spread("F")>>) EXCEPT !.skip = TRUE], Field(Meta, <<Spread("F")>>),
        [Field("t", <<Spread("G")>>) EXCEPT !.size = 3, !.directives = 1]}
Pairs == Selections \X {Field("t", <<Spread("F")>>), Field("x", <<Spread("F")>>)}
MCDocuments ==
    {[body |-> b, fragments |-> ("F" :> [on |-> "Unknown", body |-> f]) @@ ("G" :> [on |-> "T", body |-> <<g>>])] :
        b \in Pairs, f \in {<<s>> : s \in Odd} \cup {<<s, Spread("G")>> : s \in Selections},
        g \in {Spread("F"), Field("t", <<Field("x", None)>>), Field("t", <<Spread("F")>>)}}
Environment(maxPage, size, default) ==
    [maxPage |-> maxPage, defaultPage |-> None, multiplier |-> 3, directive |-> 1, size |-> size,
     default |-> default, skip |-> size = -1]
MCEnvironments ==
    {Environment(None, None, None), Environment(2, 2, 1), Environment(2, None, 1),
     Environment(2, -1, None)}

Schemas == INSTANCE MCSchemas

ASSUME SchemasAssumption ==
    \A full \in Schemas!MCSchemas : Schemas!Pruner!Compiled(full)

(* The functions are checked once, where the walk of the caches begins. *)
Begins == arrived = 0 /\ served = 1 /\ limits = 0 /\ addressOf[1] = CHOOSE a \in Address : TRUE

(* The limits that the verdicts are about: walking each fragment once per   *)
(* situation costs a document, and finds how deep it is, as if every spread *)
(* were replaced by its fragment; cycles are found; and what was enforced   *)
(* without variables covers any.                                            *)
LimitsAreExact ==
    Begins => \A doc \in MCDocuments :
        /\ Limits!CyclesAreFound(doc)
        /\ \A env \in MCEnvironments :
              Limits!CostIsExact(doc, env) /\ Limits!EnforcedCovers(doc, env)
        /\ \A limit \in {1, 2, 3} : Limits!DepthIsExact(doc, Environment(None, None, None), <<limit, 4>>)

(* The schema that a build stores is one: nothing in it dangles or is       *)
(* empty; no field returns rows that the caller may not read; nothing else  *)
(* is lost; and the signature a caller is reduced to shows it the same.     *)
PruningIsSound ==
    Begins => \A full \in Schemas!MCSchemas, grants \in Schemas!MCGrants, later \in Schemas!MCLater :
        Schemas!Pruner!PrunesSoundly(full, grants, later)
=============================================================================
