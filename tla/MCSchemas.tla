----------------------------- MODULE MCSchemas -----------------------------
(* Schemas with models A and B, an interface and a union of both, a         *)
(* mutation with a nested input, and a subscription; and callers.           *)
EXTENDS TLC

CONSTANT None

Pruner == INSTANCE SchemaPruner

Returns(type) == [type |-> type, args |-> {}, stamp |-> None, actions |-> <<>>, values |-> {}]
Takes(input) == [Returns("String") EXCEPT !.args = {input}]
To(action, model) == Pruner!Required(model, Pruner!ActionVerbs[action])
Events(model) ==
    LET actions == [a \in DOMAIN Pruner!SubscribeVerbs |->
                       Pruner!Required(model, Pruner!SubscribeVerbs[a])]
    IN  [Returns(model) EXCEPT !.actions = actions, !.values = DOMAIN actions]

Type(kind, fields) ==
    [kind |-> kind, model |-> None, fields |-> fields, members |-> {}, interfaces |-> {}]
Node(model, fields) == [Type("object", fields) EXCEPT !.model = model, !.interfaces = {"I"}]

FullTypes ==
    ("Query" :> Type("object",
        "a" :> [Returns("A") EXCEPT !.stamp = To("retrieve", "A")] @@ "i" :> Returns("I") @@
        "u" :> Returns("U") @@ "open" :> [Returns("B") EXCEPT !.stamp = To("retrieve", "A")])) @@
    ("Mutation" :> Type("object",
        "create" :> [Takes("AIn") EXCEPT !.type = "Payload", !.stamp = To("create", "A")] @@
        "note" :> Takes("AIn") @@ "ping" :> Returns("String"))) @@
    ("Subscription" :> Type("object", "events" :> Events("A"))) @@
    ("Payload" :> Type("object", "node" :> Returns("A"))) @@
    ("A" :> Node("A", "name" :> Returns("String") @@ "peer" :> Returns("A") @@ "b" :> Returns("B"))) @@
    ("B" :> Node("B", "name" :> Returns("String") @@ "peer" :> Returns("B") @@ "a" :> Returns("A"))) @@
    ("I" :> Type("interface", "peer" :> Returns("I"))) @@
    ("U" :> [Type("union", <<>>) EXCEPT !.members = {"A", "B"}]) @@
    ("AIn" :> Type("input",
        "name" :> Returns("String") @@ "b" :> [Returns("BIn") EXCEPT !.stamp = To("create", "B")])) @@
    ("BIn" :> Type("input", "name" :> Returns("String"))) @@ ("String" :> Type("leaf", <<>>))

Lacking(fields) ==
    [t \in DOMAIN FullTypes |-> [FullTypes[t] EXCEPT
        !.fields = [x \in {y \in DOMAIN @ : <<t, y>> \notin fields} |-> @[x]]]]
Optional == {<<"Query", "i">>, <<"Query", "open">>, <<"Query", "u">>, <<"A", "name">>,
             <<"A", "b">>, <<"AIn", "name">>, <<"AIn", "b">>}
MCSchemas ==
    {s \in {[types |-> Lacking(fields), roots |-> {"Query", "Mutation", "Subscription"},
             grants |-> None, registered |-> "I" :> {"A", "B"}] : fields \in SUBSET Optional} :
        Pruner!IsSchema(s)}
MCGrants ==
    {g \in SUBSET ({"view", "add", "change", "delete"} \X {"A"} \cup {"view", "add"} \X {"B"}) :
        <<"delete", "A">> \in g => <<"change", "A">> \in g}
MCLater == {{<<"view", "A">>}, {<<"view", "B">>, <<"add", "A">>}}
=============================================================================
