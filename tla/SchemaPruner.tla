---------------------------- MODULE SchemaPruner ----------------------------
(***************************************************************************)
(* The schema a caller sees (core/schema_pruner.py): the full one without    *)
(* the fields whose permissions the caller lacks, and without whatever that  *)
(* leaves empty.  A field that is not stamped asks for the permissions to    *)
(* read the models it may return (core/perm_labels.py).                     *)
(*                                                                          *)
(* A schema is a record: types, by name; roots, the names of its root types; *)
(* grants, the permissions it was pruned to, None for the full one;          *)
(* registered, the models that were ever declared for an interface.  A type  *)
(* has a kind, a model or None, fields, members and interfaces; a field a    *)
(* type, the input types of its arguments, and a stamp, None or permissions, *)
(* or, for a subscription, permissions by action and the values its enum     *)
(* offers.  A permission is a verb on a model.                              *)
(***************************************************************************)
EXTENDS FiniteSets

CONSTANT None

Required(model, verbs) == {<<v, model>> : v \in verbs}

(* required_perms_for *)
ActionVerbs == [retrieve |-> {"view"}, list |-> {"view"}, create |-> {"add", "view"},
                update |-> {"change", "view"}, delete |-> {"delete", "view"}]
SubscribeVerbs == [create |-> {"view", "add"}, update |-> {"view", "change"},
                   delete |-> {"view", "delete"},
                   all_actions |-> {"view", "add", "change", "delete"}]

NamesOf(schema) == DOMAIN schema.types
FieldsOf(schema, t) == schema.types[t].fields

(* What a field of the type can return, and the models of that.             *)
Possible(schema, t) ==
    CASE schema.types[t].kind = "union" -> schema.types[t].members
      [] schema.types[t].kind = "interface" ->
            {o \in NamesOf(schema) : t \in schema.types[o].interfaces}
      [] OTHER -> {t}
Models(schema, t) == {schema.types[o].model : o \in Possible(schema, t)} \ {None}

(* implicit_perms_for_type: all of them; where the schema mounts no         *)
(* implementor of an interface, those of the registry.                      *)
Implicit(schema, t) ==
    LET mounted == Models(schema, t)
        models == IF schema.types[t].kind = "interface" /\ mounted = {}
                  THEN schema.registered[t] ELSE mounted
    IN  UNION {Required(m, ActionVerbs.retrieve) : m \in models}

-----------------------------------------------------------------------------
(* What is permitted.                                                       *)

SurvivingActions(f, granted) ==
    LET singles == {a \in DOMAIN f.actions \ {"all_actions"} : f.actions[a] \subseteq granted}
    IN  singles \cup {a \in DOMAIN f.actions \cap {"all_actions"} :
                         /\ singles # {} /\ singles = DOMAIN f.actions \ {a}
                         /\ f.actions[a] \subseteq granted}

StampHeld(f, granted) == f.stamp = None \/ f.stamp \subseteq granted

(* _field_permitted and _input_field_permitted: an explicit stamp wins.     *)
Permitted(schema, t, f, granted) ==
    IF schema.types[t].kind = "input" THEN StampHeld(f, granted)
    ELSE IF DOMAIN f.actions # {} THEN SurvivingActions(f, granted) # {}
    ELSE IF f.stamp # None THEN StampHeld(f, granted)
    ELSE Implicit(schema, f.type) \subseteq granted

(* Type -> the names of its permitted fields. *)
Filtered(schema, granted) ==
    [t \in NamesOf(schema) |->
        {x \in DOMAIN FieldsOf(schema, t) : Permitted(schema, t, FieldsOf(schema, t)[x], granted)}]

-----------------------------------------------------------------------------
(* What is left when empty types and the fields that need them are gone.    *)

FieldSurvivesOutputOnly(f, candidates) == \* mutant: an argument may have an input without fields
    f.type \in candidates
FieldSurvives(f, candidates) == f.type \in candidates /\ f.args \subseteq candidates

Empty(schema, filtered, t, candidates) ==
    CASE schema.types[t].kind \in {"object", "interface", "input"} ->
            \A x \in filtered[t] : ~FieldSurvives(FieldsOf(schema, t)[x], candidates)
      [] schema.types[t].kind = "union" -> schema.types[t].members \cap candidates = {}
      [] OTHER -> FALSE

NotEmpty(schema, filtered, candidates) ==
    {t \in candidates : ~Empty(schema, filtered, t, candidates)}

(* _compute_survivors: until nothing more is empty. *)
Survivors(schema, filtered) ==
    LET survivors[candidates \in SUBSET NamesOf(schema)] ==
            LET left == NotEmpty(schema, filtered, candidates)
            IN  IF left = candidates THEN candidates ELSE survivors[left]
    IN  survivors[NamesOf(schema)]

-----------------------------------------------------------------------------
(* The clone.                                                               *)

Offering(f, granted) ==
    [f EXCEPT !.values = IF DOMAIN f.actions = {} THEN @ ELSE @ \cap SurvivingActions(f, granted)]

(* An input keeps every permitted field: those are never of an emptied type. *)
CloneOf(schema, t, filtered, alive, granted) ==
    LET type == schema.types[t]
        kept == {x \in filtered[t] : type.kind = "input" \/ FieldSurvives(type.fields[x], alive)}
    IN  [type EXCEPT !.fields = [x \in kept |-> Offering(type.fields[x], granted)],
                     !.members = @ \cap alive, !.interfaces = @ \cap alive]

References(type) ==
    type.members \cup type.interfaces
        \cup UNION {{type.fields[x].type} \cup type.fields[x].args : x \in DOMAIN type.fields}

(* The type map of a GraphQLSchema: what its roots and its types reach.     *)
Named(types, names) == names \cup UNION {References(types[t]) : t \in names \cap DOMAIN types}
Reached(types, names) ==
    LET reached[found \in SUBSET (names \cup Named(types, DOMAIN types))] ==
            LET more == Named(types, found)
            IN  IF more = found THEN found ELSE reached[more]
    IN  reached[names]

(* Implementors are forwarded: an interface's fields need not name them.    *)
Forwarded(schema, alive) ==
    {t \in alive : schema.types[t].kind = "object" /\ schema.types[t].interfaces \cap alive # {}}

(* What was pruned before is never widened. *)
Granted(full, grants) == IF full.grants = None THEN grants ELSE grants \cap full.grants

Prune(full, grants) ==
    LET granted == Granted(full, grants)
        filtered == Filtered(full, granted)
        alive == Survivors(full, filtered)
        clones == [t \in alive |-> CloneOf(full, t, filtered, alive, granted)]
        names == Reached(clones, (full.roots \cap alive) \cup Forwarded(full, alive))
    IN  [full EXCEPT !.types = [t \in names \cap alive |-> clones[t]], !.roots = @ \cap alive,
                     !.grants = granted]

-----------------------------------------------------------------------------
(* The signature of a caller keeps the permissions the schema asks for.     *)

StampsOf(f) ==
    (IF f.stamp = None THEN {} ELSE f.stamp) \cup UNION {f.actions[a] : a \in DOMAIN f.actions}
Stamps(schema, names) ==
    UNION {UNION {StampsOf(FieldsOf(schema, t)[x]) : x \in DOMAIN FieldsOf(schema, t)} : t \in names}

InputLabels(schema) == Stamps(schema, {t \in NamesOf(schema) : schema.types[t].kind = "input"})

LabelSet(schema) ==
    Stamps(schema, schema.roots) \cup InputLabels(schema)
        \cup UNION {Implicit(schema, t) : t \in NamesOf(schema)}
SignatureGrants(schema, grants) == grants \cap LabelSet(schema)

-----------------------------------------------------------------------------
(* What is pruned is a schema: nothing it names is missing or empty, and an *)
(* object still has every field of the interfaces it keeps.                 *)
IsSchema(schema) ==
    \A t \in NamesOf(schema) :
        LET type == schema.types[t]
        IN  /\ References(type) \subseteq NamesOf(schema)
            /\ type.kind = "union" => type.members # {}
            /\ type.kind \in {"object", "interface", "input"} => DOMAIN type.fields # {}
            /\ \A i \in type.interfaces : DOMAIN FieldsOf(schema, i) \subseteq DOMAIN type.fields

(* A field that nobody stamped returns only rows whose models the caller    *)
(* may read, whatever the full schema lets it return; all_actions is        *)
(* offered only beside every single action; and nothing is offered whose    *)
(* stamp is not held.                                                       *)
ShowsOnly(full, schema, grants) ==
    \A t \in NamesOf(schema) : \A x \in DOMAIN FieldsOf(schema, t) :
        LET f == FieldsOf(schema, t)[x]
        IN  /\ f.stamp # None => f.stamp \subseteq grants
            /\ f.stamp = None /\ DOMAIN f.actions = {} /\ full.types[t].kind # "input" =>
                   \A m \in Models(full, f.type) : <<"view", m>> \in grants
            /\ \A a \in f.values : f.actions[a] \subseteq grants
            /\ DOMAIN f.actions # {} => f.values # {}
            /\ "all_actions" \in f.values => f.values = DOMAIN f.actions

(* Nobody loses more than that: what is left supports itself, and no types  *)
(* that were dropped would, were they brought back together; and a field    *)
(* goes only for its permissions or for a type that it needs; an interface  *)
(* keeps its implementors, whether or not a field returns them.             *)
KeepsAll(full, schema, grants) ==
    LET filtered == Filtered(full, grants)
        alive == Survivors(full, filtered)
        Supported(names) == NotEmpty(full, filtered, names) = names
    IN  /\ Supported(alive)
        /\ \A back \in SUBSET (NamesOf(full) \ alive) : Supported(alive \cup back) => back = {}
        /\ schema.roots = full.roots \cap alive
        /\ \A t \in NamesOf(schema) : \A x \in filtered[t] :
              FieldsOf(full, t)[x].type \in alive /\ FieldsOf(full, t)[x].args \subseteq alive =>
                  x \in DOMAIN FieldsOf(schema, t)
        /\ \A t \in alive : full.types[t].interfaces \cap NamesOf(schema) # {} => t \in NamesOf(schema)

(* What a caller is shown, what the signature of its grants shows, and what *)
(* pruning again to later grants shows, which never widens.                 *)
PrunesSoundly(full, grants, later) ==
    LET schema == Prune(full, grants)
        again == Prune(schema, later)
    IN  /\ IsSchema(schema) /\ ShowsOnly(full, schema, grants) /\ KeepsAll(full, schema, grants)
        /\ Prune(full, SignatureGrants(full, grants)).types = schema.types
        /\ IsSchema(again) /\ ShowsOnly(full, again, grants \cap later)
-----------------------------------------------------------------------------
(* What the schema compiler hands over, and pruning keeps.                  *)

Unstamped(f) == f.stamp = None /\ DOMAIN f.actions = {}

(* Only objects implement interfaces, and a root implements none; what is   *)
(* stamped by action offers every action, or those that it was pruned to.   *)
WellFormed(full) ==
    \A t \in NamesOf(full) :
        LET type == full.types[t]
        IN  /\ DOMAIN type = {"kind", "model", "fields", "members", "interfaces"}
            /\ type.interfaces # {} => type.kind = "object" /\ t \notin full.roots
            /\ \A i \in type.interfaces : full.types[i].kind = "interface"
            /\ t \in full.roots => type.kind = "object"
            /\ \A x \in DOMAIN type.fields :
                  LET f == type.fields[x]
                  IN  /\ DOMAIN f = {"type", "args", "stamp", "actions", "values"}
                      /\ f.values = IF full.grants = None THEN DOMAIN f.actions
                                    ELSE SurvivingActions(f, full.grants)
                      /\ DOMAIN f.actions # {} => f.stamp = None /\ type.kind # "input"

(* Only the fields of roots and of inputs are stamped (_field_permitted).   *)
StampedAtRoots(full) ==
    \A t \in NamesOf(full) \ full.roots :
        full.types[t].kind # "input" =>
            \A x \in DOMAIN FieldsOf(full, t) : Unstamped(FieldsOf(full, t)[x])

(* The fields of an input that another one nests are not (_clone_input).    *)
FlatInputs(full) ==
    \A t \in NamesOf(full) : full.types[t].kind = "input" =>
        \A x \in DOMAIN FieldsOf(full, t) :
            LET f == FieldsOf(full, t)[x]
            IN  /\ f.args = {} /\ full.types[f.type].kind \in {"input", "leaf"}
                /\ full.types[f.type].kind = "input" =>
                      \A y \in DOMAIN FieldsOf(full, f.type) : Unstamped(FieldsOf(full, f.type)[y])

(* For a field of its interface an object returns the same, or itself.      *)
Inherits(full) ==
    \A t \in NamesOf(full) : \A i \in full.types[t].interfaces :
        \A x \in DOMAIN FieldsOf(full, i) :
            LET f == FieldsOf(full, i)[x]
                g == FieldsOf(full, t)[x]
            IN  /\ g.args = f.args
                /\ g.type = f.type \/ (g.type = t /\ t \in Possible(full, f.type))

Prunable(full) ==
    /\ DOMAIN full = {"types", "roots", "grants", "registered"}
    /\ IsFiniteSet(NamesOf(full)) /\ full.roots \subseteq NamesOf(full) /\ IsSchema(full)
    /\ WellFormed(full) /\ StampedAtRoots(full) /\ FlatInputs(full) /\ Inherits(full)

Compiled(full) == Prunable(full) /\ full.grants = None
=============================================================================
