---------------------------- MODULE NestedRules ----------------------------
(***************************************************************************)
(* What a nested payload may do to an existing row (nested.py).  A row the   *)
(* parent does not own or link may be linked, or adopted when it has no      *)
(* owner, but never rewritten; and an id the caller cannot see is answered   *)
(* like an id that does not exist, with one exception.                       *)
(***************************************************************************)
EXTENDS Naturals, FiniteSets

CONSTANTS
    Child,       \* primary keys of the child model
    Parent,      \* rows of the parent model that one request writes
    None,        \* a payload without an id; no row
    Absent,      \* owner of a row that does not exist
    Orphan,      \* owner of a row whose key is null
    Other        \* an owner that the request does not write

ASSUME NestedRulesAssumption ==
    /\ None \notin Child
    /\ {Absent, Orphan, Other} \cap Parent = {}

(* What the rules read: who owns a child, which children a parent is linked *)
(* with over the many-to-many relation, and the child its foreign key       *)
(* names; whether a host serves the child's update and which rows the scope *)
(* of such a host hides; whether the child's output type overrides          *)
(* get_queryset and what that hides.                                        *)
Tables == [owner : [Child -> Parent \cup {Absent, Orphan, Other}],
           links : SUBSET (Parent \X Child),
           key : [Parent -> Child \cup {None}],
           hosts : BOOLEAN, hostHides : SUBSET Child,
           scopedType : BOOLEAN, outputHides : SUBSET Child]

(* What a payload writes: itself, a reverse or many-to-many child, the      *)
(* target of the foreign key, a plain id for that key, or the row's removal. *)
Kind == {"parent", "forward", "plain", "reverse", "m2m", "add", "delete"}
Item == [kind : Kind, pk : Child \cup {None}, fields : BOOLEAN, set : BOOLEAN]

Exists(t, c) == t.owner[c] # Absent
Linked(t, p, c) == <<p, c>> \in t.links

(* _reject_hidden_row: every host that serves the update has to see the row *)
(* and, unless the caller checks only a link, the output type as well.      *)
Hidden(t, c, outputScope) == c \in t.hostHides \/ (outputScope /\ c \in t.outputHides)

(* _validate_destination_links, before the first write: an id that the      *)
(* parent is not linked with has to be visible through the output type.     *)
NamesUnlinked(t, p, item) ==
    /\ item.pk # None /\ item.kind \in {"forward", "plain", "m2m"}
    /\ ~(item.kind = "forward" /\ item.pk = t.key[p])
    /\ ~(item.kind = "m2m" /\ Linked(t, p, item.pk))
LinkIsVisible(t, p, item) ==
    t.scopedType /\ NamesUnlinked(t, p, item) =>
        Exists(t, item.pk) /\ item.pk \notin t.outputHides

(* The forward branch of save_with_nested.                                  *)
DecideForward(t, p, item) ==
    IF item.pk = None THEN "create"
    ELSE IF item.kind = "plain" THEN "link"
    ELSE IF item.pk # t.key[p]
    THEN IF t.hosts /\ (~Exists(t, item.pk) \/ Hidden(t, item.pk, FALSE)) THEN "invalid pk" ELSE "link"
    ELSE IF ~item.fields THEN "link"
    ELSE IF ~Exists(t, item.pk) \/ Hidden(t, item.pk, TRUE) THEN "not found" ELSE "update"

DecideReverseOwnerFirst(t, p, item) == \* mutant: ownership is decided before the scope
    IF item.pk = None THEN "create"
    ELSE IF ~Exists(t, item.pk) THEN "not found"
    ELSE IF t.owner[item.pk] \notin {Orphan, p} THEN "not yours"
    ELSE IF Hidden(t, item.pk, TRUE) THEN "not found"
    ELSE IF t.owner[item.pk] = Orphan /\ ~t.hosts THEN "no adoption"
    ELSE "update"

(* The reverse branch of _attach_children.                                  *)
DecideReverse(t, p, item) ==
    IF item.pk = None THEN "create"
    ELSE IF ~Exists(t, item.pk) \/ Hidden(t, item.pk, TRUE) THEN "not found"
    ELSE IF t.owner[item.pk] \notin {Orphan, p} THEN "not yours"
    ELSE IF t.owner[item.pk] = Orphan /\ ~t.hosts THEN "no adoption"
    ELSE "update"

DecideM2MRewrites(t, p, item) == \* mutant: the link rule is forgotten
    IF item.pk = None THEN "create"
    ELSE IF ~Exists(t, item.pk) \/ Hidden(t, item.pk, TRUE) THEN "not found"
    ELSE "update"

(* The many-to-many branch of _attach_children.                             *)
DecideM2M(t, p, item) ==
    IF item.pk = None THEN "create"
    ELSE IF ~Exists(t, item.pk) THEN "not found"
    ELSE IF ~Linked(t, p, item.pk)
    THEN IF Hidden(t, item.pk, FALSE) THEN "not found" ELSE "link"
    ELSE IF Hidden(t, item.pk, TRUE) THEN "not found" ELSE "update"

Decide(t, p, item) ==
    IF item.kind \in {"forward", "plain"} THEN DecideForward(t, p, item)
    ELSE IF item.kind = "reverse" THEN DecideReverse(t, p, item)
    ELSE DecideM2M(t, p, item)

(* The whole answer to one item: a link to a row that does not exist fails  *)
(* the check of the key that the parent's save ends with.                   *)
Verdict(t, p, item) ==
    IF ~LinkIsVisible(t, p, item) THEN "invalid pk"
    ELSE IF Decide(t, p, item) = "link" /\ ~Exists(t, item.pk) THEN "invalid pk"
    ELSE Decide(t, p, item)

-----------------------------------------------------------------------------
Removed(t, c) == [t EXCEPT !.owner[c] = Absent]

(* An id that the parent is not linked with and that the caller's scopes    *)
(* hide: the output type's, or, but for a plain id, those of the hosts.     *)
Secret(t, p, item) ==
    /\ item.pk # None /\ t.key[p] # item.pk /\ ~Linked(t, p, item.pk)
    /\ item.pk \in t.outputHides \/ (item.kind # "plain" /\ item.pk \in t.hostHides)

(* The one such row whose answer differs from that of an id that does not   *)
(* exist, although the comments (nested.py 535, 1011) say that a hidden id  *)
(* "answers like a missing one": with an output type that has a scope, a    *)
(* missing many-to-many id is an invalid pk before the first write, one     *)
(* that only the hosts hide passes there and is not found afterwards.       *)
ToldApart(t, item) ==
    /\ t.scopedType /\ item.kind = "m2m" /\ Exists(t, item.pk)
    /\ item.pk \in t.hostHides \ t.outputHides

(* A secret id gets the answer of an id that does not exist, so that nobody *)
(* can tell whether the row is there or whom it belongs to, in every case   *)
(* but that one; and there the two answers do differ.                       *)
LooksMissing(t, p, item) ==
    Secret(t, p, item) =>
        (Verdict(t, p, item) = Verdict(Removed(t, item.pk), p, item) <=> ~ToldApart(t, item))
=============================================================================
