------------------------- MODULE MCMutationWrites --------------------------
(* Requests for MutationWrites: every kind of item, alone and next to an     *)
(* operation or a root field that fails, in a batch and outside of one.      *)
EXTENDS MutationWrites, TLC

CONSTANT c

Payload(kind, pk) == [kind |-> kind, pk |-> pk, fields |-> TRUE, set |-> FALSE]
Self == Payload("parent", None)
SelfAndLinks == [Self EXCEPT !.set = TRUE]
Unchanged == [Payload("forward", c) EXCEPT !.fields = FALSE]

Plain == [op |-> "create", items |-> <<Payload("plain", c), SelfAndLinks>>]
Owner == [op |-> "update", items |-> <<Self, Payload("reverse", c), Payload("reverse", None)>>]
Sharer == [op |-> "update",
           items |-> <<Self, Payload("m2m", c), Payload("m2m", None), Payload("add", None)>>]
Holder == [op |-> "update", items |-> <<Payload("forward", c), Self>>]
Tree == [op |-> "create", items |-> <<Payload("forward", None), Self, Payload("reverse", c)>>]
Same == [op |-> "update", items |-> <<Unchanged, Self>>]
Removal == [op |-> "delete", items |-> <<Payload("delete", None)>>]
Own == [op |-> "custom", items |-> <<>>]

Alone(roots) == [batch |-> FALSE, entries |-> <<roots>>]
Every == {Plain, Owner, Sharer, Holder, Tree, Same, Removal}
MCRequests ==
    {Alone(<<Removal, Plain>>)} \cup {Alone(<<x, y>>) : x \in Every, y \in {Own, Removal}} \cup
    {[batch |-> TRUE, entries |-> <<<<x>>, <<y, z>>>>] :
        x \in {Plain, Owner, Removal}, y \in {Own, Tree}, z \in {Removal}}
MCParent == {<<1, 1>>, <<1, 2>>, <<2, 1>>, <<2, 2>>}
=============================================================================
