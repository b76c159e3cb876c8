---------------------------- MODULE MCPagination ----------------------------
(* The walks of a client, and every request on the tables they begin with.  *)
EXTENDS CursorPages, ListPages

MCNumbers == {None, -1, 0, 1, 2}
MCSizes == {None, 0, 2}
Asc(c) == [col |-> c, desc |-> FALSE]
Desc(c) == [col |-> c, desc |-> TRUE]
MCConfigurations == Configurations({None, 1}, {<<>>, <<Desc("v")>>})
MCRequests == Requests(MCSizes, MCNumbers, {<<Asc("v")>>, <<Desc("pk")>>, None, Blank})
Begins == first = None /\ cursor = None /\ changes = 0 /\ ~finished /\ ~descending

(* The histories that the properties of a walk speak of.                    *)
Untorn == ~torn

(* The two or three paths of a list give the same answer to every request,  *)
(* by cursor, offset or page, for every configuration.                      *)
PathsAgree ==
    Begins =>
        /\ \A c \in Boundary \cup {None}, desc \in BOOLEAN, n \in {1, 2} :
              CursorPathsAgree(desc, c, n)
        /\ \A cfg \in MCConfigurations, req \in MCRequests : ListPathsAgree(table, cfg, req)

(* On some database the rows of a window come in the order of the page.     *)
WindowsAreOrdered ==
    Begins => \A cfg \in MCConfigurations, req \in MCRequests : WindowMayBePage(table, cfg, req)
=============================================================================
