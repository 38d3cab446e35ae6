----------------------------- MODULE LibGroups ------------------------------
(* The interface groups of module IsisIntfGroup as one part among others,  *)
(* with names of its own for what other parts have too.                    *)
CONSTANTS IntfSeq, Routers, StaticNames, Links,
          NoGroup   \* a pointer to no group, interface or list
VARIABLES nbrs, node, disturbed, group_crashed

groupVars == <<nbrs, node, disturbed, group_crashed>>

Groups == INSTANCE IsisIntfGroup WITH NULL <- NoGroup, crashed <- group_crashed

ASSUME GroupsAssumption == Groups!GroupsAssumption

\* Module IsisIntfGroup: groups and members of isis_intf_group.c, and the interfaces that
\* isis_schedule_lsp_flood chooses.
GroupsSound == Groups!GroupsSound
=============================================================================
