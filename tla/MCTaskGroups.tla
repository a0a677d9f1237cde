---------------------------- MODULE MCTaskGroups ----------------------------
(* Small instances of TaskGroups. *)
EXTENDS TaskGroups

CONSTANTS refresh, grow, download, conv, flush

\* sync_refresh spawns sync_grow or sync_conv, sync_grow spawns sync_conv.
MCSpawns ==
    [k \in Kinds |-> CASE k = refresh -> Kinds \cap {grow, conv}
                       [] k = grow    -> Kinds \cap {conv}
                       [] OTHER       -> {}]

=============================================================================
