---------------------------- MODULE MCMigration ----------------------------
(* Values of the constants of Migration for TLC. *)
EXTENDS Migration

CONSTANTS desk, sofa, home, reserved, wide, narrow, flat, inner

DeskWide   == [name |-> desk, setup |-> home, layout |-> wide]
DeskNarrow == [name |-> desk, setup |-> home, layout |-> narrow]
SofaWide   == [name |-> sofa, setup |-> home, layout |-> wide]

MCContent == [f \in Paths |-> IF f = flat THEN DeskWide ELSE SofaWide]

MCOldStores ==
    {[profiles |-> {DeskNarrow}, defaults |-> [s \in {home} |-> sofa], layouts |-> {}]}

MCOldDefaults == {<<>>, [s \in {home, reserved} |-> desk]}

MCTasks ==
    {NoTask,
     [kind |-> "save", profile |-> DeskNarrow],
     [kind |-> "remove", name |-> desk, setup |-> home],
     [kind |-> "default", name |-> sofa, setup |-> home],
     [kind |-> "layout", setup |-> home]}
=============================================================================
