------------------------------ MODULE MCDaemon ------------------------------
(***************************************************************************)
(* A laptop panel and one external port, for model checking Daemon.        *)
(***************************************************************************)
EXTENDS Daemon, TLC

Panel == "eDP-1"
Port  == "DP-1"

MCConnectors == {Panel, Port}
MCTexts      == {"BOE", "Dell", "U27", "S1"}
MCNames      == {"desk"}
Wide         == [width |-> 2, height |-> 1, refresh |-> 60]
Narrow       == [width |-> 1, height |-> 1, refresh |-> 60]
MCModes      == {Wide, Narrow}
MCPreferred  == [modes \in SUBSET MCModes |-> IF Wide \in modes THEN Wide ELSE NoValue]
MCXforms     == {"1x", "2x"}
MCRank       == ("DP-1" :> 0) @@ ("eDP-1" :> 1) @@ ("desk" :> 2)

PanelId   == [NewIdentity(Panel) EXCEPT !.make = "BOE"]
MonitorId == [NewIdentity(Port) EXCEPT !.make = "Dell", !.model = "U27", !.serial = "S1"]

Output(id, on, x) ==
    [id |-> id, enabled |-> on, mode |-> Wide, modes |-> MCModes,
     pos |-> [x |-> x, y |-> 0], xform |-> "1x", mirror |-> NoValue]

(* What the compositor may report when displays change. *)
Undocked    == Panel :> Output(PanelId, TRUE, 0)
Docked      == (Panel :> Output(PanelId, TRUE, 0)) @@ (Port :> Output(MonitorId, TRUE, 2))
(* Docked with the lid closed; the monitor has not told its identity yet. *)
DockedShut  == (Panel :> Output(PanelId, FALSE, 0)) @@ (Port :> Output(NewIdentity(Port), TRUE, 0))
MonitorOnly == Port :> Output(MonitorId, TRUE, 0)
PanelDark   == Panel :> Output(PanelId, FALSE, 0)

DockSetups == {Undocked, Docked, DockedShut}
DarkSetups == {MonitorOnly, Undocked, PanelDark}

(* Both displays where the compositor puts them, one in another mode. *)
DeskProfile ==
    [name |-> "desk", priority |-> 0, rules |-> <<>>, hooks |-> TRUE,
     layout |-> [Docked EXCEPT ![Port].mode = Narrow, ![Port].xform = "2x"]]

DeskStore == [EmptyStore EXCEPT !.profiles = {DeskProfile}]

(* The two displays in a row, the external one first. *)
RowStore  == SetSetupDefaultLayout(EmptyStore, SetupFingerprint(Docked), "horizontal")

(* Everything off.  Without a panel this layout is blank. *)
OffStore  == SetSetupDefaultLayout(EmptyStore, SetupFingerprint(MonitorOnly), "off")

(* The panel alone, but the built-in output is configured to be another    *)
(* display: the layout cannot be planned.                                  *)
LostStore == [SetSetupDefaultLayout(EmptyStore, SetupFingerprint(Undocked), "builtin")
                EXCEPT !.builtin = MonitorId]

DockStores == {EmptyStore, DeskStore, RowStore}
DarkStores == {EmptyStore, OffStore, LostStore}
=============================================================================
