----------------------------- MODULE MCCommands -----------------------------
(***************************************************************************)
(* A laptop panel and one external port, for model checking Commands.      *)
(***************************************************************************)
EXTENDS Commands, TLC

Panel == "eDP-1"
Port  == "DP-1"

MCConnectors == {Panel, Port}
MCTexts      == {"BOE", "Dell", "U27", "S1"}
MCNames      == {"default", "custom", "desk", "horizontal", "mirror", "vertical"}
Wide         == [width |-> 2, height |-> 1, refresh |-> 60]
Narrow       == [width |-> 1, height |-> 1, refresh |-> 60]
MCModes      == {Wide, Narrow}
MCPreferred  == [modes \in SUBSET MCModes |-> IF Wide \in modes THEN Wide ELSE NoValue]
MCXforms     == {"1x", "2x"}
MCLogical    == [mx \in MCModes \X MCXforms |->
                    IF mx[2] = "2x" THEN mx[1].width \div 2 ELSE mx[1].width]
MCRank       == ("DP-1" :> 0) @@ ("custom" :> 1) @@ ("default" :> 2) @@ ("desk" :> 3)
                    @@ ("eDP-1" :> 4) @@ ("horizontal" :> 5) @@ ("mirror" :> 6)
                    @@ ("vertical" :> 7)

PanelId   == [NewIdentity(Panel) EXCEPT !.make = "BOE"]
MonitorId == [NewIdentity(Port) EXCEPT !.make = "Dell", !.model = "U27", !.serial = "S1"]

Output(id, on, x) ==
    [id |-> id, enabled |-> on, mode |-> Wide, modes |-> MCModes,
     pos |-> [x |-> x, y |-> 0], xform |-> "1x", mirror |-> NoValue]

(* What the compositor may report when displays change. *)
Undocked    == Panel :> Output(PanelId, TRUE, 0)
Docked      == (Panel :> Output(PanelId, TRUE, 0)) @@ (Port :> Output(MonitorId, TRUE, 2))
(* Docked with the lid closed; the monitor has not told its identity yet. *)
DockedShut  == (Panel :> Output(PanelId, FALSE, 0)) @@ (Port :> Output(NewIdentity(Port), TRUE, 0))

DockSetups == {Docked, Undocked}
WeakSetups == {Docked, DockedShut}

Line(kind, name, default, save) ==
    [kind |-> kind, name |-> name, default |-> default, save |-> save]

Save(name)       == Line("save", name, FALSE, FALSE)
SaveDefault(name) == Line("save", name, TRUE, FALSE)
SetDefaultTo(preset) == Line("set", preset, TRUE, FALSE)
SetSave(preset)  == Line("set", preset, FALSE, TRUE)
SetProfile(name) == Line("profile", name, FALSE, FALSE)
Auto             == Line("auto", NoValue, FALSE, FALSE)
Remove(name)     == Line("remove", name, FALSE, FALSE)
Cycle            == Line("cycle", NoValue, FALSE, FALSE)

(* Two commands at once. *)
TogetherLines == {Save("desk"), Save(NoValue), SetSave("vertical"), SetDefaultTo("builtin"),
                  Line("profile", "desk", TRUE, FALSE), Remove("desk"), Auto}

(* One after the other. *)
SequenceLines == {Save("desk"), SaveDefault(NoValue), SetSave("horizontal"),
                  SetDefaultTo("external"), SetDefaultTo("largest"), SetProfile("desk"),
                  Line("set", "vertical", TRUE, TRUE), Remove("external"), Auto}

CycleLines == {Cycle, Save("desk"), Remove("desk"), SetSave("vertical")}

(* Both displays where the compositor puts them, one in another mode. *)
DeskProfile ==
    [name |-> "desk", priority |-> 1, rules |-> <<>>, hooks |-> TRUE,
     layout |-> [Docked EXCEPT ![Port].mode = Narrow, ![Port].xform = "2x"]]

DeskStore == [EmptyStore EXCEPT !.profiles = {DeskProfile}]

MCStores    == {EmptyStore, DeskStore}

(* Nothing has been recorded yet, or both displays have been seen. *)
NewStates   == {EmptyState}
KnownStates == {UpdateObserved(EmptyState, Docked, NoValue)}
=============================================================================
