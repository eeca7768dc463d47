------------------------------ MODULE MCEngine ------------------------------
(***************************************************************************)
(* A laptop with a monitor and a beamer, on GNOME or on Plasma, for model  *)
(* checking Engine.                                                        *)
(***************************************************************************)
EXTENDS Engine, TLC

Panel  == "eDP-1"
Port   == "DP-1"
Beamer == "DP-2"

MCConnectors == {Panel, Port, Beamer}
MCNames      == {}
MCRank       == (Port :> 0) @@ (Beamer :> 1) @@ (Panel :> 2)

(* The wide mode at two rates that round to the same, and at a third. *)
T60     == [width |-> 2, height |-> 1, rate |-> 600]
T599    == [width |-> 2, height |-> 1, rate |-> 599]
T30     == [width |-> 2, height |-> 1, rate |-> 300]
TNarrow == [width |-> 1, height |-> 1, rate |-> 600]

Wide   == Rounded(T60)
Narrow == Rounded(TNarrow)

MCModes  == {Wide, Narrow, Rounded(T30)}
One      == Xform(100, "normal")
Two      == Xform(200, "normal")
Turned   == Xform(100, "90")
MCXforms == {One, Two, Turned}

At(x) == [x |-> x, y |-> 0]

----------------------------------------------------------------------------
(* Mutter. *)

Scaled(t, scales) == [timing |-> t, scales |-> scales, preferredScale |-> 100]

MutterMonitor(c, current) ==
    [id |-> NewIdentity(c), current |-> current, preferred |-> 1,
     modes |-> <<Scaled(T599, {100, 200}), Scaled(T60, {100, 200}), Scaled(T30, {100}),
                 Scaled(TNarrow, {100})>>]

Logical(x, xform, primary, connectors) ==
    [pos |-> At(x), xform |-> xform, primary |-> primary, connectors |-> connectors]

Mutter(connectors, lit, logical) ==
    [serial |-> 0, logical |-> logical,
     monitors |-> [c \in connectors |-> MutterMonitor(c, IF c \in lit THEN 2 ELSE 0)]]

MutterUndocked == Mutter({Panel}, {Panel}, {Logical(0, Two, TRUE, <<Panel>>)})
MutterDocked   ==
    Mutter({Panel, Port}, {Panel, Port},
           {Logical(0, Two, FALSE, <<Panel>>), Logical(2, One, TRUE, <<Port>>)})
(* The panel is shown on the beamer as well; the monitor beside it is dark *)
(* or lit.                                                                 *)
MutterLecture(more) ==
    Mutter(MCConnectors, {Panel, Beamer},
           {Logical(0, One, TRUE, <<Panel, Beamer>>)} \cup more)

MutterShut == Mutter({Port}, {Port}, {Logical(0, Two, TRUE, <<Port>>)})

MCMutterSetups ==
    {MutterUndocked, MutterDocked, MutterShut, MutterLecture({}),
     MutterLecture({Logical(2, Turned, FALSE, <<Port>>)})}

----------------------------------------------------------------------------
(* KScreen. *)

KScreenModes == <<T599, T60, T30, TNarrow>>

Plugged(id, on, x, xform, source) ==
    [connected |-> TRUE, enabled |-> on, id |-> id, modeId |-> IF on THEN 2 ELSE 0,
     modes |-> KScreenModes, size |-> [width |-> 2, height |-> 1], pos |-> At(x),
     xform |-> xform, source |-> source]

Unplugged(id) == [Plugged(id, FALSE, 0, One, 0) EXCEPT !.connected = FALSE]

KScreenUndocked ==
    (Panel :> Plugged(1, TRUE, 0, Two, 0)) @@ (Port :> Unplugged(2)) @@ (Beamer :> Unplugged(3))
KScreenDocked   ==
    (Panel :> Plugged(1, TRUE, 0, Two, 0)) @@ (Port :> Plugged(2, TRUE, 2, One, 0))
KScreenLecture  ==
    (Panel :> Plugged(1, TRUE, 0, One, 0)) @@ (Port :> Plugged(2, FALSE, 0, Turned, 0))
        @@ (Beamer :> Plugged(3, TRUE, 0, One, 1))

MCKScreenSetups == {KScreenUndocked, KScreenDocked, KScreenLecture}

----------------------------------------------------------------------------
(* Desktops, and what is asked for. *)

Session(kde, gnome, override) == [kde |-> kde, gnome |-> gnome, override |-> override]

(* Plasma with a GNOME service running as well, GNOME named by nobody, and *)
(* overrides, one of them for a backend that does not answer.              *)
Environment(session, answering) == [session |-> session, answering |-> answering]

MCEnvironments ==
    {Environment(Session(FALSE, TRUE, "none"), {"gnome"}),
     Environment(Session(FALSE, FALSE, "none"), {"gnome"}),
     Environment(Session(TRUE, TRUE, "none"), {"gnome", "kscreen"}),
     Environment(Session(FALSE, TRUE, "kscreen"), {"gnome", "kscreen"}),
     Environment(Session(TRUE, FALSE, "gnome"), {"kscreen"})}

SavedOutput(c, on, x, mode, xform) ==
    [id |-> NewIdentity(c), enabled |-> on, mode |-> mode, modes |-> MCModes, pos |-> At(x),
     xform |-> xform, mirror |-> NoValue]

(* The desk: the monitor alone, turned.  Presenting: the beamer beside the *)
(* monitor, in its slowest mode, and the panel dark.                       *)
Desk ==
    (Panel :> SavedOutput(Panel, FALSE, 0, Wide, One))
        @@ (Port :> SavedOutput(Port, TRUE, 0, Narrow, Turned))
Presenting ==
    (Panel :> SavedOutput(Panel, FALSE, 0, NoValue, One))
        @@ (Port :> SavedOutput(Port, TRUE, 0, Wide, One))
        @@ (Beamer :> SavedOutput(Beamer, TRUE, 2, Rounded(T30), Two))

MCProfiles == {Desk, Presenting}

MCPresets == {"external", "builtin", "horizontal", "common", "mirror"}
=============================================================================
