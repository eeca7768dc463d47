----------------------------- MODULE MCPlanning -----------------------------
(***************************************************************************)
(* A laptop and four monitors for two ports, for model checking Planning.  *)
(***************************************************************************)
EXTENDS Planning, TLC

Panel == "eDP-1"
Left  == "DP-1"
Right == "DP-2"

MCConnectors == {Panel, Left, Right}
MCTexts      == {"BOE", "Dell", "0x01010101", "S2"} \cup {"Dell on " \o c : c \in MCConnectors}
MCNames      == {"desk"}
MCRank       == (Left :> 0) @@ (Right :> 1) @@ ("desk" :> 2) @@ (Panel :> 3)

(* Half the difference of the widths is no whole number. *)
Wide        == [width |-> 4, height |-> 1, refresh |-> 60]
Narrow      == [width |-> 1, height |-> 1, refresh |-> 60]
MCModes     == {Wide, Narrow}
MCPreferred == [modes \in SUBSET MCModes |->
                    IF Wide \in modes THEN Wide ELSE IF modes = {} THEN NoValue ELSE Narrow]
MCXforms    == {"1x", "2x"}
MCLogical   == [mx \in MCModes \X MCXforms |->
                    IF mx[2] = "2x" THEN mx[1].width \div 2 ELSE mx[1].width]

(* Two monitors of one make with the same number, one with its own, and    *)
(* one without; as the compositor describes it, its description says which *)
(* connector it is on.                                                     *)
MCDisplays == {"panel", "twin", "other twin", "known", "plain"}

Report(d, c) ==
    LET dell == [NewIdentity(c) EXCEPT !.make = "Dell"]
    IN  CASE d = "panel"                 -> [NewIdentity(c) EXCEPT !.make = "BOE"]
          [] d \in {"twin", "other twin"} -> [dell EXCEPT !.serial = "0x01010101"]
          [] d = "known"                 -> [dell EXCEPT !.serial = "S2"]
          [] d = "plain"                 -> [dell EXCEPT !.description = "Dell on " \o c]

MCReports == [d \in MCDisplays |-> [c \in MCConnectors |-> Report(d, c)]]
MCOffers  == [d \in MCDisplays |-> IF d = "panel" THEN {Narrow} ELSE MCModes]
MCDrives  == [d \in MCDisplays |-> IF d = "panel" THEN "2x" ELSE "1x"]

Dock(l, r) == (Panel :> "panel") @@ (Left :> l) @@ (Right :> r)

MCCablings ==
    {Dock("twin", "other twin"), Dock("known", "twin"), Dock("twin", "known"),
     Dock("plain", "known"), Panel :> "panel",
     (Panel :> "panel") @@ (Left :> "twin")}

MCSpots   == {Origin, [x |-> 4, y |-> 0]}
MCPresets == {"horizontal-reverse", "vertical", "external", "common"}
=============================================================================
