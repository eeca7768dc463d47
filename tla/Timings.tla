------------------------------ MODULE Timings ------------------------------
(***************************************************************************)
(* Modes and scales as the GNOME and KScreen backends meet them            *)
(* (crates/gnome/src/backend, crates/kscreen/src/backend).                 *)
(*                                                                         *)
(* Both desktops report refresh rates as fractions, in tenths of a hertz   *)
(* here; a mode of the topology has the rate rounded to a hertz.  Scales   *)
(* are in percent, and a member of Xforms is the pair of a scale and a     *)
(* transform.                                                              *)
(***************************************************************************)
EXTENDS Matching

Timing == [width : Nat, height : Nat, rate : Nat]

Xform(scale, transform) == [scale |-> scale, transform |-> transform]

RoundRefresh(rate) == (rate + 5) \div 10

Rounded(timing) ==
    [width |-> timing.width, height |-> timing.height, refresh |-> RoundRefresh(timing.rate)]

Distance(a, b) == IF a < b THEN b - a ELSE a - b

RefreshDistance(timing, refresh) == Distance(timing.rate, 10 * refresh)

SameSize(a, b) == a.width = b.width /\ a.height = b.height

Lit(plan) == {c \in DOMAIN plan : plan[c].enabled}
=============================================================================
