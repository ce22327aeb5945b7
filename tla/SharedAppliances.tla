-------------------------- MODULE SharedAppliances --------------------------
(***************************************************************************)
(* What every kitchen of assignments/hw5 promises (kitchen.c:49-51): two   *)
(* chefs that need a common appliance never cook at the same time.         *)
(***************************************************************************)

CONSTANTS
    Chef,
    Conflict(_, _)      \* do the two chefs need a common appliance?

VARIABLE busy           \* the chefs that are cooking

AppliancesInit == busy = {}

StartCooking(c) ==
    /\ c \notin busy
    /\ \A d \in busy : ~Conflict(c, d)
    /\ busy' = busy \cup {c}

StopCooking(c) ==
    /\ c \in busy
    /\ busy' = busy \ {c}

AppliancesNext == \E c \in Chef : StartCooking(c) \/ StopCooking(c)

AppliancesSpec == AppliancesInit /\ [][AppliancesNext]_busy
=============================================================================
