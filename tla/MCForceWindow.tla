---------------------------- MODULE MCForceWindow ----------------------------
(* A shop, whose leave takes buy off with it, and a pack. *)
EXTENDS ForceWindow

CONSTANTS leave, buy, sell, pick, shop, pack, a1, a2

MCNames == {leave, buy, sell, pick}
MCGroup == [n \in {leave, pick} |-> IF n = leave THEN {leave, buy} ELSE {pick}]
MCOnScreen == [s \in {shop, pack} |-> IF s = shop THEN {leave, buy, sell} ELSE {pick, sell}]
Shows(screen, usable, unsure) == [screen |-> screen, usable |-> usable, unsure |-> unsure]
MCSituations == {
    Shows(shop, {leave, buy, sell}, {}),
    Shows(shop, {leave, sell}, {buy}),
    Shows(pack, {pick, sell}, {}),
    Shows(NoScreen, {}, {})}
==============================================================================
