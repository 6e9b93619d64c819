----------------------------- MODULE MCButtons -----------------------------
(* Two buttons, as an application has them: clicked, held or repeating.      *)
(* Both are subscribed for good, or only one of them and that may change.    *)
EXTENDS Buttons

CONSTANTS Back, Down

BothUsed == [b \in Button |-> IF b = Back THEN {"click", "long", "release", "raw"} ELSE {"click"}]
OneUsed  == [b \in Button |-> IF b = Back THEN {"click", "repeat"} ELSE {}]

FirstConfigs == {BothUsed, OneUsed}
AnyChanges   == [c \in FirstConfigs |-> IF c = BothUsed THEN 0 ELSE 1]

(* A window of the overlay takes the back button away.                        *)
AnyOffer == {<<"overlay", Back, "click">>}
=============================================================================
