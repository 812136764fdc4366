---------------------------- MODULE MCQrExchange ----------------------------
(***************************************************************************)
(* Two still exchanges, where the system may have to ask for the camera;   *)
(* or, after one the user cancelled late, an animated one whose device     *)
(* looks at the last of three frames and reads the second mask only, with  *)
(* the camera of the wallet denied.                                        *)
(***************************************************************************)
EXTENDS QrExchange

Still ==
    /\ ExchangeInit
    /\ \A r \in Exchanges : size[r] = 1
    /\ phase = 0 /\ legible = 0

Animated ==
    /\ size \in [Exchanges -> 1..MaxFragments] /\ size[1] = 1 /\ size[2] > 1
    /\ asked = 1 /\ dialog = "closed" /\ scanned = Nothing /\ accepting = FALSE
    /\ outcome = [r \in Exchanges |-> IF r = 1 THEN "cancelled" ELSE "none"]
    /\ used = [r \in Exchanges |-> 0]
    /\ closedBy = [r \in Exchanges |-> IF r = 1 THEN "user" ELSE "nobody"]
    /\ phase = Period - 1 /\ legible = Masks - 1
    /\ reading = 1 /\ signature = 1 /\ have = {0}
    /\ permission = "denied"
    /\ Idle

MCInit == Still \/ Animated

MCSpec == MCInit /\ [][ExchangeNext]_qrVars /\ ExchangeFairness
=============================================================================
