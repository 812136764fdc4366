----------------------------- MODULE MCSendForm -----------------------------
(***************************************************************************)
(* Two recipients, one of them the user's own and known by a name, on an   *)
(* EVM chain and on Tron.                                                  *)
(***************************************************************************)
EXTENDS SendForm

MCRegistry == [n \in Names |-> IF n = "shop.eth" THEN "shop" ELSE "vault"]
MCInit == Init
MCSpec == MCInit /\ [][Next]_vars /\ Fairness /\ RetriesSucceed
=============================================================================
