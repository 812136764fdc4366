----------------------------- MODULE MCSignFlow -----------------------------
(***************************************************************************)
(* A dapp's transaction, signed on a USB device, beside a Send of the same *)
(* account, which is also in a hot wallet; or a dapp's message, or the     *)
(* replacement of its transaction.                                         *)
(***************************************************************************)
EXTENDS SignFlow

CONSTANTS dapp, send

MCAttempts == {<<dapp, 1>>, <<dapp, 2>>, <<send, 1>>, <<send, 2>>}

MCInit == Init

MCSpec == MCInit /\ [][Next]_vars /\ Fairness
=============================================================================
