----------------------------- MODULE MCAccounts -----------------------------
(* The small instances of Accounts: one seed on a Ledger and on an           *)
(* air-gapped signer (same address, two paths), its key as a hot wallet, and *)
(* another address on Tron; or one address, watched and as a hot wallet.     *)
(* Or the devices: two seeds, two passphrases, an account known before.      *)
EXTENDS Accounts, DeviceWallets

Rec(a, p, s, f) == [addr |-> a, path |-> p, source |-> s, family |-> f]
MCCandidates == {Rec("A", "44'/60'", "ledger", "evm"),
                 Rec("A", "m/44'/60'", "qr", "evm"),
                 Rec("A", Pathless, "hot", "evm"),
                 Rec("B", "44'/195'", "trezor", "tron")}
MCWatched == {Rec("A", Pathless, "hot", "evm"),
              Rec("A", Pathless, "watch_only", "evm")}
MCFamilies == {"evm", "tron"}
MCNewChains == {"palm"}
MCFailing == {Gui}

MCWallet == [seed |-> "A", phrase |-> "p"]
MCKnown ==
    LET a == Address(MCWallet, Path("bip44", 0))
    IN  {[address |-> a, path |-> a.path, scheme |-> "bip44", tree |-> a,
          xfp |-> IF kind = "trezor" THEN MCWallet ELSE Nobody]}

\* The part that moves.
VARIABLE part

MCInit ==
    /\ Init /\ Known(MCKnown) /\ part \in {"accounts", "devices"}
    /\ part = "accounts" => kind = "ledger" /\ plugged = "none" /\ combo = "live"

MCNext ==
    \/ part = "accounts" /\ Next /\ UNCHANGED <<devicesVars, part>>
    \/ part = "devices" /\ DevicesNext /\ UNCHANGED <<vars, part>>

MCSpec == MCInit /\ [][MCNext]_<<vars, devicesVars, part>>
=============================================================================
