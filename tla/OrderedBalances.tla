-------------------------- MODULE OrderedBalances --------------------------
(***************************************************************************)
(* What the balance ledger promises to whoever looks at a balance, with    *)
(* nothing of how it keeps the promise (qeth/plugins/tokens/               *)
(* balance_ledger.py:1-16).  Each asset shows one version of the chain,    *)
(* the height it was read at, plus the receipts received since; the        *)
(* version only moves forward, a receipt is added at most once and only    *)
(* above the version, and a lost connection may make the component forget  *)
(* what it knew, after which any read is as good as another.               *)
(***************************************************************************)
EXTENDS Integers

CONSTANTS Assets,   \* the keys balances are kept for
          Blocks,   \* heights of the chain
          Unknown   \* no ordered version is shown

VARIABLES version,  \* version[a]: the height shown, or Unknown
          extra     \* extra[a]: blocks of the receipts added on top of it

vars == <<version, extra>>

Init ==
    /\ version = [a \in Assets |-> Unknown]
    /\ extra = [a \in Assets |-> {}]

\* What one asset may do in a step.
Keep(a) == version'[a] = version[a] /\ extra'[a] = extra[a]

\* A read at the version shown, or a newer one, replaces everything.
Advance(a) ==
    /\ version'[a] \in Blocks
    /\ version[a] # Unknown => version'[a] >= version[a]
    /\ extra'[a] = {}

\* A receipt mined after everything shown.
Credit(a) ==
    /\ version[a] # Unknown
    /\ version'[a] = version[a]
    /\ \E b \in Blocks :
          /\ b > version[a]
          /\ \A e \in extra[a] : b > e
          /\ extra'[a] = extra[a] \cup {b}

Forget(a) == version'[a] = Unknown /\ extra'[a] = {}

\* One read or one receipt may concern several assets at once.
Next ==
    /\ \A a \in Assets : Keep(a) \/ Advance(a) \/ Credit(a) \/ Forget(a)
    /\ version' \in [Assets -> Blocks \cup {Unknown}]
    /\ extra' \in [Assets -> SUBSET Blocks]

Spec == Init /\ [][Next]_vars
=============================================================================
