SPECIFICATION MCSpec
CONSTANTS
    dapp = dapp
    send = send
    Dialogs = {dapp, send}
    Dapps = {dapp}
    MayMessage = {dapp}
    Editable = {send}
    MayReplace = {send}
    Usb = {dapp}
    Qr = {}
    Attempts <- MCAttempts
    MaxProbes = 2
    LastNonce = 1
INVARIANTS
    SequentialNoncesDiffer
PROPERTIES
    SettledNeverSends
    SentIsRecorded
    SigningEnds
CHECK_DEADLOCK FALSE
