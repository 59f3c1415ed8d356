\* Two peers' callbacks in any order, and a wallet that reads in between.  The end of the block
\* tree ends the node's steps, not the wallet's.
CONSTANTS
    Tx <- MCTx
    Inputs <- MCInputs
    Block <- MCBlock
    Genesis = "g"
    Parent <- MCParent
    TxsOf <- MCTxsOf
    Maturity = 2
    Handler = {h1, h2}
    Mine <- MCMine
    Value <- MCValue
    Needs = {1, 2, 3}
SPECIFICATION WalletSpec
INVARIANTS PoolMineable ScanMatchesNode MatureIsMature
PROPERTIES PoolRecovers ReturnsValid DraftIsAccepted
