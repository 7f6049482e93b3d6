CONSTANTS
    Workers = {w1, w2, w3}
    Arms = {"baseline", "receipt", "visibility"}
    MaxKills = 3
    Parts = {"node", "lattice", "campaign"}
SPECIFICATION MCSpec
PROPERTIES NodeIsGuarded ReceiptCompletes PassedLatticeReleasesValue NothingStarves SettledIsVerified
CHECK_DEADLOCK FALSE
