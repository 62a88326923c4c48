SPECIFICATION NexusSpec
CONSTANTS
  Jobs = {j1, j2}
  Wallets = {w1, w2}
  Kinds = {"stake", "unstake", "claim", "burnForCryLo", "buyback", "burnNft", "register", "unregister", "claimNode", "dailyGas", "buyGas"}
  Units = 1
  Nil = Nil
  Vault = Vault
  Burned = Burned
SYMMETRY NexusSymmetry
INVARIANTS OwnApproval NoNonceGap CompletedIsDone ConfigIsRegistered

