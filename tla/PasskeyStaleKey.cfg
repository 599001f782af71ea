SPECIFICATION Spec
CONSTANTS
  k1 = k1
  k2 = k2
  w1 = w1
  w2 = w2
  Threads = {t1, t2}
  Creds = {c1}
  Wallets = {w1, w2}
  Keys = {k1, k2}
  BadKey = BadKey
  Nonces = {n1}
  Malformed = Malformed
  AnyWallet = AnyWallet
  NoRec = NoRec
  NoVerifier = NoVerifier
  Records <- MCRecords
  Requested = {AnyWallet, w2}
  ChallengeTTL = 1
  MaxPending = 1
  MaxTime = 1
  MaxLocks = 1
SYMMETRY Symmetry
INVARIANTS
  VerifiedAgainstStoredKey
CHECK_DEADLOCK FALSE
