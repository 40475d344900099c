SPECIFICATION Spec
CONSTANTS
  chain1 = chain1
  chain2 = chain2
  zero = zero
  url = url
  empty = empty
  None = None
  Chains = {chain1, chain2}
  ZeroChain = zero
  KnownAliases <- MCAliases
  Signers <- MCSigners
  Scopes = {0, 3}
  ActionLists <- MCActionLists
  Callbacks <- MCCallbacks
  EmptyUrl = empty
  InfoPairs <- MCInfoPairs
  Links = {1, 2}
  ReturnPaths = {7}
  Foreign <- MCForeign
  Contexts <- MCContexts
  Tapos <- MCTapos
  U16 = 4
  U32 = 16
INVARIANTS TypeOK AsAsked Stable NoPlaceholderLeft HeaderHonoured ResolversAgree ProofMatches
