SPECIFICATION KvSpec
CONSTANTS
  Layers = 5
  Drafts = {0, 1}
  Memories = {20, 60, 100}
  Overrides = {0, 9}
  MaxLen = 6
  MlaPage = 3
  IdxPage = 1
  DraftPage = 1
  AttnPages <- MCAttn
  DraftPages <- MCDraft
  MambaPages = 1
INVARIANT AdmittedFitsOne
CHECK_DEADLOCK FALSE
