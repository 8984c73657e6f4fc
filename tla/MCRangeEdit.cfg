\* Two transactions on one source that goes to another revision and comes back, with a
\* producer that is replayed or not: evidence and staging passes, rebinds, disposals,
\* cancellations and late settlements, under a host that decides and answers every
\* admitted commit.
SPECIFICATION FairSpec
CONSTANTS
  BindingIds = {b1}
  Revisions = {r1, r2}
  Extents <- OneExtent
  MaxOperation = 2
  Replacements <- LineReplacements
  Payloads <- TwoPages
  Producers = {p1}
  Intents <- BothIntents
  MaxU64 = 8
  MaxPages <- TwoProposalPages
  MaxRequests = 3
  MaxTransactions = 2
  MaxEpoch = 2
  None = None
INVARIANTS  TerminalOnce RetiredKeysStayRetired EvidenceStands 
PROPERTIES FinishFreezes ImplementsEdit AdmittedSettles
