\* Two handles race for a stylesheet-like content that is shared and may
\* convert late, or for a page that is neither.
SPECIFICATION FairSpec
CONSTANTS
  Handles = {h1, h2}
  Objects = {sheet, page}
  Shared = {sheet}
  Slow = {sheet, page}
  Pages = {page}
  ReleaseOn = {"ERROR", "DOWNLOAD"}
  Whose = "own"
  Silent = FALSE
  None = None
  Own = Own
INVARIANTS
    OwnedOnce
    UsersAgree
    IteratorsValid
    MessageOrder
    
PROPERTIES
    EveryHandleEnds
CHECK_DEADLOCK FALSE
