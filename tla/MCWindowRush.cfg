SPECIFICATION Spec
CONSTANTS
    h1 = h1  h2 = h2  h3 = h3  a = a  b = b  blank = blank  mail = mail
    None = None
    Sites = {a, b, mail}
    Blank = blank
    Handles = {h1, h2, h3}
    Unfetchable = {mail}
    Lingering = {b}
    RefreshTo <- Refreshing
    Rush = TRUE  StaleAnswers = FALSE
    MaxCalls = 3
INVARIANTS SlotsHold
CHECK_DEADLOCK FALSE
