\* One item of each kind.
SPECIFICATION FairSpec
CONSTANTS
  Base = base
  Quirks = quirks
  Links = {}
  Styles = {style}
  Sync = {sync}
  Async = {}
  Defer = {defer}
  Added = {added}
  Pictures = {}
  Frames = {frame}
  Mishaps = {}
INVARIANTS
    ActiveExact
    WholeWhenReady
PROPERTIES
    ScriptOrder
    LoadEnds
CHECK_DEADLOCK FALSE
