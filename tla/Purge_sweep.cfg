SPECIFICATION Spec
CONSTANTS
  top = top
  outer = outer
  inner = inner
  core = core
  store = store
  note = note
  draft = draft
  alias = alias
  Root = top
  Place = {outer, inner, core, store, note, draft, alias}
  Walk <- MCWalk
  Parent <- MCParent
  Kind <- MCKind
  Depth <- MCDepth
  Protected = {core}
  MaxTrouble = 2
INVARIANTS
  OnlyEmptyOnes
  OnlyDangling
CHECK_DEADLOCK FALSE
