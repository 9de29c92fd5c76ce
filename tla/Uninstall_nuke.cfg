\* Three things go wrong at most: a command fails or another program interferes.
SPECIFICATION Spec
CONSTANTS
  folder = folder
  bundle = bundle
  framework = framework
  library = library
  daemon = daemon
  main = main
  update = update
  product = product
  Item = {folder, bundle, framework, library, daemon}
  App = bundle
  Traced <- MCTraced
  Plist = {daemon}
  Jobs <- MCJobs
  Program <- MCProgram
  In <- MCIn
  Package = {main, product}
  Related <- MCRelated
  Lists <- MCLists
  MaxTrouble = 3
INVARIANTS
  SharedStays
  ForgottenIsExplained
  PlistGoneJobGone
  LiveJobsStay
CHECK_DEADLOCK FALSE
