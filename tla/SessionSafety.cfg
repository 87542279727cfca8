\* One class or two, two methods, one of them by a symbol and by a string; two transactions.
CONSTANTS
  A = A  B = B  self = self  hello = hello  sha1 = sha1  helloString = helloString  nil = nil
  here = here  gone = gone  home = home  nowhere = nowhere
  Classes = {A, B}
  Named = {A}
  Methods = {hello, helloString, sha1}
  KeyNames <- SomeKeyNames
  ClassDoc = self
  Statements <- SomeStatements
  VersionCalls <- SomeVersions
  KnownTypes <- HostTypes
  Nothing = nil
  MaxLoads = 2
  MaxStatements = 3
  MaxEvents = 3
  Files <- SomeFiles
  NoTid = NoTid
  t1 = t1 t2 = t2
  ErrorValues <- SomeErrors
  \* integers of 4 bits, Fixnums of 3
  IntegerLimit = 8
  FixnumLimit = 4
  Names <- SomeNames
  RealPath <- Resolve
  NoPath = nowhere
  Tids <- SomeTids
  Arguments <- SomeArguments
SPECIFICATION Spec
INVARIANTS
  TypeOK
  DescriptionMatchesDocs
  ArgumentsAreListed
  BadScriptsAreRefused
  OneEntryPoint
  DefinitionsStayValid
  AnswersAreFaithful
  CallbacksFindTheirTransaction
SYMMETRY TidSymmetry
CHECK_DEADLOCK FALSE
