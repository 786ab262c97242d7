SPECIFICATION Spec
CONSTANTS
  Texts <- TheTexts
  Sources = {"string", "file"}
  Roots <- TheRoots
  Grammar <- TheGrammar
  MaxDepth = 16
  MPC_INPUT_MARKS_MIN = 1
  MPC_INPUT_MEM_NUM = 3
  MPC_PARSE_STACK_MIN = 1
  IntSize = 4096
  LongSize = 16777216
  AllParsers <- TheParsers
  Unfailing <- TheUnfailing
  Yields <- TheKinds
  Layouts <- NoPointers
  UserFold <- NoFold
  UserApply <- NoApply
  UserDtor <- NoDtor
  UserCtor <- NoCtor
  Match <- TheMatch
  MatchFrom <- TheMatchFrom
INVARIANTS
  TypeOK
  MarksFollowStack
  Owned
  ResultOutlivesInput
  FurthestError
  AgreesWithMeaning
PROPERTIES
  FailureRestores
  Terminates
