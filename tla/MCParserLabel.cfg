SPECIFICATION Spec
CONSTANTS
  Texts <- LabelTexts
  Sources = {"string"}
  Roots <- TheRoots
  Grammar <- KorlessaGrammar
  MaxDepth = 1000
  MPC_INPUT_MARKS_MIN = 32
  MPC_INPUT_MEM_NUM = 512
  MPC_PARSE_STACK_MIN = 4
  IntSize = 4096
  LongSize = 16777216
  AllParsers <- TheParsers
  Unfailing <- TheUnfailing
  Yields <- TheKinds
  Layouts <- KorlessaLayouts
  UserFold <- Fold
  UserApply <- ApplyFunction
  UserDtor <- Destructor
  UserCtor <- Constructor
INVARIANT LabelsAreLabels
