SPECIFICATION Library
CONSTANTS
  Home <- MCHome
  InitialBufferSize = 1
  Paths <- MCPaths
  SearchPaths <- MCSearchPaths
  Elements <- MCElements
  MaxFiles = 3
  MaxElements = 4
  Texts <- MCTexts
  Extensions <- MCExtensions
  Filenames <- MCNames
  PatternParts <- MCPatternParts
  ArgumentLists <- MCArgumentLists
  OptionSpec <- MCOptionSpec
  OptionUses <- MCOptionUses
  IntOptions <- MCIntOptions
  CumulativeOptions <- MCCumulativeOptions
  Inputs <- MCInputs
  Commands <- MCCommands
  Integers32 <- MCIntegers
  Reals <- MCReals
  Colors <- MCColors
  UnitTestsOf <- MCUnitTests
  RandMax = 15
  Ranges <- MCRanges
  Quit <- MCQuit
  GenericCalls <- MCGenericCalls
  ByteBits = 2
  TextAt <- MCTextAt
  KeptValues <- MCKeptValues
  ArcTolerance = 1
  Shapes <- MCShapes
  Points <- MCPoints
  Rectangles <- MCRectangles
  Happenings <- MCHappenings
  EventMasks <- MCEventMasks
PROPERTIES FilesAsPromised IteratesAll FunctionsAsPromised
VIEW MCView
