SPECIFICATION FairSpec
CONSTANTS
  WORD = 4
  Characters <- MCCharacters
  CharOf <- MCChars
  StringAt <- MCStrings
  STACK_WORD = 1
  SCREEN_WIDTH = 4
  SCREEN_HEIGHT = 2
  BYTE = 4
  Messages <- MCMessages
  BootMessage <- MCBootMessage
  HandlerMessages <- MCHandlerMessages
  MAX_CALLS = 4
  MAX_TICKS = 2
INVARIANT ConsoleInv
INVARIANT CursorOnScreen
INVARIANT StoresNearScreen
INVARIANT ScreenShowsText
INVARIANT PrintfMeansFormat
PROPERTY PrintReturns
