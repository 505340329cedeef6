CONSTANTS
  Width = 3
  MinV4 = 1
  MinV6 = 3
  MaxRoutes = 4
  None = None
  MinuteLen = 2
  HourLen = 3
  DayLen = 2
  LastYear = 2101
  KEY = KEY
  AT = AT
  COLON = COLON
  SPACE = SPACE
  Kilo = Kilo
  Mega = Mega
  LETTER = LETTER
  Lines <- MCLines
  Align = 4096
  V4Requests <- MCV4Requests
  V6Requests <- MCV6Requests
  QueueSizes <- MCQueueSizes
  BufferSizes <- MCBufferSizes
  MaxData = 4
  MaxWords = 3
SPECIFICATION MCSpec
INVARIANTS
  LongestMatchV4
  
  CalendarRight
  ReplyVerifies
  DataEchoed
  CmdLineRight
  FrameFits
  AreasApart
CHECK_DEADLOCK FALSE
