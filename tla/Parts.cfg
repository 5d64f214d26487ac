CONSTANTS
  Hosts = {h1, h2}
  MaxLookups = 2
  Answers = {2, 3}
  TcpDatagrams <- MCDatagrams
  Ids = {1, 2}
  Cap <- MCCap
  ArpTries = 2
  Digits = {0, 2}
  Ops = {"+", "-", "*", "/"}
  MaxNumber = 10
  MaxDecimals = 2
  CalcSteps = 6
  Rows = 3
  Cols = 2
  MinShuffle = 2
  MaxShuffle = 4
  MaxMoves = 8
  W = 14
  H = 8
  PaddleW = 1
  PaddleH = 3
  Ball = 1
  PaddleSpeed = 1
  Speed = 1
  MaxSpeed = 2
  Bend = 2
  ScoreWin = 2
  Ring = 16
  Align = 2
  Lag = 4
  Lengths = {1, 3, 4}
  MinRaw = 3
  MaxRaw = 5
  MaxFrames = 4
  MaxSends = 5
  Sectors = {1, 2}
  Data = {0, 1}
  MaxAccesses = 3
  MaxCuts = 1
  Urls = {"home", "other", "nohost"}
  Hostless = {"nohost"}
  Home = "home"
  Long = {"other"}
  LineW = 3
  MaxLines = 3
  MaxLinks = 2
  MaxText = 4
  HistMax = 2
  Visible = 1
  MaxTokens = 7
  BrowserTokens = 3
  BrowserSteps = 3
  Chars = {"<", "EOL", "hex"}
  MaxDocument = 3
  Half = 4
SYMMETRY AnyHost
SPECIFICATION PartsSpec
INVARIANTS WholeDatagrams AnswerIsForHost LeftToRight Solvable FramesInOrder WrittenSurvives LinksInAnchors PageAsSent
PROPERTIES PointOnlyOnMiss
CHECK_DEADLOCK FALSE
