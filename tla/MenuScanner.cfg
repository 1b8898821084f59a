SPECIFICATION Interface
CONSTANTS
  Typed <- MCTyped
  NonLatin <- MCNonLatin
  MaxOverlays = 3
  MaxPlaces = 6
  Main = main
  StartMenu = sm
  Menus = {m1}
  Scans = {s1, s2}
  MaxOpen = 3
  MaxMail = 1
  RawResults <- MCRaw
  MaxRow = 2
  Unreadable <- MCUnreadable
  Viewers = {v1, v2}
  Buffer = 1
  MaxLines = 2
  Categories <- MCCategories
  ConfigCheck = "config"
  ChanSize = 2
  MaxReports = 1
  FileNames = {1, 2}
  Needles <- MCNeedles
  Columns <- MCColumns
  Folders = {1, 2}
  Disks <- MCDisks
  MaxBoxes = 2
  MaxAge = 3
  MaxCommands <- MCCommands
  Protocols = {"vaydns", "dnstt", "slipstream", "masterdns", "stormdns", "thefeed"}
  Stored <- MCStored
  Tried <- MCTried
  MaxVisits = 3
PROPERTY MenuClosesItsScanner
CHECK_DEADLOCK FALSE
