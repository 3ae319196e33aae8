CONSTANTS
  Infos <- TwoFiles
  LostType = ""
  ErrorPage = "416"
  NoFile = NoFile
  NoInfo = NoInfo
  MaxEvents = 3
  InboxCap = 1
  MaxTmp = 3
  MaxBlind = 0
SPECIFICATION FairSpec
INVARIANT CountsWhatIsThere
PROPERTIES EventuallyInstalled DownloadsCease
