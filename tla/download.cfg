SPECIFICATION DownloadSpec
CONSTANTS
  Runs = {r1, r2}
  Other = Other
  visa = visa
  apply = apply
  Www = Www
  PrintWord = PrintWord
  SourcesJson = SourcesJson
  None = None
  Hosts = {Www, Other}
  Extensions = {".md"}
  Links <- MCLinks
  LinkLists <- MCLinkLists
INVARIANTS DownloadTypeOK RawOnlyUnfinished SidecarNamesPages
CHECK_DEADLOCK FALSE
