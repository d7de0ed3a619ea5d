SPECIFICATION DesktopSpec
CONSTANTS
 None = None
 Text <- MCText
 MaxDesks = 2
 MaxOthers = 1
 MaxCrashes = 1
 MaxInFlight = 2
 MaxStranded = 1
 MaxRevision = 3
 Drafts <- MCDrafts
 Demo <- MCDemo
 Files <- MCFiles
 BrowserRows <- MCBrowserRows
 SharedLogins <- MCSharedLogins
 FirstEntries <- MCFirstEntries
 OtherEntries <- MCOtherEntries
 Elder <- MCElder
PROPERTY NoOldPageLosesLogins
CHECK_DEADLOCK FALSE
