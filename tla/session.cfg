SPECIFICATION SpecSession
CONSTANTS
    None = None
    ListHead = ListHead
    Uris <- MCUris
    Answers <- MCAnswers
    Files <- MCFiles
    Forms <- MCForms
    Locs <- MCLocs
    MaxRedirects = 2
    MaxAsked = 4
    KeepUnhistory = TRUE
    Patient = TRUE
INVARIANT DownloadsPlaced
PROPERTIES VisitedKept TasksEnd
