SPECIFICATION FairSpec
CONSTANTS
    main = main  app = app  app2 = app2  bt = bt  media = media  ui = ui
    None = None
    Clients = {main, app, app2}
    Services = {bt, media, ui}
    Leaves = {bt, media}
    Linger = {bt}
    Starters <- MCStarters
    Exiters <- MCExiters
    Notifiers = {main}
    NTerm = 3
    NMsg = 5
    PostBound = 1
    JoinTimeout = FALSE
    ListenerGap = FALSE
INVARIANTS
    StackExclusive
    ListedRuns
    ExitedIsGone
    NotifiesAll
PROPERTIES
    CallsReturn
