SPECIFICATION FairFrontendSpec
CONSTANTS
    f1 = f1  f2 = f2
    File = {f1, f2}
    Chunks <- MCChunks
    Public <- MCPublic
    Limit = 1
    MaxObject = 4
    MaxCommands = 3
    ada = ada  uma = uma  nobody = nobody
    User = {ada, uma}
    Admin = {ada}
    NoUser = nobody
    Path = {"root", "user", "login", "lost"}
    MaxNav = 2
    MaxBack = 1
    MaxEvents = 2
    Call = {1, 2}
    MaxToken = 3
    MaxRefresh = 2
    home = home  a = a  b = b  c = c
    TabUser = {ada, uma}
    Nobody = nobody
    HomeTab = home
    TabRoutes <- RoutesOfUser
    MaxMoves = 2
    MaxClicks = 4
    MaxConversation = 1
    MaxQuestion = 1
    MaxPending = 1
    MaxSends = 2
    MaxFrames = 1
    Text = {x}
    ka = ka  kb = kb
    Users = 25
    PageSizes = {10, 15}
    FirstSize = 20
    MaxRequests = 4
    MaxUses = 3
    Column <- Columns
    reg = reg  made = made  preg = preg  pnew = pnew  s1 = s1  s2 = s2  top = top  absent = absent
    Person = {reg}
    Registered = {reg}
    SharedTag = {s1, s2}
    Private <- PrivateOf
    Top = top
    Absent = absent
    Within <- IdsWithin
    MaxEdits = 2
    Route = {1, 2, 3}
    Window = {w1, w2}
    MaxResizes = 5
    Name = {n1}
    Password = {p1, p2}
    MaxSubmits = 2
    MaxFills = 5
    blue = blue  pink = pink
    Browser = {w1, w2}
    Override <- Builds
    Color = {blue, pink}
    Shade <- NearestShade
    First <- DefaultColors
    MaxLooks = 5
INVARIANTS FrontendTypeOK LimitKept OneRowPerFile NoNestedRedirect TabsOfAccount RowsMatchPager PrivateTagKept RoutesOfRolesAgree LayoutRestored MenuReachable QuestionSentOnce RegistrationComplete ThemeKept
PROPERTIES QueueDrains GuardsSettle ResetCompletes ImplementsCalls
CHECK_DEADLOCK FALSE
