\* A login, its refreshes and a logout; a window that overflows and the next;
\* three pages.
SPECIFICATION Spec
CONSTANTS
    AuthCalls = {1, 2, 3, 4, 5, 6}
    Emails = {e1}
    None = None
    Hits = {1, 2, 3, 4}
    Clients = {c1, c2}
    Limit = 2
    WindowTicks = 2
    MaxWindow = 1
    Items = {1, 2, 3, 4}
    page_size = 2
INVARIANTS
    SessionsTypeOK
    OneAccountPerEmail
    SingleUse
    OneTokenPerSession
    LogoutEndsSession
    LimiterTypeOK
    WindowLimit
    RefusedOnlyWhenFull
    KeysExpire
    ListingTypeOK
    WalkCovers
    RepeatsCostInserts
CHECK_DEADLOCK FALSE
