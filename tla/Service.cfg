SPECIFICATION MCSpec
CONSTANTS
    Parts = {"answer", "pipelines", "reports"}
    s1 = s1
    t1 = t1
    t2 = t2
    m1 = m1
    m2 = m2
    Sessions = {s1}
    Turns = {t1, t2}
    Msgs = {m1, m2}
    TTL = 1
    MaxReports = 2
    Texts <- MCTexts
    Transports <- MCBoth
    MinChars = 2
    Room = 1
    Cut = 2
    Sounds <- MCSounds
    Fade = 2
CHECK_DEADLOCK FALSE
INVARIANTS
    SpokenInOrder
    NothingForgotten
    ItemsOrdered
    SoundKept
    BooksBalance
PROPERTIES
    StreamEnds
    CountedOnce
    PanicsLogged
