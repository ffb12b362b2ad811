SPECIFICATION MCSpec
CONSTANTS
    Width = 2
    OfficialHost = "official"
    RedirectHost = "redirect"
    OtherHost = "other"
    Spellings <- MCSpellings
    Usernames <- MCUsernames
    Secrets = {"s1", "s2"}
    LoginIDs = {1, 2}
    KeyIDs = {0, 1}
    Started = 8
    MaxTime = 10
    MaxChanges = 1
    Peers = {"p1", "p2"}
    HostOf <- MCHostOf
    PortOf <- MCPortOf
    ClockOf <- MCClockOf
    MaxErrors = 12
    Names = {"one", "two", "other"}
    HtmlNames = {"one", "two"}
    Fragments <- MCFragments
    MaxEdits = 2
    RootName = "espra"
    Packages <- MCPackages
    Ignore <- MCIgnore
INVARIANTS ServedSecurely TokenBacked SessionsSort OnlySigned PausesDouble TemplatesCurrent ApiKept
CHECK_DEADLOCK FALSE
