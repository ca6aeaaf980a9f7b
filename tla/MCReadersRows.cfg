SPECIFICATION SiteSpec
CONSTANTS
    Absent = Absent
    Junk = Junk
    NoData = NoData
    Null = Null
    Region <- MCRegion
    Live = {"terminal", "terminal2"}
    Scenes <- MCScenes
    Key <- MCKeys
    KeyOf <- MCKeyOf
    View <- MCView
    Replies <- MCReplies
    Content <- MCContent
    Revalidate <- MCRevalidate
    Expire <- MCExpire
    Timeout = 1
    Elsewhere = Elsewhere
    t1 = t1
    Tab = {t1, t2}
    CaseStudies = {"site"}
    SiteSystem = "site"
    ThemeIds = {"mocha", "latte"}
    Noir = Noir
INVARIANT RowsKeepTheLanguage
