SPECIFICATION Spec
CONSTANTS
    u1 = u1
    u2 = u2
    empty = empty
    placeholder = placeholder
    special = special
    long = long
    huge = huge
    plain = plain
    none = none
    NoText = empty
    Placeholder = placeholder
    None = none
    Texts <- AllTexts
    Refused <- SpecialTexts
    Long <- LongTexts
    Oversized <- OversizedTexts
    Roles <- TwoRoles
    Users <- BothUsers
    Reader = u1
    Titles <- SomeTitles
    Prompts <- SomePrompts
    Bodies <- SomeBodies
    PageSize = 1
    MaxConversations = 2
    MaxMessages = 2
    MaxClock = 1
INVARIANTS
    TypeOK
    IndexesAgree
    TitleFromFirst
    PromptKept
    ListingMissesAtMostDeletions
