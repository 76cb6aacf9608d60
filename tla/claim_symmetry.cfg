SPECIFICATION FormSpec
CONSTANTS
    Forms <- BoxForms
    Entries <- SomeEntries
    Offers <- SomeOffers
    Numbers <- SomeNumbers
    MaxEntries = 4
INVARIANT PassesHerePassesThere
CHECK_DEADLOCK FALSE
