SPECIFICATION MessagesSpec
CONSTANTS
    Methods = {"GET", "POST"}
    MethodLength <- SomeLengths
    Versions = {"1.0", "1.1"}
    Messages <- ManyMessages
    Reasons <- SomeReasons
    MaxHeaders = 2
    MaxBody = 1
    MaxRoom = 25
    MaxCalls = 2
INVARIANTS
    MessagesTypeOK HeadersAreLines PathBetweenSpaces AcceptsWellFormed BodyOfThisMessage
    HeaderLines HeaderWords WholeOrNothing VersionBeforeEnd
