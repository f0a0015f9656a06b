SPECIFICATION FormatsSpec
CONSTANTS
    Modulus = 256
    MagModulus = 4096
    Signs = {TRUE, FALSE}
    MaxRoom = 5
    Texts <- SomeTexts
    Formats <- SomeFormats
    FormatTexts <- SomeFormatTexts
    Arguments <- SomeArguments
    SliceRoom = 2
INVARIANTS
    FormatsTypeOK NumberText RoundTrip ParsedModulo
    FormatText FormatRoundTrip FormatMatches
PROPERTIES InsertEnds
