SPECIFICATION FairSpec
CONSTANTS
    Modulus = 256
    MagModulus = 256
    Signs = {FALSE}
    MaxRoom = 4
    Texts <- SomeTexts
PROPERTIES InsertEnds
