\* Texts of up to four or five characters over the alphabet of each part of the
\* scanner, given as a string or as a file, one after another.
CONSTANTS
    Setups <- ScannerSetups
    MaxInputs <- TwoTexts
    MaxRepeats <- OneRepeat
SPECIFICATION Spec
INVARIANTS TypeOK PositionIsNextToken
PROPERTIES CharactersLostOnlyByPushBack TokensAreLongest CallsReturn
CHECK_DEADLOCK FALSE
