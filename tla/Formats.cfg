SPECIFICATION Spec
CONSTANTS
    IntMax = 92
    None = None
    Alphabets <- MCAlphabets
    MaxLength <- MCMaxLength
INVARIANTS
    NumbersAreExact
    PasswordIsWhatWasMeant
    Base64RoundTrip
    ArgumentsArrive
    ChapterFileIsWholeOrNothing
    ListingIsTheFolder
    AnswersAreWholeOrNothing
CHECK_DEADLOCK FALSE
