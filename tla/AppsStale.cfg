CONSTANTS
    Calls = {1, 2, 3, 4}
    Incoming = {1, 2, 3}
    Of <- MCOf
    Locales = {"en", "pt"}
    LocaleOf <- MCLocaleOf
    Fresh = {2}
    Saves = {1, 2, 3}
    VersionOf <- MCVersionOf
    MaxVersion = 2
SPECIFICATION AppsSpec
INVARIANTS AnswerRecorded
PROPERTIES BackOnlyByCopy LoweredOnlyByOverlap
CHECK_DEADLOCK FALSE
