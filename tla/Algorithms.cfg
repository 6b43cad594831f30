\* All texts of up to six characters, chunks of two and three; pools of two and three;
\* corpora and listings of up to four items; tokens of one and two seconds.
SPECIFICATION Spec
CONSTANTS
    MaxLength = 6
    ChunkSizes = {2, 3}
    MaxPool = 3
    Texts <- MCTexts
    MaxCorpus = 4
    MaxRows = 4
    MaxTtl = 2
    Rounding = 1
    NoToken = NoToken
    NoOutput = NoOutput
CHECK_DEADLOCK FALSE
INVARIANTS
    PiecesBecomeChunks
    PiecesCoverTheText
    OverlapIsCarried
    CutKeepsTheBest
    BetterStaysAhead
    CoverageWins
    AnswersCiteTheirSources
    MetricsAgree
    GateAgreesWithCases
    WalkIsAsStillAsTheTable
    TokenLivesItsTime
