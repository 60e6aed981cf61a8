SPECIFICATION MCSpec
CONSTANTS
    Parts = {"admin"}
    t1 = t1
    t2 = t2
    Turns = {t1, t2}
    Lengths <- MCLengths
    Window = 2
    Backends = {"in_memory", "redis"}
    AttemptEvents = 2
    None = None
    Junk = Junk
    DefaultPath = "crate.yaml"
    Fade = 4
    MinChars = 2
    MaxEvents = 2
    Answers <- MCAnswers
    Uploads <- MCUploads
    Scripts <- MCScripts
    Sounds <- MCSounds
    Transcripts <- MCTranscripts
    Givens <- MCGivens
CHECK_DEADLOCK FALSE
INVARIANT
    TtsFailureReported
