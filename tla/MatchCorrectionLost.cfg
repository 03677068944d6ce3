SPECIFICATION Spec
CONSTANTS
    Streams = {1, 2}
    Events = {1, 2}
    TeamStreams = {1}
    Runs = {"full", "preview"}
    Back = 1
    Ahead = 1
    PurgeAfter = 1
    MaxChanges = 2
INVARIANTS CorrectionsStay

