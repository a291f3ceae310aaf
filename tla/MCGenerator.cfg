SPECIFICATION FairSpec
CONSTANTS
    Frames = {f1, f2, f3, f4, f5}
    Consumer = consumer
    None = none
INVARIANTS TypeOK ResumesASuspendedFrame ValuesAreAlive NoFrameLeaks
PROPERTIES ExceptionsPassEveryCoroutine UnwindingEnds IsLoopsOnly
ACTION_CONSTRAINT FirstFit
