CONSTANTS
    MaxRkFrames = 4
    dec_frames_cnt = 2
    MaxDecoded = 6
    Buffers = {0, 1, 2}
    THRESHOLD = 1
    STREAM_BUF_SIZE = 5
    Units <- MCUnits
    MaxBytes = 10
SPECIFICATION VideoSpec
INVARIANTS
    DrawnWhole
    NewestShown
    BuffersKept
    StreamWhole
PROPERTIES
    RkInOrder
    RkLatestShown
CHECK_DEADLOCK FALSE
