SPECIFICATION Spec
CONSTANTS
    MaxSegs = 2
    snd_queue = snd_queue
    snd_buf = snd_buf
    Null = Null
    Thread = {"main", "recv"}
INVARIANTS
    SegmentsKept
