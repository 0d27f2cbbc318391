SPECIFICATION QueueSpec
CONSTANTS
    Msgs = {m1, m2}
    None = None
INVARIANT ForwardsWhatItShows
