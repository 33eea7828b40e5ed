CONSTANTS
    page1 = page1
    bad = bad
    a1 = a1
    a2 = a2
    b1 = b1
    r1 = r1
    r2 = r2
    r3 = r3
    Absent = Absent
    Nobody = Nobody
    Requests <- MCRequests
    Inputs <- MCInputs
    ValidTitles <- MCValidTitles
    Titles <- MCTitles
    Blocks <- MCBlocks
SPECIFICATION WikiSpec
INVARIANT LoneSaveIsKept
PROPERTY PagesAreShownWhole
CHECK_DEADLOCK FALSE
