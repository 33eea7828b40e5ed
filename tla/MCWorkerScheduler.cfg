CONSTANTS
    a = a
    b = b
    c = c
    w1 = w1
    w2 = w2
    j1 = j1
    j2 = j2
    j3 = j3
    VertexNone = VertexNone
    Nobody = Nobody
    Tmax = 8
    Vertices <- MCVertices
    Workers <- MCWorkers
    Jobs <- MCJobs
    Route <- MCRoute
    Home <- MCHome
    Workload <- MCWorkload
    Types <- MCTypes
    JobLists <- MCJobLists
SPECIFICATION OutputSpec
INVARIANTS NoAssertFails ScriptsCanBeFollowed
PROPERTIES ImplementsContestDay EveryDayEnds
