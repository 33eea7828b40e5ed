CONSTANTS
    v1 = v1
    v2 = v2
    v3 = v3
    v4 = v4
    v5 = v5
    Vertices <- MCVertices
    Roads <- MCRoads
    Undefined = Undefined
SPECIFICATION Spec
INVARIANTS NeverDequeuesEmpty LastRoadFromNearest
PROPERTIES AnswersAreFinal QueriesAnswered
