SPECIFICATION Spec
CONSTANTS
    VertexOrder <- MCVertexOrder
    Triples <- MCTriples
    LaterTriples <- MCLaterTriples
    TypeDefs <- MCTypeDefs
    Morphisms <- MCMorphisms
    TextQueries <- MCTextQueries
    BuiltQueries <- MCBuiltQueries
    MaxOps = 4
    MaxTypes = 2
    w1 = w1
    w2 = w2
    VlIds = {1, 2}
    VlPoints = {0, 3}
    VlWorkers <- MCWorkers
    Clusters = {2}
    VlCentroids = {0, 3}
    VlQueries = {0, 2, 3}
    LshTables = 2
    LshHash <- MCLshHash
    VlChunk = 1
    MaxInserts = 2
    MaxMaintenance = 2
    QlNames <- MCQlNames
    QlPrograms <- MCQlPrograms
    QlText <- MCQlText
    QlMaxId = 4
    QlReopens = 1
    MAX_RESOLVE_DEPTH = 2
SYMMETRY WorkerSymmetry
INVARIANTS IndexExact GraphAnswers VectorAnswers MaintenanceExact GraphqlSound
PROPERTIES SchemaSurvives
CHECK_DEADLOCK FALSE
