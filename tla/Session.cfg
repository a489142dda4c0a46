SPECIFICATION MCSpec
CONSTANTS
    Confs <- SomeConfs
    MaxResends = 1
    MaxPackets = 1
    Handlers = {"a", "b", "c"}
    Dir <- SomeDirs
    MaxCtxs = 3
    MaxRuns = 1
    Internal <- SomeMappings
    Codec <- SomeCodecs
    Params = {"a"}
    Feedbacks = {"nack"}
    Ssrcs = {11, 12}
    Users = {"u", "v"}
    Scenes <- SomeScenes
    MaxLines = 4
    MaxDescs = 2
    Conns = {"c1", "c2"}
    Peers = {"p", "q"}
    Workers = {"w1", "w2"}
    WorkerOf <- TwoWorkers
    PubWorker = "w1"
    Sources = {"webrtc", "external", "synthetic"}
    MaxPublished = 2
    MaxCalls = 3
    MaxFeedback = 1
INVARIANTS TypesOK KeysBeforeMedia NotifiedForward OnlyPacketInHand PipelineSound Agreed Distributed
CHECK_DEADLOCK FALSE
