SPECIFICATION Spec
CONSTANTS
    Heads = 2
    HeadDim = 1
    SeqLen = 2
    Vocab = 4
    FullWeight <- MCFullWeight
    Samples <- MCSamples
    Configs <- MCConfigs
    BucketCap = 20
    Dps = {1, 2, 3}
    Tps = {1, 2}
INVARIANTS
    TypeOK
    ActivationsAgree
    LossIsCrossEntropy
    TrainedAsOneDevice
    OneAllReduceEachWay
