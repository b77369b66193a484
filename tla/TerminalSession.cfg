CONSTANTS
    Threshold <- MCThreshold
    MaxOutputs <- MCMaxOutputs
    Hook = Hook
    Client = Client
    Detector = Detector
SPECIFICATION Spec
PROPERTIES ClientInformed LoopsEnd
CHECK_DEADLOCK FALSE
