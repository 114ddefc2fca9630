CONSTANTS MaxRefusals = 2
SPECIFICATION FairSpec
PROPERTIES EngineStarts
