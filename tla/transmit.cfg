SPECIFICATION FairSpec
CONSTANTS
    TIMEOUTVALUE = 3
    MaxBeats = 4
INVARIANTS TypeOK ResultTellsTruth HeardOnce InOrderUnlessCrowded
PROPERTIES HeardOrOvertaken ImplementsChannel
