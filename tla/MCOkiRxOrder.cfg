SPECIFICATION RxSpec
CONSTANTS
    RxNum = 4
    TxNum = 1
    LowLast = 2
    Weight = 4
    MaxFrames = 6
INVARIANT InOrderReception
