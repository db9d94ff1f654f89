CONSTANTS
    Programs = {"i2c", "spi", "can", "ds3231", "usbh", "usbh class"}
    Instants <- MCInstants
    SpiTransfers <- MCSpiTransfers
    I2CWrites <- MCI2CWrites
    SramSize = 2
    I2CMore <- MCI2CMore
    I2CReads = {2}
    MaxChunks = 2
    CanFrames <- MCCanFrames
    TrnIds = 3
    DescSize <- MCDescSize
    Offered = {"device", "config", "string", "report"}
    BufSize = 3
    Requests <- MCRequests
    Sizes = {1, 2}
    Others <- MCOthers

SPECIFICATION Spec

INVARIANTS
    OneFrameInFlight
    DataStageServesRequest

PROPERTIES
    AlarmFlagsSticky
    RingsOnlyOnItsDay
    ImplementsRegisterFile

\* A program ends on an exception.
CHECK_DEADLOCK FALSE
