SPECIFICATION Spec
CONSTANTS
    FRAME <- MCFrame
    usart3_rx_buf_Number = 8
    RXTIMEOUT = 2
    OLD = old
    NONE = none
PROPERTY
    PacketWhole
