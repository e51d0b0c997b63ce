CONSTANTS
    short = short
    long = long
    writer = writer
    Writers = {writer}
    Contents = {short, long}
    BodySize <- MCBodySize
    HeaderSize = 2
    SocketRoom = 3
    MaxMessages = 2
SPECIFICATION MessagesSpec
INVARIANT NullOnDisconnect
CHECK_DEADLOCK FALSE
