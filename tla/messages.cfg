CONSTANTS
    Queued <- MCQueued
    Hosts <- ConfiguredHosts
    Times <- Moment
    PublicKey <- Key
    SignatureLength = 70
    MaxPacketMsgSize = 1024
    MaxMessages = 2
SPECIFICATION Spec
INVARIANT TypeOK
INVARIANT GotIsOwn
INVARIANT ReceivedVerifies
INVARIANT SignatureFixesContent
INVARIANT GotUpToTooLarge
CHECK_DEADLOCK FALSE
