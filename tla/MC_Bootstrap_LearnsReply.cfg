CONSTANTS
    W = 3
    K = 2
    AAddr = 0
    BAddr = 1
    Peers = {2}
    Entries <- MC_Entries
SPECIFICATION Spec
PROPERTY
    BootstrapLearnsReply
