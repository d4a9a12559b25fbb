CONSTANTS
    W = 3
    Self = 0
    K <- MC_K
    Entries <- MC_Entries
    Peers <- MC_Peers
SPECIFICATION Spec
INVARIANT
    StoredEntriesOwned
