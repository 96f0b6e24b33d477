SPECIFICATION Spec
CONSTANTS
    MAX_BUF_SIZE = 512
    Machines <- SomeMachines
    Lines <- SomeLines
    Cuts <- SomeCuts
    PublicKey <- Blob276
    SessionKey <- Blob268
INVARIANTS TypeOK WholeRequests AskedWhatWasMeant ToldWhatIsSo TimesAreRight RequestsFit ResponsesFit
CHECK_DEADLOCK FALSE
