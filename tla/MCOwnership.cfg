SPECIFICATION Spec
CONSTANTS
    io1 = io1
    io2 = io2
    Sockets <- MCSockets
    Networked <- MCSockets
    IoThreads <- MCIoThreads
    Objects <- MCObjects
    MaxRestarts = 1
SYMMETRY Symmetry
INVARIANTS NoUseAfterDelete NothingOutlivesContext TermReturns
CHECK_DEADLOCK FALSE
