SPECIFICATION Spec
CONSTANTS
    Addr <- MCAddr
    Port <- MCPort
    Word <- MCWord
    InitMem <- MCInitMem
    SET_NUM = 2
    SyscallWrites <- MCRead
    MaxAccess = 5
INVARIANT CleanLinesMatch
