SPECIFICATION Spec
CONSTANTS
    Addr <- MCAddr
    Port <- MCPort
    Word <- MCWord
    InitMem <- MCInitMem
    SET_NUM = 2
    SyscallWrites <- MCReadOnly
    MaxAccess = 5
INVARIANTS TypeOK SetsBounded UniqueLines CleanLinesMatch CountersAgree
PROPERTY Transparent
