SPECIFICATION MachineSpec
CONSTANTS
    Sources <- MCSources
    IMAGES <- MCIMAGES
    Listed <- MCListed
    Reads <- MCReads
    MaxEdits = 2
    WORDS = 3
    MAX_BLOCKS = 3
    KERNEL_PART_SECTORS = 3
    Kernels <- MCKernels
    FsImages <- MCFsImages
    MaxHarm = 1
INVARIANTS GreenFirmware LoadedIsWritten FsSurvives KernelGetsItsTree
PROPERTY FreshIsGreen
CHECK_DEADLOCK FALSE
VIEW MCView
