CONSTANTS
    Threads = {t1, t2}
    NoThread = NoThread
    NumSectors = 9
    SectorsPerTrack = 3
    SeekTime = 2
    RotationTime = 2
    SectorSize = 2
    NumDirEntries = 2
    Split = 1
    Names = {a, b, c}
    Sizes = {0, 4}
    Requests = {2}
    Positions = {1}
    Creators = {t1}
    Users = {t2}
    Values = {1}
    Horizon = 16
    Machines = {m1, m2}
    Chatty = {m1}
    MaxChats = 2
SPECIFICATION MCSpec
VIEW View
SYMMETRY Symmetry
INVARIANTS SpaceExact OneRequest LatencyExact DeliveredInOrder NoMailToHalted
PROPERTIES ImplementsFileStore MailTestOver
