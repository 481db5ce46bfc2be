CONSTANTS
    s1 = s1
    s2 = s2
    s3 = s3
    r1 = r1
    r2 = r2
    r3 = r3
    NoRoom = NoRoom
    Sess <- MCSess
    RoomIds <- MCRoomIds
    SerialHandlers = TRUE
    Garbled = FALSE

SPECIFICATION Spec
SYMMETRY MCSymmetry

\* When every session has joined and closed, the loop ticks on an empty
\* group and its callback changes nothing: the model stops there.
CHECK_DEADLOCK FALSE

INVARIANT ClientReadsEveryPush
