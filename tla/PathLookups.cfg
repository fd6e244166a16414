CONSTANTS
    z = z
    a = a
    b = b
    Names = {z, a, b}
    Star = Star
    DoubleStar = DoubleStar
    Comment = Comment
    None = None
    Object <- MCObject
    BucketId = {1, 2}
    Base <- MCBase
    Listing <- MCListing
    Files <- MCFiles
    Edited <- MCEdited
    MaxEdits = 3
    MaxFaults = 1
CHECK_DEADLOCK FALSE
SPECIFICATION Spec
INVARIANTS NearestBucket HiddenStaysHidden
