\* Two Assets with one schedule each, every registry call may raise.
CONSTANTS
    NumAssets = 2
    Schedules = {s1}
    AssetOf <- MCAssetOf
    Linking = {1}
    Archiving = {1, 2}
    Renaming = {1, 2}
SPECIFICATION Spec
INVARIANTS FollowsTheStore FailureIsCompensated NextSetupConverges
PROPERTIES IdentitiesAreKept
