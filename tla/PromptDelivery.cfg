\* A prompt and a slash command, POSTed up to twice in all, with one kill.
CONSTANTS
    MaxWishes = 2
    Text <- Different
    Commands = {2}
    MaxPosts = 2
    MaxReloads = 1
SPECIFICATION FairSpec
CHECK_DEADLOCK FALSE
INVARIANTS
    OncePerWish
    NothingVanishes
PROPERTIES
    DeliveredIsNoticed
