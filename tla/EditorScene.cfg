CONSTANTS
    Objects = {1, 2}
    Links = {"hand", "finger"}
    LinksOf <- MCLinksOf
    Poses = {"home", "up"}
    Home = "home"
    Trajs = {1, 2}
    Modes <- MCModes
SPECIFICATION SceneSpec
INVARIANTS SceneTypeOK SceneIsListed StatesAreSound
PROPERTIES PlaybackEnds
CHECK_DEADLOCK FALSE
