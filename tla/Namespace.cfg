CONSTANTS
    Tasks = {t1, t2}
    Inodes = {1, 2, 3, 4}
    Root = 1
    Names = {"a", "b"}
    Scenes <- MCScenes
SPECIFICATION LiveSpec
INVARIANTS Tree CacheAgrees OrphansRight
PROPERTIES Answered
