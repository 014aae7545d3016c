CONSTANTS
    Creator = {"hw", "one", "two"}
    Cards = 3
    Match = {1, 3}
    Holder = {h1, h2}
    Bound = {b1, b2}
SPECIFICATION FairSpec
INVARIANTS TypeOK NoUseAfterFreeUnlessBound NothingLostUnlessParse
PROPERTIES FreedOnce LoaderEnds
