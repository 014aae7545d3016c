CONSTANTS
    Image <- MCImage
    Index <- MCIndex
    Asked <- MCAsked
SPECIFICATION FairSpec
INVARIANTS TypeOK LayoutAgreesUnless EnumerationCoversUnlessGap FoundIsAsked WalkFindsFirst PinIsCountedUnless
PROPERTIES QueryReturns
