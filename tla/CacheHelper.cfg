\* Changes and resyncs with a key that does not parse, beside another writer.
SPECIFICATION HFairSpec
INVARIANTS ListNamesExact MirrorCatchesUp
PROPERTY EventsHandled
CONSTANTS
    Names <- TwoNames
    Objs = {o1, o2}
    Contents <- States
    Terms <- StateTerms
    CreateIndexes <- IndexPluginStatus
    Writers <- TwoWriters
    WriterOf <- OneWriterEach
    Subs = {s1}
    Blocking = {}
    Cap = 1
    MaxWrites <- Bounds
    MaxChanges = 1
    None = None
    Keys <- TwoKeys
    ParseName <- Parse
    NoName = "?"
    Garbled = Garbled
    Helper = "helper"
    MaxEvents = 3
CHECK_DEADLOCK FALSE
