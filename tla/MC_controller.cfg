CONSTANTS
    n1 = n1
    Ids <- MCDecimalIds
    Protos <- MCProtos
    ProtoNames <- MCProtoNames
    Nodes <- MCNodes
    StaticHandles <- MCStaticHandles
SPECIFICATION Spec
PROPERTY DeleteRemovesVolume
