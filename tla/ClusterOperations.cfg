SPECIFICATION Spec
CONSTANTS
    Resources <- MCResources
    Namespaces = {"a", "b", "c"}
    BlankNames = {" "}
    Served = {"a", "b"}
    c1 = c1
    c2 = c2
    operator = operator
    reader = reader
    admin = admin
    Clients = {c1, c2}
    Objects = {"depA", "depB", "dcr", "sec", "crole"}
    KindOf <- MCKindOf
    WordOf <- MCWordOf
    NameOf <- MCNameOf
    NamespaceOf <- MCNamespaceOf
    ClusterScope = ClusterScope
    Gone = Gone
    PodList <- MCPodList
    ClassOf <- MCClassOf
    PodNamespace <- MCPodNamespace
    Node = Node
    RoleWrites = {operator, reader, admin}
    Content <- MCContent
    Edits <- MCEdits
    Documents <- MCDocuments
    MaxRequests = 2
    MaxOthers = 1
INVARIANTS
    AppliedHolds
    DrainLeavesNothing
    RoleMeansWhatWasSaved
PROPERTIES
    
    EditsKeepOthers
SYMMETRY ClientSymmetry
CHECK_DEADLOCK FALSE
