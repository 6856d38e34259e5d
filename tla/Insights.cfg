SPECIFICATION Spec
CONSTANTS
    Objects <- MCObjects
    Absent = Absent
    ClusterScope = ClusterScope
    NoNode = NoNode
    Starts <- MCStarts
    Edits <- MCEdits
    Requests <- MCRequests
    MaxEdits = 1
INVARIANTS
    OneMoment
    ViewsAgree
    NamespacesApart
