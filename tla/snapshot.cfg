SPECIFICATION Spec
CONSTANTS
    None = None
    NP = 2
    PagesOf <- MCPagesOf
    FilePages <- MCFilePages
    HeapPages <- MCHeapPages
    Carriers <- MCCarriers
    Anchor = 2
    MaxSlots <- MCMaxSlots
    Foreign <- MCForeign
    Configs <- MCConfigs
    MaxLayouts = 2
    MaxEvents = 2
INVARIANTS
    RestoreExact
    CaptureExact
