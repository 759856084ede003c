CONSTANTS
  Home <- MCHome
  Release <- MCRelease
  TlsSecret <- MCTlsSecret
  Matrix0 <- MCMatrix0
  Workloads0 <- MCWorkloads0
  Values0 <- MCValues0
  Overlays <- MCOverlays
  MatrixEdits <- MCMatrixEdits
  WorkloadEdits <- MCWorkloadEdits
  Pods <- MCPods
  MaxEdits = 1
SPECIFICATION Spec
INVARIANTS
  OnlyAuthorised
  CallersServed
  ClientsReach
  WebsiteBounded
  CapabilitiesBound
