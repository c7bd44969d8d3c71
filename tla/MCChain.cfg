SPECIFICATION FairChainSpec
CONSTANTS
  Hops <- OneOrTwo
  InProtocols <- AllIn
  OutProtocols <- AllOut
  Data <- UpData
  Answers <- DownData
  LeaveWhenever = FALSE
  Addresses <- OddAddresses
  Ports <- OddPorts
  Texts <- OddTexts
INVARIANTS TypeOK StreamsIntact PairAgrees FarHopAgrees
PROPERTIES ImplementsPipe EverythingArrives
CHECK_DEADLOCK FALSE
