SPECIFICATION HostsSpec
CONSTANTS
  Words <- MCWords
  Lower <- MCLower
  Names <- MCNames
  LabelSets <- MCLabelSets
  SiteKeys <- MCSiteKeys
  DomainSuffixes <- MCDomainSuffixes
  RelayHosts <- MCRelayHosts
  Probes <- MCProbes
  Chars <- MCChars
  Precedes <- MCPrecedes
INVARIANTS
  HostsTypeOK
  ZonesServe
  EndpointWorks
