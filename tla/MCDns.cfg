\* Three interfaces, four entries that share servers and domains, a path that
\* may be a link, one restart
SPECIFICATION DnsSpec
CONSTANTS
  eth = eth  wlan = wlan  wg = wg
  n1 = n1  n2 = n2  n3 = n3  n4 = n4  d1 = d1  d2 = d2  d3 = d3
  NoEntry = NoEntry
  Iface = {eth, wlan, wg}
  Rank <- MCRank
  Entries <- MCEntries
  Width <- MCWidth
  MaxNameservers = 3
  MaxSearchDomains = 2
  MaxSearchChars = 5
  MaxCrash = 1
INVARIANTS
  DnsTypeOK
  ResolverCurrent
PROPERTY LinkKept
