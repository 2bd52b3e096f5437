SPECIFICATION FairSpec
CONSTANTS
  flat = flat  sites = sites  hill = hill a = a  b = b
  Device = {1, 2}
  Target = {a, b}
  Tab = {flat, sites}
  HighSites = {sites}
  Group = {hill}
  TabOf <- OnSites
  Deployment <- SiteOrAlone
  None = None
  Replies = {"ok"}
  DownAfter = 2
  Sampler = {sampler}
  Page = {page}
  MaxFaults = 1
  MaxEdits = 1
INVARIANTS
  TypeOK
  DictionariesAgree
  AlarmsWereRaised
PROPERTIES
  NoticedInTheEnd
  GroupAlarmSettles
