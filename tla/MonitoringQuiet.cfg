SPECIFICATION FairSpec
CONSTANTS
  h1 = h1  h2 = h2  page = page  green = green  red = red
  None = None
  Hosts <- MCHosts
  Statuses = {red}
  Falsy = {}
  Viewers <- MCViewers
  MaxRuns = 1
  MaxSent = 2
  MaxReplies = 1
  Faults = {"expire"}
PROPERTIES
  NewestShown
