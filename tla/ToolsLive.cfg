SPECIFICATION FairSpec
CONSTANTS
  Parts = {"rdisc", "ping", "arping", "traceroute6"}
  rdisc <- MCrdisc
  router <- MCrouter
  tftpd <- MCtftpd
  window <- MCwindow
  setup <- MCsetup
  ping <- MCping
  arping <- MCarping
  rarpd <- MCrarpd
  clockdiff <- MCclockdiff
  tracepath <- MCtracepath
  traceroute6 <- MCtraceroute6
  ninfod <- MCninfod
INVARIANTS
  RoutesAreBest
  PacketsPaced
  ProbesOwn
PROPERTIES
  SilentRouterDropped
  StopsTimed
  ToolsEnd
CHECK_DEADLOCK FALSE
