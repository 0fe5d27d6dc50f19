SPECIFICATION ToolsSpec
CONSTANTS
  Parts = {"router", "tftpd", "window", "setup", "rarpd", "clockdiff", "tracepath", "ninfod"}
  rdisc <- MCrdisc
  router <- MCrouter
  tftpd <- MCtftpd
  window <- MCwindow
  setup <- MCsetup
  ping <- MCping
  arping <- MCarping
  rarpd <- MCrarpd
  clockdiff <- MCclockdiff
  tracepath <- MCtracepath
  traceroute6 <- MCtraceroute6
  ninfod <- MCninfod
INVARIANTS
  ToolsTypeOK
  TransferIntact
  CountsExact
  SetupSound
  AnswerFits
  Accurate
  PmtuTrue
  RepliesSound
PROPERTIES
  RouteKept
CHECK_DEADLOCK FALSE
