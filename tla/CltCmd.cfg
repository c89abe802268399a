SPECIFICATION CltSpec
CONSTANTS
  MaxCalls = 2
  FirstOptions = {
    "taskstatus", "debuglog", "shutdown", "version", "datasave",
    "settingssts", "resettask", "readystatus", "factstore",
    "factrestore", "subscribe", "unsubscribe", "notify", "devopstate",
    "byte", "word", "dword", "mac", "ipaddr", "netmask", "ethcount",
    "ethname", "loadinfo", "meminfo", "cpuinfo", "devop", "fmwver",
    "bootsys", "fmwupdate", "ftp", "tftp", "asynctask", "devtype",
    "hostname", "myip", "defhostname", "updatelog", "logcount",
    "logline", "shellcmd", "shellcmdtrig", "devident", "evntsubscribe",
    "xmasynctask", "onlinestatus", "sendmessage", "buddysubscribe",
    "acceptbuddy", "inboxcount", "inbox", "emptyinbox"}
  OtherOptions = {"loadinfo", "logcount"}
INVARIANTS
  AnswersAreOwn
  Reported
  StopIsClean
  InterfaceAgrees
CHECK_DEADLOCK FALSE
