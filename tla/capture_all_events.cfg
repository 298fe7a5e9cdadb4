SPECIFICATION Spec
CONSTANTS
  t1 = t1
  t2 = t2
  logger = logger
  Threads = {t1, t2, logger}
  Logger = logger
  Others = {t2}
  Events = {"write", "read", "unlink", "unlinkat", "chmod", "fchmod", "fchmodat", "fchmodat2", "chown", "fchown", "fchownat", "rename", "renameat", "renameat2", "mmap", "execve", "execveat", "clone", "clone3", "sched_process_exit", "setuid", "setgid", "setreuid", "setregid", "setresuid", "setresgid", "setfsuid", "setfsgid", "connect", "listen", "accept", "accept4", "init_module", "finit_module", "delete_module", "usb_set_device_state"}
  HashSize = 1
  RingSize = 1
  MaxCalls = 1
  Leader <- MCLeader
  Handler <- MCHandler
  EnterAt <- MCEnterAt
  ExitAt <- MCExitAt
  NPrograms <- MCNPrograms
  HashMax <- MCHashMax
  RingMax <- MCRingMax
INVARIANTS IInv
