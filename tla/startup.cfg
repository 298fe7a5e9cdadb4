SPECIFICATION FairSpec
CONSTANTS
  Choosable = {"chmod", "fchmod", "fchown", "fchmodat2", "fchownat", "write", "unlink", "init_module", "delete_module"}
INVARIANTS TypeOK EventsRun OptionsStart FilterStored NothingLeft
PROPERTIES Stops
CHECK_DEADLOCK FALSE
