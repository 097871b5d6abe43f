\* Two processes, three programs and two edits (install, start, and the
\* command that undoes them, in any overlap); one hook event, as the code
\* treats its three alike, and two builds with hook commands of their own.
CONSTANTS
  Procs = {p1, p2}
  Builds = {b1, b2}
  HookEvents = {prompt}
  Missing = Missing
  MaxRuns = 3
  MaxEdits = 2
SPECIFICATION Spec
INVARIANTS EditsLostOnlyInWindows WiredOnce BackupIsPristine RestoreReturnsStock
CHECK_DEADLOCK FALSE
SYMMETRY Interchangeable
