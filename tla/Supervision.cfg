CONSTANTS
  tick = tick
  Loops = {tick}
  PauseOnStart = "crash-loop"
  CrashLoop = 2
  BadChecks = 2
  MaxStarts = 3
SPECIFICATION Spec
INVARIANT OneThreadPerLoop
PROPERTIES CrashLoopPauses LoopsComeBack
