SPECIFICATION Spec
CONSTANTS
  MaxFd = 10
  ShellFdBase = 4
  Descs = {"script", "tty", "f1", "f2", "f3", "f4"}
  NoDesc = "none"
  Script = "script"
  Lines = 3
  BufferLines = 2
  Pipes <- NoPipes
  Lists <- SomeLists
  StartFds <- BothStarts
  MaxDepth = 2
  MaxCommands = 3
  EvalUsesStdin = FALSE
CHECK_DEADLOCK FALSE
INVARIANTS TypeOK ScriptStaysReadable
PROPERTIES EachLineOnce DescriptorsRestored
