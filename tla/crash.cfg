\* The process dies while the session's file is rewritten.
CONSTANT MaxId = 3
SPECIFICATION Spec
PROPERTY CrashKeepsFile
