\* Five arguments, two of them the same and a part of another, one below an
\* ignored name, one that does not exist; every lstat, opendir and allocation may fail.
SPECIFICATION Spec
CONSTANTS
  Dirs <- MCDirs
  Regular <- MCRegular
  Links <- MCLinks
  Changing <- MCChanging
  Cwd <- MCCwd
  Named = {"a.c", "b.c", "gen.c", "s.c", "l.c", "top.c"}
  IGNORED_FILES = {".git", "build", "dist"}
  Roots <- MCRoots
  MayFail = TRUE
INVARIANTS PutRight PutComplete
