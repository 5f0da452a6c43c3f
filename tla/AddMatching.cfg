\* `add -` with a program for any multitouch device.
CONSTANTS
  local = local
  lib = lib
  Dirs <- MCDirs
  Etc = etc
  Cwd = cwd
  Name <- MCName
  Meta <- MCMeta
  Fixup <- MCFixup
  MapsOnly <- MCMapsOnly
  Works <- MCWorks
  Choosy <- MCChoosy
  Devices <- MCDevices
  MaxChanges = 0
  Search = search
  Variables = {"A", "B"}
  Exported = "M"
  Sizes = {2, 3}
  Lengths = {0, 2}
  Room = 6
  Rust <- MCRust
  Struct = "Descriptor"
  Objects <- MCObjects
  Root = "variable"
  Starts = {0, 1, 7, 8, 15, 24, 65500, 65504, 65530, 65535, 65536, 65544}
  Widths = {0, 1, 7, 8, 9, 16, 31, 32, 33, 36}
  Buffers = {1, 4, 8192, 8200}
SPECIFICATION Spec
INVARIANTS MatchesAreFound
CHECK_DEADLOCK FALSE
