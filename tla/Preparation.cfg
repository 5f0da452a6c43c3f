\* A device with two versions of one program and another program, and two changes
\* of files, rules or the hwdb; two variables and a map; a struct in many forms.
CONSTANTS
  local = local
  lib = lib
  Dirs <- MCDirs
  Etc = etc
  Cwd = cwd
  Name <- MCName
  Meta <- MCMeta
  Fixup <- MCFixup
  MapsOnly <- MCMapsOnly
  Works <- MCWorks
  Choosy <- MCChoosy
  Devices <- MCDevices
  MaxChanges = 2
  Search = search
  Variables = {"A", "B"}
  Exported = "M"
  Sizes = {2, 3}
  Lengths = {0, 2}
  Room = 6
  Rust <- MCRust
  Struct = "Descriptor"
  Objects <- MCObjects
  Root = "variable"
  Starts = {0, 1, 7, 8, 15, 24, 65500, 65504, 65530, 65535, 65536, 65544}
  Widths = {0, 1, 7, 8, 9, 16, 31, 32, 33, 36}
  Buffers = {1, 4, 8192, 8200}
SPECIFICATION Spec
INVARIANTS TypeOK LoadsTheBest InstalledLoads NothingLeft VariablesShow ExportsShow AcceptedAgrees FieldsAreRead
CHECK_DEADLOCK FALSE
