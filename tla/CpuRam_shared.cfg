\* Two children share the file, over any number of sessions, with commands
\* that fail and kills at any place.
CONSTANT Children = {c1, c2}
SYMMETRY Symmetry
SPECIFICATION Spec
INVARIANTS
  FalseOnlyIfDisturbed
  FileHasOwner
