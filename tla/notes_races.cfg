SPECIFICATION NotesSpec
CONSTANTS
  Jobs = {1, 2, 3}
  NewJobs = {3}
  LegacyJobs = {1}
  LegacyTexts = {old}
  UserTexts = {new}
  Clients = {c1, c2}
  None = None
  MaxNotes = 4
SYMMETRY NotesSymmetry
INVARIANT NotesTypeOK
PROPERTIES DeletedForGood NotesCopied UnseenNoteKept
