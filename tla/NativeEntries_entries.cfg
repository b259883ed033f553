SPECIFICATION Spec
CONSTANTS
  Target = target_file
  Candidate = candidate_file
  Foreign = {f1, f2}
  MaxForeign = 3
  MaxTree = 2
  Depths = {0, 1}
  Limits = {2, 9}
INVARIANTS NothingForeignLost RefusalChangesNothing CommitAdmitted MetadataKept ListIsASnapshot
