SPECIFICATION Spec
CONSTANTS
  Texts <- MCTexts
  Normal <- MCNormal
  Nil = Nil
  Envs <- AnyEnv
  Files <- MCFiles
  Unreadable = Unreadable
  IntMax = 100000
INVARIANTS
  TypeOK
  LoadedMappingsWork
  EntriesIndependent
  LoadedIsUsable
