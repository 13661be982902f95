CONSTANTS
  Racer = Racer
  Quest = Quest
  Maze = Maze
  Farm = Farm
  NoGame = NoGame
  Games = {Racer, Quest, Maze, Farm}
  Stem <- MCStem
  Kind <- MCKind
  Large <- MCLarge
  Detected <- MCLarge
  Values <- MCValues
  EarlyStates = FALSE
  MaxSaves = 2
SPECIFICATION Spec
INVARIANTS
  TypeOK
  LiveSave
  SaveKept
