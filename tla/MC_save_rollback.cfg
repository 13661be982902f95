CONSTANTS
  Racer = Racer
  Quest = Quest
  Maze = Maze
  Farm = Farm
  NoGame = NoGame
  Games = {Racer, Quest, Maze, Farm}
  Stem <- MCStem
  Kind <- MCKind
  Large <- MCLarge
  Detected <- MCLarge
  Values <- MCValues
  EarlyStates = TRUE
  MaxSaves = 2
SPECIFICATION Spec
INVARIANTS
  SaveKept
