CONSTANTS
  Base = 4
  Width = 5
SPECIFICATION CounterSpec
PROPERTIES CountsUp
