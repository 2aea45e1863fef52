SPECIFICATION Spec
CONSTANTS
  MicroMax = 1
  Triggers = {a, b}
  Nothing = Nothing
  PushedTags <- MCPushedTags
INVARIANT QueueSorted
PROPERTY ImplementsAgenda
