SPECIFICATION QueueSpec
CONSTANTS
  Producers = {"ui", "button"}
  MaxAdds = 3
CHECK_DEADLOCK FALSE
INVARIANTS
  
  RemoveDoesNotThrow
