SPECIFICATION Spec
CONSTANTS
  UInt = 1048576
  ULong = 4194304
  MaxCallers = 2
  MaxDials = 3
  CommandLines <- SomeCommandLines
  Numbers <- AllNumbers
INVARIANTS
  TypeOK
  StartedAsAsked
  CallbacksSetWhenServing
  CallsAsDialled
