\* Five failures in 60 s lock for 300 s, scaled down to three in 2 for 4 ticks.
SPECIFICATION Spec
CONSTANTS
  MaxFailures = 3
  Window = 2
  Lockout = 4
  MaxTime = 9
  MaxGuesses = 7
INVARIANTS TypeOK GuessBound LockoutIffBurst
